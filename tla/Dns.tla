-------------------------------- MODULE Dns --------------------------------
(***************************************************************************)
(* dns.c: DNS messages, packed record by record with names compressed, and *)
(* read again.  A message is a function from the offsets where something   *)
(* begins to what begins there.                                            *)
(***************************************************************************)
EXTENDS Integers, Sequences, FiniteSetsExt

CONSTANTS
  Names,         (* host names: sequences of labels                        *)
  Aliases,       (* the names that CNAME records point to                  *)
  LabelLen,      (* the length of each label                               *)
  MaxRRs         (* bound: records in a message                            *)

VARIABLES
  buf,     (* the message                                                  *)
  dns,     (* ptr and the counts, and name_hash                            *)
  wire,    (* the header in the message, flags 0 before it is written      *)
  packed,  (* what the caller packed                                       *)
  ret      (* what the last dns_pack_query_in_a or reply returned          *)

vars == <<buf, dns, wire, packed, ret>>

DNS_HDR_LEN == 12
DNS_NAME_PTR == 192
DNS_OPCODE_QUERY == 0
QUESTION == 1
ANSWER == 2
AUTHORITY == 3
ADDITIONAL == 4

Rr(section, name, type, data) == [section |-> section, name |-> name, type |-> type, data |-> data]

-----------------------------------------------------------------------------
(* pack_bits: a field of the flags word is replaced, or taken out.         *)
PutBits(u, host, bits, shift) ==
  u - ((u \div 2^shift) % 2^bits) * 2^shift + (host % 2^bits) * 2^shift

GetBits(u, bits, shift) == (u \div 2^shift) % 2^bits

(* dns_pack: the flags of a header.                                        *)
PackFlags(h) ==
  PutBits(PutBits(PutBits(PutBits(0, h.qr, 1, 15), h.opcode, 4, 11), h.rd, 1, 8), h.rcode, 4, 0)

UnpackFlags(u) ==
  [qr |-> GetBits(u, 1, 15), opcode |-> GetBits(u, 4, 11), rd |-> GetBits(u, 1, 8),
   rcode |-> GetBits(u, 4, 0)]

-----------------------------------------------------------------------------
Suffix(name, k) == SubSeq(name, k, Len(name))

(* Where the k-th label of a name packed at an offset goes.                *)
LabelAt(name, k, at) == at + MapThenSumSet(LAMBDA i : LabelLen[name[i]] + 1, 1..(k - 1))

(* Mutant: a name is remembered by where its first label's letters begin.  *)
OffsetOfLetters(name, k, at) == LabelAt(name, k, at) + 1

(* What the hash remembers of a suffix.                                    *)
OffsetOf(name, k, at) == LabelAt(name, k, at)

(* dns_pack_name: labels up to the longest suffix that is in the message   *)
(* already, and a pointer to it; all new suffixes go into the hash.        *)
dns_pack_name(b, hash, name, at) ==
  LET known == {k \in 1..Len(name) : Suffix(name, k) \in DOMAIN hash}
      n     == IF known = {} THEN Len(name) + 1 ELSE Min(known)
      end   == LabelAt(name, n, at)
      new   == 1..(n - 1)
      last  == IF known = {} THEN [is |-> "end"] ELSE [is |-> "ptr", to |-> hash[Suffix(name, n)]]
      items == [o \in {LabelAt(name, k, at) : k \in new} |->
                  [is |-> "label", l |-> name[CHOOSE k \in new : LabelAt(name, k, at) = o]]]
      sufs  == {Suffix(name, k) : k \in new}
  IN  [buf  |-> [o \in DOMAIN b \cup DOMAIN items \cup {end} |->
                   IF o = end THEN last ELSE IF o \in DOMAIN items THEN items[o] ELSE b[o]],
       hash |-> [s \in DOMAIN hash \cup sufs |->
                   IF s \in DOMAIN hash THEN hash[s]
                   ELSE OffsetOf(name, CHOOSE k \in new : Suffix(name, k) = s, at)],
       end  |-> end + (IF known = {} THEN 1 ELSE 2)]

(* The offset in a pointer: its low byte is a signed char, which makes     *)
(* the offset negative and the name unreadable.                            *)
Follows(to) == to % 256 < 128

(* dns_unpack_name, and where the name ended.                              *)
dns_unpack_name(b, at) ==
  LET walk[o \in DOMAIN b \cup {-1}] ==
        CASE o = -1                 -> <<"bad">>
          [] b[o].is = "end"        -> <<>>
          [] b[o].is = "ptr"        -> walk[IF Follows(b[o].to) /\ b[o].to \in DOMAIN b
                                             THEN b[o].to ELSE -1]
          [] b[o].is = "label"      -> LET next == o + 1 + LabelLen[b[o].l]
                                       IN  <<b[o].l>> \o walk[IF next \in DOMAIN b THEN next ELSE -1]
          [] OTHER                  -> <<"bad">>
      ends[o \in DOMAIN b \cup {-1}] ==
        CASE o = -1            -> -1
          [] b[o].is = "end"   -> o + 1
          [] b[o].is = "ptr"   -> o + 2
          [] b[o].is = "label" -> LET next == o + 1 + LabelLen[b[o].l]
                                  IN  ends[IF next \in DOMAIN b THEN next ELSE -1]
          [] OTHER             -> -1
      from == IF at \in DOMAIN b THEN at ELSE -1
  IN  [name |-> walk[from], end |-> ends[from]]

-----------------------------------------------------------------------------
Put(b, o, item) == [x \in DOMAIN b \cup {o} |-> IF x = o THEN item ELSE b[x]]

(* dns_rr_pack from host to net: the record goes to ptr, and is counted.   *)
dns_rr_pack(b, d, rr) ==
  LET n     == dns_pack_name(b, d.name_hash, rr.name, d.ptr)
      fixed == n.end + (IF rr.section = QUESTION THEN 4 ELSE 10)
      c     == dns_pack_name(n.buf, n.hash, rr.data, fixed)
      rlen  == IF rr.type = "CNAME" THEN c.end - fixed ELSE 4
      item  == [is |-> "rr", type |-> rr.type, rdata_len |-> rlen, data |-> rr.data]
      count == [d.counts EXCEPT ![rr.section] = @ + 1]
  IN  IF rr.section = QUESTION
      THEN <<Put(n.buf, n.end, [item EXCEPT !.data = <<>>]), [ptr |-> fixed, counts |-> count, name_hash |-> n.hash]>>
      ELSE IF rr.type = "CNAME"
      THEN <<Put(c.buf, n.end, [item EXCEPT !.data = <<>>]), [ptr |-> c.end, counts |-> count, name_hash |-> c.hash]>>
      ELSE <<Put(n.buf, n.end, item), [ptr |-> fixed + 4, counts |-> count, name_hash |-> n.hash]>>

(* The section of the i-th record a reader comes to, or 0 at the end.      *)
SectionOf(counts, i) ==
  LET upto(s) == MapThenSumSet(LAMBDA t : counts[t], 1..s)
      in      == {s \in 1..4 : i <= upto(s)}
  IN  IF in = {} THEN 0 ELSE Min(in)

Bad == Rr(0, <<>>, "bad", <<>>)

Readable(n) == n.end # -1 /\ \A i \in DOMAIN n.name : n.name[i] # "bad"

(* dns_rr_pack from net to host: the record at an offset, and where the    *)
(* next one is looked for; it fails at a name that is not readable.  After *)
(* a CNAME the next one is looked for behind the name, plus the length of  *)
(* the name again.                                                         *)
ReadRr(b, section, at) ==
  LET n == dns_unpack_name(b, at)
      fixed == n.end + (IF section = QUESTION THEN 4 ELSE 10)
  IN  IF ~Readable(n) \/ n.end \notin DOMAIN b \/ b[n.end].is # "rr" THEN <<Bad, 0>>
      ELSE LET f == b[n.end]
               c == dns_unpack_name(b, fixed)
           IN  CASE section = QUESTION -> <<Rr(section, n.name, f.type, <<>>), fixed>>
                 [] f.type = "CNAME"   -> <<Rr(section, n.name, f.type, c.name), c.end + f.rdata_len>>
                 [] OTHER              -> <<Rr(section, n.name, f.type, f.data), fixed + f.rdata_len>>

(* All the records a reader of the message gets.                           *)
Read ==
  LET total == MapThenSumSet(LAMBDA s : wire.counts[s], 1..4)
      at[i \in 1..(total + 1)] ==
        IF i = 1 THEN DNS_HDR_LEN ELSE ReadRr(buf, SectionOf(wire.counts, i - 1), at[i - 1])[2]
  IN  [i \in 1..total |-> ReadRr(buf, SectionOf(wire.counts, i), at[i])[1]]

(* Mutant: the loop ends at the first answer.                              *)
PickedFirst(r) == 1

(* The first answer is picked for 0 and for 1.                             *)
Picked(r) == IF r = 0 THEN 1 ELSE r

(* dns_resolve_reply: what hosts[0] may be, when there are no CNAMEs.  The *)
(* answers for the first question's name are counted, and a random number  *)
(* of answers for any name is skipped.                                     *)
Guesses(recs) ==
  LET answers == SelectSeq(recs, LAMBDA r : r.section = ANSWER /\ r.type = "A")
      asked   == {i \in DOMAIN recs : recs[i].section = QUESTION}
      n       == Len(SelectSeq(answers, LAMBDA r : r.name = recs[Min(asked)].name))
  IN  IF asked = {} \/ answers = <<>> THEN {}
      ELSE {answers[Picked(r)] : r \in 0..n}

-----------------------------------------------------------------------------
NoCounts == [s \in 1..4 |-> 0]
New == [ptr |-> DNS_HDR_LEN, counts |-> NoCounts, name_hash |-> [s \in {} |-> 0]]
Unwritten == [flags |-> 0, counts |-> NoCounts]

(* dns_init.                                                               *)
Init ==
  /\ buf = [o \in {} |-> 0]
  /\ dns = New
  /\ wire = Unwritten
  /\ packed = <<>>
  /\ ret = 0

(* The caller packs a record behind those of earlier sections, and the     *)
(* header: dns_pack.                                                       *)
Pack(rr, hdr) ==
  /\ Len(packed) < MaxRRs
  /\ packed # <<>> => rr.section >= packed[Len(packed)].section
  /\ \E p \in {dns_rr_pack(buf, dns, rr)} :
       /\ buf' = p[1]
       /\ dns' = p[2]
       /\ wire' = [flags |-> PackFlags(hdr), counts |-> p[2].counts]
  /\ packed' = Append(packed, rr)
  /\ ret' = 0

Query(name) == Rr(QUESTION, name, "A", <<>>)

(* dns_rr_pack returns 1 when it packed the question, and the assertion    *)
(* that it returns 0 fails: no header is written.                          *)
dns_pack_query_in_a(name) ==
  /\ packed = <<>>
  /\ \E p \in {dns_rr_pack(buf, dns, Query(name))} : buf' = p[1] /\ dns' = p[2]
  /\ packed' = <<Query(name)>>
  /\ ret' = -1
  /\ UNCHANGED wire

(* The reply to a query whose first record is a question: that it is for   *)
(* the address of a name, and the address.  Any other message is refused,  *)
(* and nothing is packed.                                                  *)
dns_pack_reply_in_a(addr) ==
  /\ packed # <<>> /\ wire # Unwritten
  /\ \E first \in {Read[1]} :
       /\ first.section = QUESTION
       /\ UnpackFlags(wire.flags).qr = 0 /\ UnpackFlags(wire.flags).opcode = DNS_OPCODE_QUERY
       /\ LET q == Query(first.name)
              a == Rr(ANSWER, first.name, "A", addr)
          IN  \E p \in {dns_rr_pack([o \in {} |-> 0], New, q)} :
                \E r \in {dns_rr_pack(p[1], p[2], a)} :
                  /\ buf' = r[1]
                  /\ dns' = r[2]
                  /\ wire' = [flags |-> PackFlags([UnpackFlags(wire.flags) EXCEPT !.qr = 1, !.rd = 0]),
                              counts |-> r[2].counts]
                  /\ packed' = <<q, a>>
                  /\ ret' = r[2].ptr

dns_init ==
  /\ packed # <<>>
  /\ buf' = [o \in {} |-> 0]
  /\ dns' = New
  /\ wire' = Unwritten
  /\ packed' = <<>>
  /\ ret' = 0

Hdrs == {[qr |-> q, opcode |-> o, rd |-> 1, rcode |-> o] : q \in {0, 1}, o \in {0, 2}}
Questions == {Rr(QUESTION, n, t, <<>>) : n \in Names, t \in {"A", "PTR"}}
Records ==
  {Rr(ANSWER, n, "A", <<a>>) : n \in Names, a \in {"this", "that"}}
    \cup {Rr(s, n, "A", <<"this">>) : s \in {AUTHORITY, ADDITIONAL}, n \in Names}
    \cup {Rr(ANSWER, n, "CNAME", m) : n \in Names, m \in Aliases}

Next ==
  \/ \E rr \in Questions \cup Records, hdr \in Hdrs : Pack(rr, hdr)
  \/ \E name \in Names : dns_pack_query_in_a(name)
  \/ dns_pack_reply_in_a(<<"this">>)
  \/ dns_init

Spec == Init /\ [][Next]_vars

-----------------------------------------------------------------------------
(* No name is compressed to an offset whose low byte is above 127.         *)
PointersFollow == \A o \in DOMAIN buf : buf[o].is = "ptr" => Follows(buf[o].to)

(* Reading a message gives the records that were packed, in their          *)
(* sections, with their names whole and the names of their data, and the   *)
(* flags of the header: as long as all pointers can be followed, and up to *)
(* the first CNAME, itself included.                                       *)
ReadsBack ==
  wire # Unwritten =>
    /\ PackFlags(UnpackFlags(wire.flags)) = wire.flags
    /\ Len(Read) = Len(packed)
    /\ PointersFollow =>
         \A i \in DOMAIN packed :
           (\A j \in 1..(i - 1) : packed[j].type # "CNAME") => Read[i] = packed[i]

(* What a reader of the interface expects, which is not true: a pointer to *)
(* an offset with a low byte above 127 is refused (dns.c:218), and behind  *)
(* a CNAME the next record is looked for too far on (dns.c:352-378).       *)
AllReadBack == wire # Unwritten => Read = packed

(* "hosts[0] is a best guess": when all answers are for the name that was  *)
(* asked for, any of them may be the guess, and nothing else.              *)
BestGuess ==
  LET answers == {packed[i] : i \in {j \in DOMAIN packed : packed[j].section = ANSWER}}
  IN  (/\ wire # Unwritten /\ answers # {} /\ PointersFollow
       /\ packed[1].section = QUESTION
       /\ \A a \in answers : a.type = "A" /\ a.name = packed[1].name)
        => Guesses(Read) = answers

(* "pack a DNS request for hostname into buf, return length, ready to send *)
(* to your favourite name server" (dns.h).                                 *)
QueryReady ==
  packed # <<>> /\ wire = Unwritten => ret = dns.ptr
=============================================================================
