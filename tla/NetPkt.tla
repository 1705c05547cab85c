------------------------------- MODULE NetPkt -------------------------------
(***************************************************************************)
(* netpkt.c: ethernet frames with IP, TCP and UDP headers: how they are    *)
(* built, parsed, checksummed, and their options walked.  A header is a    *)
(* record of the fields the code reads or writes, lengths are in bytes.    *)
(***************************************************************************)
EXTENDS Integers, Sequences, FiniteSetsExt

CONSTANTS
  Byte,          (* the bytes messages are made of                         *)
  OptByte,       (* the bytes options are made of                          *)
  MaxBody        (* bound: length of a message                             *)

VARIABLES
  pkt,       (* the frame in the buffer                                    *)
  sums       (* of its checksums: "unset", "set", or "changed": set, and   *)
             (* a byte is another since                                    *)

vars == <<pkt, sums>>

Bodies == UNION {[1..n -> Byte] : n \in 0..MaxBody}
Zeros(n) == [i \in 1..n |-> 0]

TCP == 6
UDP == 17
EthHdr == 14
IpHdr == 20
TcpHdr == 20
UdpHdr == 8
TH_SYN == 2

(* The frame in a buffer: pad is what follows the IP packet in it.         *)
Frame(p, src, dst, flags, opts, body, pad) ==
  [p |-> p, src |-> src, dst |-> dst, hl |-> 5,
   len |-> IpHdr + Len(opts) + Len(body) + (IF p = TCP THEN TcpHdr ELSE UdpHdr),
   doff |-> 5 + Len(opts) \div 4, flags |-> flags, opts |-> opts, body |-> body,
   pad |-> pad, sum |-> 0, check |-> 0]

-----------------------------------------------------------------------------
(* Mutant: an odd byte at the end is left out.                             *)
CksumEven(b) ==
  LET word(i) == b[i] + 256 * b[i + 1]
  IN  MapThenSumSet(word, {i \in 1..(Len(b) - 1) : i % 2 = 1})

(* netpkt_cksum_in on a little endian machine: an odd byte at the end is   *)
(* the low half of a word.                                                 *)
netpkt_cksum_in(b) ==
  LET word(i) == b[i] + (IF i < Len(b) THEN 256 * b[i + 1] ELSE 0)
  IN  MapThenSumSet(word, {i \in 1..Len(b) : i % 2 = 1})

netpkt_cksum_in_final(sum) ==
  LET once == (sum \div 65536) + (sum % 65536)
  IN  65535 - ((once + (once \div 65536)) % 65536)

Addr(a) == <<10, 0, 0, a>>
Big(n) == <<n \div 256, n % 256>>

(* The sums with the checksum field taken for zero.                        *)
netpkt_cksum_ip(f) ==
  netpkt_cksum_in_final(netpkt_cksum_in(
    <<64 + f.hl, 0>> \o Big(f.len) \o <<255, f.p>> \o Addr(f.src) \o Addr(f.dst)))

(* The header and body, as long as the IP header says, and the pseudo      *)
(* header.                                                                 *)
Segment(f) == <<f.doff * 16, f.flags>> \o f.opts \o f.body

netpkt_cksum_tcp(f) ==
  netpkt_cksum_in_final(netpkt_cksum_in(Segment(f))
    + netpkt_cksum_in(Addr(f.src) \o Addr(f.dst) \o <<0, f.p>> \o Big(f.len - f.hl * 4)))

netpkt_cksum_udp(f) == netpkt_cksum_tcp(f)

netpkt_cksum_set(f) ==
  LET g == [f EXCEPT !.check = IF f.p = TCP THEN netpkt_cksum_tcp(f) ELSE netpkt_cksum_udp(f)]
  IN  [g EXCEPT !.sum = netpkt_cksum_ip(g)]

netpkt_cksum_check(f) == f.sum = netpkt_cksum_ip(f) /\ f.check = netpkt_cksum_tcp(f)

(* Mutant: the old word is added again and not taken away.                 *)
AdjustAdding(oldsum, old, new) ==
  LET sum  == (65535 - oldsum) + netpkt_cksum_in(old) + netpkt_cksum_in(new)
      once == (sum % 65536) + (sum \div 65536)
  IN  65535 - (((once % 65536) + (once \div 65536)) % 65536)

(* A checksum after four bytes became others, without summing up again:    *)
(* ~old is added.                                                          *)
netpkt_adjust_cksum(oldsum, old, new) ==
  LET not  == [i \in DOMAIN old |-> 255 - old[i]]
      sum  == (65535 - oldsum) + netpkt_cksum_in(not) + netpkt_cksum_in(new)
      once == (sum % 65536) + (sum \div 65536)
  IN  65535 - (((once % 65536) + (once \div 65536)) % 65536)

(* netpkt_adjust_ip_src_dst: a UDP checksum is never zero afterwards.      *)
Rewritten(f, src, dst) ==
  LET c == netpkt_adjust_cksum(netpkt_adjust_cksum(f.check, Addr(f.src), Addr(src)), Addr(f.dst), Addr(dst))
      g == [f EXCEPT !.src = src, !.dst = dst, !.check = IF c = 0 /\ f.p = UDP THEN 65535 ELSE c]
  IN  [g EXCEPT !.sum = netpkt_cksum_ip(g)]

-----------------------------------------------------------------------------
(* netpkt_parse_ether and netpkt_parse_ip: where the message begins, how   *)
(* long it is, and how long the options are.                               *)
netpkt_parse_ether(f) ==
  LET hdrlen == IF f.p = TCP THEN f.doff * 4 ELSE UdpHdr
  IN  [off     |-> EthHdr + f.hl * 4 + hdrlen,
       len     |-> f.len - f.hl * 4 - hdrlen,
       opt_len |-> IF f.p = TCP THEN hdrlen - TcpHdr ELSE 0]

(* Where the message of the frame really begins.                           *)
BodyAt(f) == EthHdr + IpHdr + Len(f.opts) + (IF f.p = TCP THEN TcpHdr ELSE UdpHdr)

(* tcp_seq_next, less the packet's own sequence number.                    *)
tcp_seq_next(f) == netpkt_parse_ether(f).len + ((f.flags \div TH_SYN) % 2) + (f.flags % 2)

-----------------------------------------------------------------------------
(* Mutant: an option is as long as its data.                               *)
OptLenOfData(o, p) ==
  LET n == IF p < Len(o) THEN o[p + 1] ELSE 0
  IN  IF n < 2 \/ n > 127 \/ p - 1 + n > Len(o) THEN 0 ELSE n - 1

(* The length of the option at position p, a signed char, or 0 when it     *)
(* does not fit: a byte behind the options is read as if it were one.      *)
OptLen(o, p) ==
  LET n == IF p < Len(o) THEN o[p + 1] ELSE 0
  IN  IF n < 2 \/ n > 127 \/ p - 1 + n > Len(o) THEN 0 ELSE n

(* netpkt_ip_opt_next: the type at p, where its data are, and what follows.*)
netpkt_ip_opt_next(o, p) ==
  CASE p > Len(o)   -> [type |-> 0, at |-> 0, n |-> 0, next |-> p]
    [] o[p] = 0     -> [type |-> 0, at |-> 0, n |-> 0, next |-> Len(o) + 1]
    [] o[p] = 1     -> [type |-> 1, at |-> 0, n |-> 0, next |-> p + 1]
    [] OTHER        -> IF OptLen(o, p) = 0
                       THEN [type |-> 0, at |-> 0, n |-> 0, next |-> Len(o) + 1]
                       ELSE [type |-> o[p], at |-> p + 2, n |-> OptLen(o, p) - 2,
                             next |-> p + OptLen(o, p)]

(* The options a loop over netpkt_tcp_opt_enum sees.                       *)
Walk(o) ==
  LET walk[p \in 1..(Len(o) + 1)] ==
        LET t == netpkt_ip_opt_next(o, p)
        IN  IF t.type = 0 THEN <<>> ELSE <<t>> \o walk[t.next]
  IN  walk[1]

SACKOK == 4

(* netpkt_tcp_remove_sack overwrites the option with no-ops.               *)
WithoutSack(o) ==
  LET sack == {w \in {Walk(o)[i] : i \in DOMAIN Walk(o)} : w.type = SACKOK}
  IN  [i \in DOMAIN o |-> IF \E w \in sack : i \in (w.at - 2)..(w.next - 1) THEN 1 ELSE o[i]]

-----------------------------------------------------------------------------
Empty == Frame(TCP, 0, 0, 0, <<>>, <<>>, 0)

(* pktbuf_init.                                                            *)
Init ==
  /\ pkt = Empty
  /\ sums = "unset"

(* A frame from the network, with checksums of its sender, in a new buffer.*)
Receive ==
  /\ pkt = Empty
  /\ \/ \E body \in Bodies, p \in {TCP, UDP}, pad \in {0, 1} :
          pkt' = netpkt_cksum_set(Frame(p, 1, 2, 16, <<>>, body, pad))
     \/ \E opts \in [1..4 -> OptByte] :
          pkt' = netpkt_cksum_set(Frame(TCP, 1, 2, TH_SYN, opts, <<>>, 0))
  /\ sums' = "set"

(* In a new buffer.                                                        *)
netpkt_new_eth_tcp ==
  \E n \in 0..MaxBody :
    /\ pkt = Empty
    /\ pkt' = Frame(TCP, 0, 0, 0, <<>>, Zeros(n), 0)
    /\ sums' = "unset"

(* A reply to the sender of what was received, or a packet to nobody in a  *)
(* new buffer.                                                             *)
netpkt_new_udp ==
  \E body \in Bodies :
    \/ /\ pkt.p = UDP
       /\ pkt' = netpkt_cksum_set(Frame(UDP, pkt.dst, pkt.src, 16, <<>>, body, 0))
       /\ sums' = "set"
    \/ /\ pkt = Empty
       /\ pkt' = Frame(UDP, 0, 0, 16, <<>>, body, 0)
       /\ sums' = "unset"

(* The message is made longer or shorter; what comes in is in the buffer.  *)
netpkt_new_tcp_len ==
  \E n \in 0..MaxBody :
    /\ pkt.p = TCP /\ pkt.opts = <<>>
    /\ pkt' = [pkt EXCEPT !.len = BodyAt(pkt) - EthHdr + n, !.pad = 0,
                          !.body = [i \in 1..n |-> IF i <= Len(pkt.body) THEN pkt.body[i] ELSE 0]]
    /\ sums' = "unset"

netpkt_new_tcp_flags ==
  \E flags \in {0, 1, TH_SYN} :
    /\ pkt.p = TCP /\ pkt.opts = <<>>
    /\ pkt' = [pkt EXCEPT !.flags = flags]
    /\ sums' = "unset"

netpkt_tcp_remove_sack ==
  /\ pkt.p = TCP
  /\ pkt.flags = TH_SYN
  /\ pkt.opts # <<>>
  /\ pkt' = [pkt EXCEPT !.opts = WithoutSack(@)]
  /\ sums' = IF pkt'.opts = pkt.opts THEN sums ELSE "unset"

SetSums ==
  /\ pkt' = netpkt_cksum_set(pkt)
  /\ sums' = "set"

netpkt_adjust_ip_src_dst ==
  \E src, dst \in Byte :
    /\ pkt' = Rewritten(pkt, src, dst)
    /\ UNCHANGED sums

(* The network changes one byte of the frame.                              *)
Corrupt ==
  /\ sums = "set"
  /\ \/ \E i \in DOMAIN pkt.body : \E b \in Byte \ {pkt.body[i]} : pkt' = [pkt EXCEPT !.body[i] = b]
     \/ \E b \in Byte \ {pkt.src} : pkt' = [pkt EXCEPT !.src = b]
     \/ \E b \in Byte \ {pkt.flags} : pkt' = [pkt EXCEPT !.flags = b]
  /\ sums' = "changed"

Next ==
  \/ Receive
  \/ netpkt_new_eth_tcp
  \/ netpkt_new_udp
  \/ netpkt_new_tcp_len
  \/ netpkt_new_tcp_flags
  \/ netpkt_tcp_remove_sack
  \/ SetSums
  \/ netpkt_adjust_ip_src_dst
  \/ Corrupt

Spec == Init /\ [][Next]_vars

-----------------------------------------------------------------------------
(* Checksums that were set hold, also when the addresses are rewritten and *)
(* they are adjusted, and find every change of one byte, odd lengths and   *)
(* all-ones words too; parsing finds the message, all of it, and none of   *)
(* the padding of a short frame.  An adjusted UDP sum of zero is written   *)
(* as 65535, which netpkt_cksum_check does not know.                       *)
PacketIntact ==
  /\ sums = "set" => netpkt_cksum_check(IF pkt.p = UDP /\ pkt.check = 65535
                                        THEN [pkt EXCEPT !.check = 0] ELSE pkt)
  /\ sums = "changed" => ~netpkt_cksum_check(pkt)
  /\ netpkt_parse_ether(pkt) = [off |-> BodyAt(pkt), len |-> Len(pkt.body), opt_len |-> Len(pkt.opts)]

(* Whatever bytes the options are, the walk stays inside of them, takes as *)
(* many for an option as its second byte says, and in the end leaves them; *)
(* taking SACK out leaves the others as they were.                         *)
OptionsWalked ==
  LET w == Walk(pkt.opts)
      others(s) == SelectSeq(s, LAMBDA t : t.type \notin {1, SACKOK})
      after == Walk(WithoutSack(pkt.opts))
  IN  /\ \A i \in DOMAIN w : w[i].next \in 2..(Len(pkt.opts) + 1)
      /\ \A i \in DOMAIN w :
           w[i].type # 1 => /\ w[i].next = (w[i].at - 2) + pkt.opts[w[i].at - 1]
                            /\ w[i].at + w[i].n = w[i].next
      /\ \A i \in DOMAIN after : after[i].type # SACKOK
      /\ others(after) = others(w)
=============================================================================
