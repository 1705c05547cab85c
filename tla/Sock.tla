-------------------------------- MODULE Sock --------------------------------
(***************************************************************************)
(* sock.c and sock_unix.c: calls that go on until all of a buffer is       *)
(* moved, the other end is gone, or select times out.  Two ends of one     *)
(* connection: "a" sends, "b" receives.  A third program accepts with the  *)
(* same loop.  The n-th byte sent is the number n.  And the addresses.     *)
(***************************************************************************)
EXTENDS Integers, SequencesExt

CONSTANTS
  Cap,      (* bytes the kernel holds between the two                      *)
  MaxLen,   (* the largest buffer of a call                                *)
  MaxSent,  (* bound: bytes sent in all                                    *)
  AddrLen,  (* size of an address                                          *)
  MaxFd,    (* the last descriptor accept may return                       *)
  Part,     (* the numbers between the points of an address                *)
  Port,     (* ... and behind the colon                                    *)
  MaxByte, MaxPort

VARIABLES
  nonblock, (* of each end                                                 *)
  open,     (* of each end                                                 *)
  channel,  (* what the kernel holds                                       *)
  call,     (* of each end: where its call is                              *)
  total,    (* of each end: what its calls returned in all                 *)
  failed,   (* ends that a call returned -1 to                             *)
  data,     (* what was put in the receiver's buffer                       *)
  moved,    (* bytes the sender's end took                                 *)
  accepted  (* the accept loop: at, len that is left, descriptors it got   *)

(* The parts of an address are numbers, and a port is cut to its type.     *)
SockAssumption ==
  /\ Cap \in Nat /\ MaxLen \in Nat /\ MaxByte \in Nat /\ MaxPort \in Nat
  /\ Part \subseteq Nat /\ Port \subseteq Nat

vars == <<nonblock, open, channel, call, total, failed, data, moved, accepted>>

End == {"a", "b"}
Idle == [at |-> "idle", len |-> 0, done |-> 0]

Init ==
  /\ nonblock = [e \in End |-> FALSE]
  /\ open = [e \in End |-> TRUE]
  /\ channel = <<>>
  /\ call = [e \in End |-> Idle]
  /\ total = [e \in End |-> 0]
  /\ failed = {}
  /\ data = <<>>
  /\ moved = 0
  /\ accepted = [at |-> "idle", len |-> AddrLen, fds |-> {}, ret |-> 0]

sock_nonblock(e, on) ==
  /\ call[e].at = "idle"
  /\ nonblock' = [nonblock EXCEPT ![e] = on]
  /\ UNCHANGED <<open, channel, call, total, failed, data, moved, accepted>>

sock_close(e) ==
  /\ call[e].at = "idle" /\ open[e]
  /\ open' = [open EXCEPT ![e] = FALSE]
  /\ UNCHANGED <<nonblock, channel, call, total, failed, data, moved, accepted>>

-----------------------------------------------------------------------------
(* sock_send_timeout or sock_recv_timeout is called.                       *)
Begin(e, len) ==
  /\ call[e].at = "idle" /\ open[e] /\ e \notin failed
  /\ call' = [call EXCEPT ![e] = [at |-> "func", len |-> len, done |-> 0]]
  /\ UNCHANGED <<nonblock, open, channel, total, failed, data, moved, accepted>>

(* Mutant: what the last round moved.                                      *)
LastRound(c, n) == n

(* buf - orig.                                                             *)
Moved(c, n) == c.done + n

Return(e, n) ==
  /\ total' = [total EXCEPT ![e] = @ + n]
  /\ call' = [call EXCEPT ![e] = Idle]
  /\ UNCHANGED failed

Fail(e) ==
  /\ failed' = failed \cup {e}
  /\ call' = [call EXCEPT ![e] = Idle]
  /\ UNCHANGED total

(* func moved n bytes: the call ends when that was all.                    *)
Advance(e, n) ==
  IF call[e].len = n THEN Return(e, Moved(call[e], n))
  ELSE /\ call' = [call EXCEPT ![e].done = Moved(call[e], n), ![e].len = @ - n]
       /\ UNCHANGED <<total, failed>>

Select(e) ==
  /\ call' = [call EXCEPT ![e].at = "select"]
  /\ UNCHANGED <<total, failed>>

(* send: some of it, or EAGAIN, or an error when the other end is closed.  *)
sock_func_send ==
  LET Room == Cap - Len(channel)
  IN  /\ call["a"].at = "func"
      /\ \/ /\ open["b"] /\ Room > 0
            /\ \E n \in 1..MaxLen :
                 /\ n <= Room /\ n <= call["a"].len
                 /\ Advance("a", n)
                 /\ channel' = channel \o [i \in 1..n |-> moved + i]
                 /\ moved' = moved + n
         \/ /\ open["b"] /\ Room = 0 /\ nonblock["a"]
            /\ Select("a")
            /\ UNCHANGED <<channel, moved>>
         \/ /\ ~open["b"]
            /\ Fail("a")
            /\ UNCHANGED <<channel, moved>>
      /\ UNCHANGED <<nonblock, open, data, accepted>>

(* recv: what there is, EAGAIN, or 0 when the other end is closed, which   *)
(* ends the call with an error whatever it moved before.                   *)
sock_func_recv ==
  /\ call["b"].at = "func"
  /\ \/ /\ channel # <<>>
        /\ \E n \in 1..MaxLen :
             /\ n <= Len(channel) /\ n <= call["b"].len
             /\ Advance("b", n)
             /\ data' = data \o SubSeq(channel, 1, n)
             /\ channel' = SubSeq(channel, n + 1, Len(channel))
     \/ /\ channel = <<>> /\ open["a"] /\ nonblock["b"]
        /\ Select("b")
        /\ UNCHANGED <<data, channel>>
     \/ /\ channel = <<>> /\ ~open["a"]
        /\ Fail("b")
        /\ UNCHANGED <<data, channel>>
  /\ UNCHANGED <<nonblock, open, moved, accepted>>

Ready(e) == IF e = "a" THEN Len(channel) < Cap \/ ~open["b"] ELSE channel # <<>> \/ ~open["a"]

(* select: ready, or its time is over.  Each select has the whole time.    *)
select(e) ==
  /\ call[e].at = "select"
  /\ \/ /\ Ready(e)
        /\ call' = [call EXCEPT ![e].at = "func"]
        /\ UNCHANGED <<total, failed>>
     \/ /\ ~Ready(e)
        /\ Return(e, call[e].done)
  /\ UNCHANGED <<nonblock, open, channel, data, moved, accepted>>

-----------------------------------------------------------------------------
(* sock_accept_timeout: the descriptor is taken for a number of bytes.  It *)
(* ends the call when it is the size of what is left of the address, or    *)
(* greater; a smaller one, and accept is called again.                     *)
sock_func_accept(fd) ==
  LET left == accepted.len - fd
  IN  /\ accepted.at # "done"
      /\ fd \notin accepted.fds
      /\ accepted' = [at  |-> IF left > 0 THEN "func" ELSE "done",
                      len |-> left,
                      fds |-> accepted.fds \cup {fd},
                      ret |-> IF left >= 0 THEN AddrLen - left ELSE -1]
      /\ UNCHANGED <<nonblock, open, channel, call, total, failed, data, moved>>

Next ==
  \/ \E e \in End :
       \/ \E on \in BOOLEAN : sock_nonblock(e, on)
       \/ \E len \in 1..MaxLen : (e = "a" => moved + len <= MaxSent) /\ Begin(e, len)
       \/ sock_close(e) \/ select(e)
  \/ sock_func_send \/ sock_func_recv
  \/ \E fd \in 3..MaxFd : sock_func_accept(fd)

Spec == Init /\ [][Next]_vars

-----------------------------------------------------------------------------
(* sock.h: a call returns the length that was moved, less than asked for   *)
(* on timeout.  So what the calls returned adds up: the receiver has the   *)
(* first bytes in order, as many as its calls returned, and what is on the *)
(* way is the difference of the two ends, as long as no call failed.       *)
AddsUp ==
  /\ data = [i \in 1..Len(data) |-> i]
  /\ \A e \in End \ failed :
       total[e] + call[e].done = IF e = "a" THEN moved ELSE Len(data)
  /\ moved = Len(data) + Len(channel)

(* Its inductive strengthening: what is on the way goes on where the data  *)
(* ends, and an end without a call has moved nothing since the last.       *)
TypeOK ==
  /\ channel \in Seq(Nat) /\ data \in Seq(Nat) /\ moved \in Nat
  /\ call \in [End -> [at : {"idle", "func", "select"}, len : Nat, done : Nat]]
  /\ total \in [End -> Nat]
  /\ failed \subseteq End

IInv ==
  /\ TypeOK
  /\ AddsUp
  /\ channel = [i \in 1..Len(channel) |-> Len(data) + i]
  /\ \A e \in End : call[e].at = "idle" => call[e].done = 0

(* sock.h: -1 is for an error.  An accept loop that returns it accepted    *)
(* nothing.                                                                *)
ErrorAcceptedNone == accepted.ret = -1 => accepted.fds = {}

-----------------------------------------------------------------------------
(***************************************************************************)
(* IP addresses as text, as numbers in host order, and as they are in a    *)
(* sockaddr.  A number is the sequence of its four bytes, the highest      *)
(* first; on the host the lowest byte is the first in memory.  A text has  *)
(* parts, or no address, and a port; colon says whether both are there.    *)
(***************************************************************************)
TextOf(parts, colon, port) == [parts |-> parts, colon |-> colon, port |-> port]

Texts ==
  {TextOf(parts, parts # <<>>, port) :
     parts \in {<<>>} \cup [1..3 -> Part] \cup [1..4 -> Part], port \in Port}

NONE == [i \in 1..4 |-> MaxByte]
ANY == [i \in 1..4 |-> 0]

(* On this host the two byte orders are each other's reverse.              *)
htonl(number) == Reverse(number)
ntohl(number) == Reverse(number)

Bytes(parts) == Len(parts) = 4 /\ \A i \in 1..4 : parts[i] <= MaxByte

(* Of three parts, the last is two bytes; a number in network order.       *)
inet_addr(parts) ==
  IF Bytes(parts) THEN htonl(parts)
  ELSE IF Len(parts) = 3 /\ parts[1] <= MaxByte /\ parts[2] <= MaxByte
       THEN htonl(<<parts[1], parts[2], parts[3] \div (MaxByte + 1), parts[3] % (MaxByte + 1)>>)
       ELSE NONE

(* What is in a sockaddr, byte after byte in memory, and its text.         *)
inet_ntoa(number) == Reverse(number)

-----------------------------------------------------------------------------
(* Nobody resolves the text of a wrong address.                            *)
inet_resolve(parts) == ntohl(inet_addr(parts))

(* Mutant: the address is put into the sockaddr in host order.             *)
PackHost(ip, port) == [sin_addr |-> ip, sin_port |-> port % (MaxPort + 1)]

(* The port is cut to its type.                                            *)
iaddr_pack(ip, port) == [sin_addr |-> htonl(ip), sin_port |-> port % (MaxPort + 1)]

(* Without a colon the text is the port; <<>> when it cannot be parsed.    *)
iaddr_parse(t) ==
  LET ip == IF t.colon THEN inet_resolve(t.parts) ELSE ANY
  IN  IF ip = NONE THEN <<>> ELSE <<iaddr_pack(ip, t.port)>>

iaddr_fmt(addr) == TextOf(inet_ntoa(addr.sin_addr), TRUE, addr.sin_port)

iaddr_ntoa(number) == inet_ntoa(number)

(* Four numbers, each a byte, in host order; 0 when it cannot be read.     *)
iaddr_aton(parts) == IF Bytes(parts) THEN parts ELSE ANY

-----------------------------------------------------------------------------
(* An address that is parsed is written as it was, and the two ways to     *)
(* read one agree: a number from iaddr_aton must be turned to network      *)
(* order before iaddr_ntoa writes it.  255.255.255.255 cannot be parsed.   *)
AddressKept ==
  \A text \in Texts : Bytes(text.parts) =>
    /\ (text.parts # NONE /\ text.port <= MaxPort) =>
         iaddr_parse(text) # <<>> /\ iaddr_fmt(iaddr_parse(text)[1]) = text
    /\ iaddr_ntoa(htonl(iaddr_aton(text.parts))) = text.parts
    /\ text.parts # NONE => inet_resolve(text.parts) = iaddr_aton(text.parts)
=============================================================================
