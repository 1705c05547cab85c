----------------------------- MODULE MCNetwork -----------------------------
(***************************************************************************)
(* The parts that speak to the network and to the kernel about it.  They   *)
(* share no state, so a behaviour is one of them, the others stay as they  *)
(* are: DnsProxy, which this module extends, or one of the instances,      *)
(* whose variables are v1 and on.                                          *)
(***************************************************************************)
EXTENDS DnsProxy

CONSTANTS
  Cap, MaxLen, MaxSent, AddrLen, MaxFd, Part, Port, MaxByte, MaxPort,   (* Sock *)
  Proc, MaxLines, MaxSets                                              (* Ifcfg *)

VARIABLES which, v1, v2, v3, v4, v5, v6, v7, v8, v9

-----------------------------------------------------------------------------
(* The variables from one on that a part has no use for.                   *)
v6on == <<v6, v7, v8, v9>>
v5on == <<v5, v6on>>
v2on == <<v2, v3, v4, v5on>>
v1on == <<v1, v2on>>
Off6 == v6 = 0 /\ v7 = 0 /\ v8 = 0 /\ v9 = 0
Off5 == v5 = 0 /\ Off6
Off2 == v2 = 0 /\ v3 = 0 /\ v4 = 0 /\ Off5
Off1 == v1 = 0 /\ Off2

allVars == <<which, v1on, vars>>

-----------------------------------------------------------------------------
(* Names that end alike, one in another's label, and one so long that its  *)
(* last label begins at an offset above 127.                               *)
TheNames == {<<"a">>, <<"b", "a">>, <<"c", "b", "a">>, <<"b", "c">>}
TheLabelLen == [l \in {"a", "b", "c"} |-> CASE l = "a" -> 3 [] l = "b" -> 52 [] l = "c" -> 63]

M == INSTANCE Dns WITH
       Names <- TheNames, LabelLen <- TheLabelLen, Aliases <- {<<"b", "a">>}, MaxRRs <- 3,
       buf <- v1, dns <- v2, wire <- v3, packed <- v4, ret <- v5
S == INSTANCE Sock WITH
       nonblock <- v1, open <- v2, channel <- v3, call <- v4, total <- v5,
       failed <- v6, data <- v7, moved <- v8, accepted <- v9
I == INSTANCE Ifcfg WITH iface <- v1, set <- v2, resolv <- v3, dns <- v4

ASSUME NetworkAssumption ==
  /\ S!SockAssumption
  /\ I!IfcfgAssumption

-----------------------------------------------------------------------------
PartInit ==
  \/ which = "proxy" /\ Off1
  \/ which = "dns" /\ M!Init /\ Off6
  \/ which = "sock" /\ S!Init
  \/ which = "ifcfg" /\ I!Init /\ Off5
  \/ which = "address" /\ Off1

AllInit == Init /\ PartInit

ProxyStep == which = "proxy" /\ Next /\ UNCHANGED <<which, v1on>>
DnsStep == which = "dns" /\ M!Next /\ UNCHANGED <<which, v6on, vars>>
SockStep == which = "sock" /\ S!Next /\ UNCHANGED <<which, vars>>
IfcfgStep == which = "ifcfg" /\ I!Next /\ UNCHANGED <<which, v5on, vars>>

AllNext == ProxyStep \/ DnsStep \/ SockStep \/ IfcfgStep

AllSpec == AllInit /\ [][AllNext]_allVars

(* The proxy is as fair as its module says.                                *)
ClockStep == which = "proxy" /\ Tick /\ UNCHANGED <<which, v1on>>
PollStep == which = "proxy" /\ dns_proxy_poll /\ UNCHANGED <<which, v1on>>

AllFairSpec == AllSpec /\ WF_allVars(ClockStep) /\ WF_allVars(PollStep)

-----------------------------------------------------------------------------
(* Messages are read as they were packed, up to the first CNAME and while  *)
(* pointers stay where they can be followed: see Dns.                      *)
NamesRead == which = "dns" => M!ReadsBack /\ M!BestGuess

(* The calls of a socket return what was moved; an interface has what was  *)
(* set or is up; and an address is the same in text, in a number and in a  *)
(* sockaddr: see Sock and Ifcfg.                                           *)
SocketsKept ==
  /\ which = "sock" => S!AddsUp
  /\ which = "ifcfg" => I!SetOrUp
  /\ which = "address" => S!AddressKept
=============================================================================
