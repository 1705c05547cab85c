------------------------------- MODULE Ifcfg -------------------------------
(***************************************************************************)
(* ifcfg_unix.c: programs that set up a network interface, one ioctl after *)
(* another, each of which may fail; and ifcfg_get_dns_addrs of ifcfg.c.    *)
(***************************************************************************)
EXTENDS Integers, SequencesExt

CONSTANTS
  Proc,       (* programs that call ifcfg_set; each sets values of its own *)
  MaxLines,   (* bound: the lines of resolv.conf                           *)
  MaxSets     (* bound: how often a program calls ifcfg_set                *)

VARIABLES
  iface,    (* the kernel's interface; up is 1                             *)
  set,      (* per program: cfg->fields, the next step, flags, err, and    *)
            (* whether it was alone, found the interface up, set the flags *)
            (* again                                                       *)
  resolv,   (* the lines of resolv.conf                                    *)
  dns       (* what the array of the caller holds in the end, and err      *)

(* A value that is 0 was never set.                                        *)
IfcfgAssumption == Proc \subseteq Nat \ {0}

vars == <<iface, set, resolv, dns>>

Values == {"ipaddr", "netmask", "broadcast", "mtu"}
Fields == {"IPADDR", "BROADCAST", "MTU"}

(* A nameserver with an address as the file has it, one that is none, or   *)
(* another line.                                                           *)
Lines == {"nameserver", "bad", "other"}

Init ==
  /\ iface = [v \in Values \cup {"up"} |-> IF v = "up" THEN 1 ELSE 0]
  /\ set = [p \in Proc |-> [fields |-> {}, step |-> 0, flags |-> FALSE, err |-> -1,
                            alone |-> FALSE, wasUp |-> FALSE, again |-> FALSE, calls |-> 0]]
  /\ resolv \in BoundedSeq(Lines, MaxLines)
  /\ dns = [addrs |-> <<>>, err |-> 1]

-----------------------------------------------------------------------------
(* The calls that ifcfg_set makes for the fields.  The netmask goes with   *)
(* the address.                                                            *)
Ioctls(fields) ==
  <<"save", "down">>
    \o (IF "IPADDR" \in fields THEN <<"ipaddr", "netmask">> ELSE <<>>)
    \o (IF "BROADCAST" \in fields THEN <<"broadcast">> ELSE <<>>)
    \o (IF "MTU" \in fields THEN <<"mtu">> ELSE <<>>)

Todo(p) == Ioctls(set[p].fields)
Busy(p) == set[p].step # 0

(* Program p goes on; the others are no longer alone.                      *)
Becomes(p, s) ==
  /\ set' = [q \in Proc |-> IF q = p THEN s
                            ELSE [set[q] EXCEPT !.alone = FALSE]]
  /\ UNCHANGED <<resolv, dns>>

Begin(p) ==
  /\ ~Busy(p)
  /\ set[p].calls < MaxSets
  /\ \E fields \in SUBSET Fields :
       Becomes(p, [fields |-> fields, step |-> 1, flags |-> FALSE, err |-> -1,
                   alone |-> \A q \in Proc \ {p} : ~Busy(q), wasUp |-> iface.up = 1,
                   again |-> FALSE, calls |-> set[p].calls + 1])
  /\ UNCHANGED iface

(* Mutant: the flags that were saved are set again.                        *)
FlagsAsSaved(s) == s.flags

(* An interface that gets an address is to be up, any other down.          *)
FlagsAfterDown(s) == "IPADDR" \in s.fields

Ioctl(p) ==
  LET s    == set[p]
      call == Todo(p)[s.step]
      next == [s EXCEPT !.step = @ + 1, !.err = IF s.step = Len(Todo(p)) THEN 0 ELSE -1]
  IN  /\ s.step \in DOMAIN Todo(p)
      /\ \/ /\ call = "save"
            /\ Becomes(p, [next EXCEPT !.flags = iface.up = 1])
            /\ UNCHANGED iface
         \/ /\ call = "down"
            /\ Becomes(p, [next EXCEPT !.flags = FlagsAfterDown(s)])
            /\ iface' = [iface EXCEPT !.up = 0]
         \/ /\ call \in Values
            /\ Becomes(p, next)
            /\ iface' = [iface EXCEPT ![call] = p]

(* A call that fails leads to the end; there are no flags to set when they *)
(* could not be read.                                                      *)
IoctlFails(p) ==
  LET s == set[p]
  IN  /\ s.step \in DOMAIN Todo(p)
      /\ Becomes(p, [s EXCEPT !.step = IF @ = 1 THEN 0 ELSE Len(Todo(p)) + 1])
      /\ UNCHANGED iface

(* The flags are set in any case.                                          *)
Restore(p) ==
  /\ set[p].step = Len(Todo(p)) + 1
  /\ Becomes(p, [set[p] EXCEPT !.step = 0, !.again = TRUE])
  /\ iface' = [iface EXCEPT !.up = IF set[p].flags THEN 1 ELSE 0]

(* That this fails is not told: err stays as it is.                        *)
RestoreFails(p) ==
  /\ set[p].step = Len(Todo(p)) + 1
  /\ Becomes(p, [set[p] EXCEPT !.step = 0])
  /\ UNCHANGED iface

ifcfg_set(p) ==
  \/ Begin(p)
  \/ Ioctl(p)
  \/ IoctlFails(p)
  \/ Restore(p)
  \/ RestoreFails(p)

(* ifcfg_get: a value that was never set is left out.                      *)
ifcfg_get == [v \in {w \in Values : iface[w] # 0} |-> iface[v]]

-----------------------------------------------------------------------------
(* The addresses before the first line that cannot be read.  On unix no    *)
(* interface has any.  inet_addr gives the bytes in the network's order.   *)
Good == SelectInSeq(resolv, LAMBDA line : line = "bad")

AddrsOf(lines) ==
  LET named == SelectSeq(lines, LAMBDA line : line = "nameserver")
  IN  [i \in DOMAIN named |-> "network order"]

ifcfg_get_dns_addrs ==
  /\ dns.err = 1
  /\ dns' = IF Good = 0
            THEN [addrs |-> AddrsOf(resolv), err |-> 0]
            ELSE [addrs |-> AddrsOf(SubSeq(resolv, 1, Good - 1)), err |-> -1]
  /\ UNCHANGED <<iface, set, resolv>>

Next == (\E p \in Proc : ifcfg_set(p)) \/ ifcfg_get_dns_addrs

Spec == Init /\ [][Next]_vars

-----------------------------------------------------------------------------
Wanted(fields) ==
  (IF "IPADDR" \in fields THEN {"ipaddr", "netmask"} ELSE {})
    \cup (IF "BROADCAST" \in fields THEN {"broadcast"} ELSE {})
    \cup (IF "MTU" \in fields THEN {"mtu"} ELSE {})

(* After a call of ifcfg_set that succeeded, with no other meanwhile,      *)
(* ifcfg_get finds what was set, and the interface is up if it got an      *)
(* address; whichever call failed, one that was up and was to get one is   *)
(* not left down, if setting the flags again worked.                       *)
SetOrUp ==
  \A p \in Proc :
    ~Busy(p) /\ set[p].alone /\ set[p].again =>
      /\ "IPADDR" \in set[p].fields /\ set[p].wasUp => iface.up = 1
      /\ set[p].err = 0 =>
           /\ \A v \in Wanted(set[p].fields) : v \in DOMAIN ifcfg_get /\ ifcfg_get[v] = p
           /\ iface.up = 1 <=> "IPADDR" \in set[p].fields

(* Its inductive strengthening.  As long as a program is alone, the        *)
(* interface is as its calls left it; the flags it will set again are      *)
(* those it found until the interface is down, and the new ones then.      *)
TypeOK ==
  /\ iface \in [Values \cup {"up"} -> Nat] /\ iface.up \in {0, 1}
  /\ set \in [Proc -> [fields : SUBSET Fields, step : Nat, flags : BOOLEAN, err : {0, -1},
                       alone : BOOLEAN, wasUp : BOOLEAN, again : BOOLEAN, calls : Nat]]

(* All calls before the step were made.                                    *)
AllMade(p) == set[p].step > 2 /\ (set[p].step <= Len(Todo(p)) \/ set[p].err = 0)

UnderWay(p) ==
  /\ ~set[p].again /\ set[p].step <= Len(Todo(p)) + 1
  /\ set[p].err = 0 => set[p].step = Len(Todo(p)) + 1
  /\ set[p].step <= 2 => (set[p].wasUp <=> iface.up = 1)
  /\ set[p].step >= 2 => set[p].flags \in {set[p].wasUp, "IPADDR" \in set[p].fields}
  /\ AllMade(p) =>
       /\ set[p].flags = ("IPADDR" \in set[p].fields)
       /\ \A i \in 3..(set[p].step - 1) : iface[Todo(p)[i]] = p

IInv ==
  /\ TypeOK
  /\ SetOrUp
  /\ \A p \in Proc : Busy(p) /\ set[p].alone => UnderWay(p)

(* The addresses of the nameservers are in the host's order.               *)
HostOrder == \A i \in DOMAIN dns.addrs : dns.addrs[i] = "host order"
=============================================================================
