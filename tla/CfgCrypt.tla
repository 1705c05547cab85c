------------------------------ MODULE CfgCrypt ------------------------------
(***************************************************************************)
(* cfg_crypt.c: load the program's certificate from its configuration,     *)
(* renew it when it is over, make one when there is none for the host, and *)
(* save what changed.  Several programs share the file.                    *)
(***************************************************************************)
EXTENDS Integers

CONSTANTS
  Proc,      (* programs                                                   *)
  Host,      (* host names                                                 *)
  expire,    (* how long a certificate lasts                               *)
  MaxNow,    (* bound: the clock                                           *)
  MaxKeys    (* bound: keys that are generated                             *)

VARIABLES
  now,
  stored,    (* what the file holds: <<>>, <<certificate>>, or Broken       *)
  call,      (* per program: where it is, hostname, crypt; whether another *)
             (* program was in the call meanwhile                          *)
  keys,      (* keys generated so far                                      *)
  (* kept of the calls that returned                                       *)
  last,      (* the last certificate returned                              *)
  quiet      (* nothing failed and no calls overlapped since               *)

vars == <<now, stored, call, keys, last, quiet>>

(* Part of a file, or what is no certificate: cryptbk_pack fails.           *)
Broken == <<[cn |-> "", key |-> 0, serial |-> 0, notafter |-> 0]>>

Idle == [at |-> "idle", hostname |-> "", crypt |-> <<>>, overlapped |-> FALSE]

Init ==
  /\ now = 1
  /\ stored = <<>>
  /\ call = [p \in Proc |-> Idle]
  /\ keys = 0
  /\ last = <<>>
  /\ quiet = TRUE

Others(p) == {q \in Proc \ {p} : call[q].at # "idle"}

(* cfg_get reads half of a file that another program is writing.           *)
cfg_get(p) ==
  /\ call[p].at = "idle"
  /\ \E host \in Host \cup {""} :
       \E read \in {stored} \cup {Broken : q \in {o \in Others(p) : call[o].at = "save"}} :
         call' = [q \in Proc |->
           IF q = p
           THEN [at |-> "check", hostname |-> host, crypt |-> read, overlapped |-> Others(p) # {}]
           ELSE [call[q] EXCEPT !.overlapped = @ \/ call[q].at # "idle"]]
  /\ UNCHANGED <<now, stored, keys, last, quiet>>

(* The end of a call: c is <<>> for the null pointer.                      *)
Return(p, c, failed) ==
  /\ call' = [call EXCEPT ![p] = Idle]
  /\ last' = IF c = <<>> THEN last ELSE c
  /\ quiet' = IF failed \/ call[p].overlapped THEN FALSE ELSE quiet \/ c # <<>>

Loaded(p) == call[p].crypt \notin {<<>>, Broken}
Cert(p) == call[p].crypt[1]

(* The certificate is for the host, or no host was given.                  *)
Accepted(p) == Loaded(p) /\ call[p].hostname \in {"", Cert(p).cn}
Expired(p) == Cert(p).notafter < now

LoadedStays(p) ==
  /\ call[p].at = "check"
  /\ Accepted(p)
  /\ ~Expired(p)
  /\ Return(p, call[p].crypt, FALSE)
  /\ UNCHANGED <<now, stored, keys>>

(* Mutant: what changed is not saved.                                      *)
SaveNot(p, c) ==
  /\ Return(p, <<c>>, FALSE)
  /\ UNCHANGED stored

(* crypt_changed: cfg_put comes next.                                      *)
Save(p, c) ==
  /\ call' = [call EXCEPT ![p].at = "save", ![p].crypt = <<c>>]
  /\ UNCHANGED <<stored, last, quiet>>

(* info.serial++ is the serial that the certificate had.                   *)
Renew(p) ==
  /\ call[p].at = "check"
  /\ Accepted(p)
  /\ Expired(p)
  /\ Save(p, [Cert(p) EXCEPT !.notafter = now + expire])
  /\ UNCHANGED <<now, keys>>

(* A call fails on the way: the certificate is dropped, and another made   *)
(* for the host, whose name may be copied from it by then.                 *)
LoadFails(p) ==
  /\ call[p].at = "check"
  /\ Loaded(p)
  /\ \E host \in {call[p].hostname, IF Accepted(p) THEN Cert(p).cn ELSE call[p].hostname} :
       call' = [call EXCEPT ![p].hostname = host, ![p].crypt = <<>>]
  /\ quiet' = FALSE
  /\ UNCHANGED <<now, stored, keys, last>>

(* cryptbk_selfsign: a new key, and a certificate with serial 1.           *)
Generate(p) ==
  /\ call[p].at = "check"
  /\ ~Accepted(p)
  /\ call[p].hostname # ""
  /\ keys < MaxKeys
  /\ keys' = keys + 1
  /\ Save(p, [cn |-> call[p].hostname, key |-> keys', serial |-> 1, notafter |-> now + expire])
  /\ UNCHANGED now

(* There is none to load and no host to make one for, or that fails.       *)
ReturnNone(p) ==
  /\ call[p].at = "check"
  /\ ~Accepted(p)
  /\ Return(p, <<>>, call[p].hostname # "")
  /\ UNCHANGED <<now, stored, keys>>

(* cfg_put fails before or after it has emptied the file: the certificate  *)
(* is deleted.                                                             *)
cfg_put(p) ==
  /\ call[p].at = "save"
  /\ \/ stored' = call[p].crypt /\ Return(p, call[p].crypt, FALSE)
     \/ stored' \in {stored, Broken} /\ Return(p, <<>>, TRUE)
  /\ UNCHANGED <<now, keys>>

Tick ==
  /\ now < MaxNow
  /\ now' = now + 1
  /\ UNCHANGED <<stored, call, keys, last, quiet>>

cfg_load_crypt(p) ==
  \/ cfg_get(p)
  \/ LoadedStays(p)
  \/ Renew(p)
  \/ LoadFails(p)
  \/ Generate(p)
  \/ ReturnNone(p)
  \/ cfg_put(p)

Next == Tick \/ \E p \in Proc : cfg_load_crypt(p)

Spec == Init /\ [][Next]_vars

-----------------------------------------------------------------------------
(* While nothing fails and no two calls overlap, the certificate a program *)
(* was given is the one the next program finds.                            *)
StoredAsReturned == (quiet /\ last # <<>>) => stored = last

-----------------------------------------------------------------------------
Shapes ==
  /\ call = [p \in Proc |-> call[p]]
  /\ \A p \in Proc :
       /\ call[p] = [at |-> call[p].at, hostname |-> call[p].hostname,
                     crypt |-> call[p].crypt, overlapped |-> call[p].overlapped]
       /\ call[p].overlapped \in BOOLEAN

(* A call that overlaps none is the only one, and what it has loaded is    *)
(* what the file holds.  None saves the null pointer.                      *)
AloneInv ==
  /\ \A p \in Proc : call[p].at = "save" => call[p].crypt # <<>>
  /\ \A p \in Proc : call[p].at # "idle" /\ ~call[p].overlapped =>
       /\ \A q \in Proc : call[q].at # "idle" => q = p
       /\ call[p].at = "check" => call[p].crypt \in {<<>>, stored}

IInv == Shapes /\ AloneInv /\ StoredAsReturned
=============================================================================
