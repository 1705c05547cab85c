------------------------------- MODULE NsTool -------------------------------
(***************************************************************************)
(* ns.c: the command that keeps namespaces in files of /var/run/ns/<name>. *)
(* A command is a run of system calls; it may be killed between any two,   *)
(* and others may run at the same time.  One name is modelled.             *)
(***************************************************************************)
EXTENDS Integers, Sequences

CONSTANTS
  Proc,        (* processes that run the command                           *)
  Ns           (* ns_avail: a sequence of names with "mnt" at the end      *)

VARIABLES
  dir,       (* the directory exists                                       *)
  mounts,    (* how often it is mounted over itself                        *)
  files,     (* of each namespace: "none", "file", or "bound" to it        *)
  proc,      (* the commands: what, for which namespaces, where they are   *)
  raced      (* two commands ran at once since the directory was made      *)

NsAssumption == Ns \in Seq(STRING) \ {<<>>}

vars == <<dir, mounts, files, proc, raced>>

All == {Ns[i] : i \in DOMAIN Ns}
Idle == [do |-> "none", used |-> {}, pc |-> "idle", i |-> 1]

Init ==
  /\ dir = FALSE
  /\ mounts = 0
  /\ files = [n \in All |-> "none"]
  /\ proc = [p \in Proc |-> Idle]
  /\ raced = FALSE

(* get_ns_used: all of them when none was named.                           *)
get_ns_used(c, i) == c.used = {} \/ Ns[i] \in c.used

Running == {p \in Proc : proc[p].pc \notin {"idle", "died"}}

At(p, pc) == proc[p].pc = pc
Goto(p, pc) == proc' = [proc EXCEPT ![p].pc = pc]
die(p) == Goto(p, "died")

(* The arguments are read, and whether the directory exists.               *)
Start(p, do, used) ==
  /\ proc[p].pc \in {"idle", "died"}
  /\ proc' = [proc EXCEPT ![p] =
                [do |-> do, used |-> used, i |-> 1,
                 pc |-> CASE do = "add" -> "mkpath"
                          [] do = "delete" /\ dir -> "unlink"
                          [] do = "exec" /\ dir   -> "setns"
                          [] OTHER                -> "idle"]]
  /\ raced' = (raced \/ Running # {})
  /\ UNCHANGED <<dir, mounts, files>>

(* The process is killed.                                                  *)
Killed(p) ==
  /\ p \in Running
  /\ Goto(p, "idle")
  /\ UNCHANGED <<dir, mounts, files, raced>>

(* The loop over the selected namespaces, and what comes after it.         *)
Step(p, after) ==
  proc' = [proc EXCEPT ![p].i = @ + 1, ![p].pc = IF proc[p].i = Len(Ns) THEN after ELSE @]

Skip(p, pc, after) ==
  /\ At(p, pc)
  /\ ~get_ns_used(proc[p], proc[p].i)
  /\ Step(p, after)
  /\ UNCHANGED <<dir, mounts, files, raced>>

Here(p, pc) == At(p, pc) /\ get_ns_used(proc[p], proc[p].i)

-----------------------------------------------------------------------------
mkpath(p) ==
  /\ At(p, "mkpath")
  /\ dir' = TRUE
  /\ Goto(p, "share")
  /\ raced' = (IF dir THEN raced ELSE \E q \in Proc \ {p} : proc[q].pc # "idle")
  /\ UNCHANGED <<mounts, files>>

(* The directory is made shared, or first mounted over itself.             *)
Share(p, pc, otherwise) ==
  /\ At(p, pc)
  /\ IF mounts > 0 /\ dir THEN Goto(p, "open")
     ELSE IF dir THEN Goto(p, otherwise) ELSE die(p)
  /\ UNCHANGED <<dir, mounts, files, raced>>

MountOverItself(p) ==
  /\ At(p, "bind")
  /\ IF dir THEN mounts' = mounts + 1 /\ Goto(p, "reshare")
     ELSE die(p) /\ UNCHANGED mounts
  /\ UNCHANGED <<dir, files, raced>>

(* open with O_CREAT and O_EXCL.                                           *)
Create(p) ==
  LET n == Ns[proc[p].i]
  IN  /\ Here(p, "open")
      /\ IF dir /\ files[n] = "none"
         THEN files' = [files EXCEPT ![n] = "file"] /\ Goto(p, "mount")
         ELSE die(p) /\ UNCHANGED files
      /\ UNCHANGED <<dir, mounts, raced>>

(* unshare and a bind mount, which cannot be made for "mnt": the file is   *)
(* removed again.  Any other may fail.                                     *)
BindFile(p) ==
  LET n == Ns[proc[p].i]
  IN  /\ At(p, "mount")
      /\ \/ /\ files[n] # "none"
            /\ files' = [files EXCEPT ![n] = IF n = "mnt" THEN "none" ELSE "bound"]
            /\ proc' = [proc EXCEPT ![p].i = @ + 1,
                                    ![p].pc = IF proc[p].i = Len(Ns) THEN "idle" ELSE "open"]
         \/ /\ n # "mnt" \/ files[n] = "none"
            /\ die(p)
            /\ UNCHANGED files
      /\ UNCHANGED <<dir, mounts, raced>>

-----------------------------------------------------------------------------
(* Namespaces that have no file are left out.                              *)
setns(p) ==
  /\ Here(p, "setns")
  /\ Step(p, "idle")
  /\ UNCHANGED <<dir, mounts, files, raced>>

-----------------------------------------------------------------------------
(* Mutant: a file that is not there is an error.                           *)
UnlinkFound(n) == files[n] # "none"

(* ENOENT is no error.                                                     *)
UnlinkOk(n) == TRUE

(* umount, whatever it returns, and unlink.                                *)
Remove(p) ==
  LET n == Ns[proc[p].i]
  IN  /\ Here(p, "unlink")
      /\ files' = [files EXCEPT ![n] = "none"]
      /\ IF UnlinkOk(n) THEN Step(p, "umount") ELSE die(p)
      /\ UNCHANGED <<dir, mounts, raced>>

UmountDir(p) ==
  /\ At(p, "umount")
  /\ mounts' = IF mounts > 0 /\ "bound" \notin {files[n] : n \in All} THEN mounts - 1 ELSE mounts
  /\ Goto(p, "rmdir")
  /\ UNCHANGED <<dir, files, raced>>

rmdir(p) ==
  /\ At(p, "rmdir")
  /\ IF dir /\ mounts = 0 /\ \A n \in All : files[n] = "none"
     THEN dir' = FALSE /\ Goto(p, "idle")
     ELSE die(p) /\ UNCHANGED dir
  /\ UNCHANGED <<mounts, files, raced>>

Next ==
  \E p \in Proc :
    \/ \E do \in {"add", "delete", "exec"}, used \in {{}, {Ns[1]}, {"mnt"}} : Start(p, do, used)
    \/ Killed(p)
    \/ Skip(p, "open", "idle") \/ Skip(p, "setns", "idle") \/ Skip(p, "unlink", "umount")
    \/ mkpath(p) \/ Share(p, "share", "bind") \/ MountOverItself(p) \/ Share(p, "reshare", "died")
    \/ Create(p) \/ BindFile(p)
    \/ setns(p)
    \/ Remove(p) \/ UmountDir(p) \/ rmdir(p)

Spec == Init /\ [][Next]_vars

-----------------------------------------------------------------------------
(* However an add or a delete ended before, at any of its calls, a delete  *)
(* of all namespaces works, unless two commands were run at once: those    *)
(* can mount the directory over itself twice.                              *)
Deletable ==
  \A p \in Proc : At(p, "died") /\ proc[p].do = "delete" /\ proc[p].used = {} => raced

(* Its inductive strengthening: a command that runs alone finds what it    *)
(* left, and the directory is mounted once at most.                        *)
Adds == {"mkpath", "share", "bind", "reshare", "open", "mount"}
Deletes == {"unlink", "umount", "rmdir"}

TypeOK ==
  /\ dir \in BOOLEAN /\ raced \in BOOLEAN /\ mounts \in Nat
  /\ files \in [All -> {"none", "file", "bound"}]
  /\ proc \in [Proc -> [do : {"none", "add", "delete", "exec"}, used : SUBSET (All \cup {"mnt"}),
                        pc : Adds \cup Deletes \cup {"idle", "died", "setns"},
                        i  : 1..(Len(Ns) + 1)]]

Alone(p) ==
  /\ \A q \in Running : q = p
  /\ At(p, "bind") => mounts = 0
  /\ proc[p].pc \in Deletes => dir
  /\ proc[p].used = {} =>
       /\ At(p, "unlink") => \A j \in 1..(proc[p].i - 1) : files[Ns[j]] = "none"
       /\ proc[p].pc \in {"umount", "rmdir"} => \A n \in All : files[n] = "none"
       /\ At(p, "rmdir") => mounts = 0

IInv ==
  /\ TypeOK
  /\ Deletable
  /\ ~dir => mounts = 0
  /\ \A p \in Proc :
       /\ proc[p].pc \in Adds => proc[p].do = "add"
       /\ proc[p].pc \in Deletes => proc[p].do = "delete"
       /\ proc[p].pc \in Adds \cup {"unlink", "setns"} => proc[p].i <= Len(Ns)
  /\ ~raced => mounts <= 1 /\ \A p \in Running : Alone(p)
=============================================================================
