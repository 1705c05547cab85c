-------------------------------- MODULE Proc --------------------------------
(***************************************************************************)
(* proc_unix.c: children with socket pairs for their input and output, and *)
(* the two ways to collect one that has exited: proc_wait, and a handler   *)
(* for SIGCHLD.  Process 0 is the program.  A child never starts another.  *)
(***************************************************************************)
EXTENDS Naturals

CONSTANT Child   (* by their numbers, 0 being none of them                 *)

VARIABLES
  state,    (* by child: none, running, zombie or gone                     *)
  holds,    (* by process: the ends of socket pairs that it has open       *)
  reaper,   (* whether proc_init_reap was called                           *)
  sigchld,  (* a SIGCHLD is pending; several are one                       *)
  status,   (* by child: who got its exit status                           *)
  callers   (* the processes in which proc_start_stdpipe returned          *)

vars == <<state, holds, reaper, sigchld, status, callers>>

Pipe == {"stdin", "stdout"}

(* The ends of a child's pairs: 0 is the program's, 1 the child's.         *)
Ends(c, pipes, sides) == {c} \X pipes \X sides

Init ==
  /\ state = [c \in Child |-> "none"]
  /\ holds = [p \in {0} \cup Child |-> {}]
  /\ reaper = FALSE
  /\ sigchld = FALSE
  /\ status = [c \in Child |-> "none"]
  /\ callers = {0}

(* signal(SIGCHLD, ...).                                                   *)
proc_init_reap ==
  /\ reaper' = TRUE
  /\ UNCHANGED <<state, holds, sigchld, status, callers>>

-----------------------------------------------------------------------------
(* A call that fails before there is a child leaves the pairs it has made  *)
(* open: the failing pair is none of them.                                 *)
StartFails ==
  \E c \in Child, made \in SUBSET Pipe :
    /\ state[c] = "none"
    /\ state' = [state EXCEPT ![c] = "gone"]
    /\ holds' = [holds EXCEPT ![0] = @ \cup Ends(c, made, {0, 1})]
    /\ UNCHANGED <<reaper, sigchld, status, callers>>

(* Mutant: the child leaves the program's ends open.                       *)
InheritedAll(c, pipes) == holds[0] \cup Ends(c, pipes, {0, 1})

(* What the child has after fork and its own closes: everything the        *)
(* program had, and its ends as descriptors 0 and 1.                       *)
Inherited(c, pipes) == holds[0] \cup Ends(c, pipes, {1})

(* fork and execvp.  When execvp fails, the macro after it leaves the loop *)
(* before exit: the child returns to the caller, too.                      *)
proc_start_stdpipe ==
  \E c \in Child, pipes \in SUBSET Pipe, exec \in BOOLEAN :
    /\ state[c] = "none"
    /\ state' = [state EXCEPT ![c] = "running"]
    /\ holds' = [holds EXCEPT ![0] = @ \cup Ends(c, pipes, {0}), ![c] = Inherited(c, pipes)]
    /\ callers' = IF exec THEN callers ELSE callers \cup {c}
    /\ UNCHANGED <<reaper, sigchld, status>>

proc_stdpipe_close ==
  /\ \E e \in holds[0] : holds' = [holds EXCEPT ![0] = @ \ {e}]
  /\ UNCHANGED <<state, reaper, sigchld, status, callers>>

(* A child exits, on its own or after proc_kill.                           *)
Exit ==
  \E c \in Child :
    /\ state[c] = "running"
    /\ state' = [state EXCEPT ![c] = "zombie"]
    /\ holds' = [holds EXCEPT ![c] = {}]
    /\ sigchld' = (sigchld \/ reaper)
    /\ UNCHANGED <<reaper, status, callers>>

(* proc_wait blocks until the child has exited, whatever its timeout.      *)
proc_wait ==
  \E c \in Child :
    /\ state[c] = "zombie"
    /\ state' = [state EXCEPT ![c] = "gone"]
    /\ status' = [status EXCEPT ![c] = "wait"]
    /\ UNCHANGED <<holds, reaper, sigchld, callers>>

Zombies == {c \in Child : state[c] = "zombie"}

(* Mutant: one waitpid for one signal.                                     *)
ReapedOne == {CHOOSE c \in Zombies : TRUE}

(* The handler's loop calls waitpid until there is none left.              *)
Reaped == Zombies

(* The handler runs; proc_wait may have been first.                        *)
proc_sigchld_reap ==
  /\ sigchld
  /\ sigchld' = FALSE
  /\ \/ Zombies = {} /\ UNCHANGED <<state, status>>
     \/ /\ Zombies # {}
        /\ state' = [c \in Child |-> IF c \in Reaped THEN "gone" ELSE state[c]]
        /\ status' = [c \in Child |-> IF c \in Reaped THEN "handler" ELSE status[c]]
  /\ UNCHANGED <<holds, reaper, callers>>

Next ==
  \/ proc_init_reap
  \/ StartFails
  \/ proc_start_stdpipe
  \/ proc_stdpipe_close
  \/ Exit
  \/ proc_wait
  \/ proc_sigchld_reap

Spec == Init /\ [][Next]_vars

(* A pending signal is delivered.                                          *)
FairSpec == Spec /\ WF_vars(proc_sigchld_reap)

-----------------------------------------------------------------------------
(* A child does inherit the program's ends of children that were started   *)
(* before it, and keeps their inputs open as long as it lives.  But of any *)
(* children there is one whose ends none of them has: once the program has *)
(* closed its own, that one sees the end of its input, and then the next.  *)
NoCircle ==
  \A waiting \in (SUBSET Child) \ {{}} :
    \E c \in waiting : \A d \in waiting : holds[d] \cap Ends(c, Pipe, {0}) = {}

(* Nobody but the child has its own end, the program and later children    *)
(* included: when it exits, who reads its output sees the end of it.       *)
OutputEnds ==
  \A c \in Child : state[c] \in {"running", "zombie"} =>
    \A p \in ({0} \cup Child) \ {c} : holds[p] \cap Ends(c, Pipe, {1}) = {}

(* Several children that exit for one signal are all collected, by the     *)
(* handler or by proc_wait.                                                *)
NoZombies == \A c \in Child : (sigchld /\ state[c] = "zombie") ~> (state[c] = "gone")

(* "start a process running ... returns the process id or 0": the call     *)
(* returns in the program only.                                            *)
ReturnsOnce == callers = {0}

-----------------------------------------------------------------------------
(* Nobody has an end of a pair before the child is started: what fork      *)
(* copies are then ends of other children.                                 *)
EndsInv ==
  /\ \A c \in Child : state[c] = "none" =>
       \A p \in {0} \cup Child : \A e \in holds[p] : e[1] # c
  /\ NoCircle
  /\ OutputEnds

Shapes ==
  /\ holds \in [{0} \cup Child -> SUBSET (Child \X Pipe \X {0, 1})]
  /\ state \in [Child -> {"none", "running", "zombie", "gone"}]

IInv == Shapes /\ EndsInv
=============================================================================
