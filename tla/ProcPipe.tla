------------------------------ MODULE ProcPipe ------------------------------
(***************************************************************************)
(* proc_win32.c: start children, with pipes for their standard input and   *)
(* output or without, and ask for them by their ids.  To start one with    *)
(* pipes the program puts the child's ends in the place of its own input   *)
(* and output.  One thread calls.                                          *)
(***************************************************************************)
EXTENDS Integers

CONSTANT Child

VARIABLES
  state,    (* by child: none, running or ended                            *)
  piped,    (* the children that were started with pipes                   *)
  stdio,    (* the ends that are the program's input and output: <<>> for  *)
            (* what it was started with                                    *)
  copies,   (* the ends that the copies of its input and output are        *)
  ends,     (* ends the program has open and its children do not inherit   *)
  holds,    (* by child: the ends that it has open                         *)
  wait      (* proc_wait: the child, and what it returned or 0             *)

vars == <<state, piped, stdio, copies, ends, holds, wait>>

Init ==
  /\ state = [c \in Child |-> "none"]
  /\ piped = {}
  /\ stdio = {}
  /\ copies = {}
  /\ ends = {}
  /\ holds = [c \in Child |-> {}]
  /\ wait = [child |-> 0, ret |-> 0]

Waiting == wait.child # 0 /\ wait.ret = 0

(* The ends of a child's pipes: 0 is the program's, 1 the child's.         *)
Read(c, side) == <<c, "stdin", side>>
Write(c, side) == <<c, "stdout", side>>

(* Mutant: the pipes are made without O_NOINHERIT.                         *)
InheritedAll(c, in_and_out, old) ==
  in_and_out \cup old \cup ends \cup {Read(c, 0), Write(c, 0)}

(* What a child has after it was started.                                  *)
Inherited(c, in_and_out, old) == in_and_out \cup old

proc_start ==
  \E c \in Child :
    /\ ~Waiting
    /\ state[c] = "none"
    /\ state' = [state EXCEPT ![c] = "running"]
    /\ holds' = [holds EXCEPT ![c] = Inherited(c, stdio, copies)]
    /\ wait' = [child |-> 0, ret |-> 0]
    /\ UNCHANGED <<piped, stdio, copies, ends>>

(* The call returns before the lines that would restore the program's      *)
(* input and output and close the copies.                                  *)
proc_start_stdpipe ==
  \E c \in Child :
    /\ ~Waiting
    /\ state[c] = "none"
    /\ state' = [state EXCEPT ![c] = "running"]
    /\ piped' = piped \cup {c}
    /\ stdio' = {Read(c, 1), Write(c, 1)}
    /\ copies' = copies \cup stdio
    /\ ends' = ends \cup {Read(c, 0), Write(c, 0)}
    /\ holds' = [holds EXCEPT ![c] = Inherited(c, stdio', copies')]
    /\ UNCHANGED wait

(* What a call that fails leaves of the program's ends.  Without a word in *)
(* the command line it closes what the caller's variables have, which may  *)
(* be the ends of an earlier child; when the first pipe cannot be made it  *)
(* closes nothing; and when the second cannot, one end of the first.       *)
EndsAfterFailure(c) ==
  {ends \ {Read(d, 0), Write(d, 0)} : d \in piped} \cup {ends, ends \cup {Read(c, 1)}}

StartFails ==
  \E c \in Child :
    /\ ~Waiting
    /\ state[c] = "none"
    /\ state' = [state EXCEPT ![c] = "ended"]
    /\ piped' = piped \cup {c}
    /\ ends' \in EndsAfterFailure(c)
    /\ UNCHANGED <<stdio, copies, holds, wait>>

proc_stdpipe_close ==
  /\ ~Waiting
  /\ \E c \in piped : \E e \in {Read(c, 0), Write(c, 0)} \cap ends : ends' = ends \ {e}
  /\ UNCHANGED <<state, piped, stdio, copies, holds, wait>>

Exit ==
  \E c \in Child :
    /\ state[c] = "running"
    /\ state' = [state EXCEPT ![c] = "ended"]
    /\ holds' = [holds EXCEPT ![c] = {}]
    /\ UNCHANGED <<piped, stdio, copies, ends, wait>>

(* OpenProcess finds a child that runs: nobody keeps a handle to one that  *)
(* has ended, and the id of one with pipes is no id but a handle.          *)
Found(c) == state[c] = "running" /\ c \notin piped

(* proc_wait before its wait; -1: there is no such child.                  *)
proc_wait ==
  \E c \in Child :
    /\ ~Waiting
    /\ state[c] # "none"
    /\ wait' = [child |-> c, ret |-> IF Found(c) THEN 0 ELSE -1]
    /\ UNCHANGED <<state, piped, stdio, copies, ends, holds>>

(* Mutant: what WaitForSingleObject returned is not looked at.             *)
WaitedAny(c) == {-2, -3}

(* What proc_wait returns after its wait: -2 when the time is over, and -3 *)
(* when the child has ended, since its handle may not ask for the code.    *)
Waited(c) == IF state[c] = "ended" THEN {-3} ELSE {-2}

WaitEnds ==
  /\ Waiting
  /\ \E ret \in Waited(wait.child) : wait' = [wait EXCEPT !.ret = ret]
  /\ UNCHANGED <<state, piped, stdio, copies, ends, holds>>

Next ==
  \/ proc_start
  \/ proc_start_stdpipe
  \/ StartFails
  \/ proc_stdpipe_close
  \/ Exit
  \/ proc_wait
  \/ WaitEnds

Spec == Init /\ [][Next]_vars

-----------------------------------------------------------------------------
(* No child has the program's end of a pipe, its own or another's: when    *)
(* the program closes a child's input, the child sees its end.             *)
InputEnds == \A c, d \in Child : holds[c] \cap {Read(d, 0), Write(d, 0)} = {}

(* proc_wait says that the child is no more, or that it has waited for it, *)
(* only of one that has ended; children with pipes it never finds.         *)
WaitTold ==
  wait.ret \in {-1, -3} => state[wait.child] = "ended" \/ wait.child \in piped

(* Violated: the program itself keeps the writing end of a child's output, *)
(* as its own output, and reads no end of it after the child has ended.    *)
OutputEnds ==
  (\A c \in Child : state[c] = "ended") =>
  \A c \in Child : Write(c, 1) \notin stdio \cup copies \cup ends

-----------------------------------------------------------------------------
Shapes ==
  /\ state \in [Child -> {"none", "running", "ended"}]
  /\ wait \in [child : Child \cup {0}, ret : {0, -1, -2, -3}]
  /\ wait.ret # 0 => wait.child \in Child
  /\ holds \in [Child -> SUBSET (Child \X {"stdin", "stdout"} \X {1})]

(* What can be inherited, the program's input and output and the copies of *)
(* them, are ends of the children: the program's own are not among them.   *)
EndsInv ==
  /\ stdio \subseteq Child \X {"stdin", "stdout"} \X {1}
  /\ copies \subseteq Child \X {"stdin", "stdout"} \X {1}

IInv == Shapes /\ EndsInv /\ WaitTold
=============================================================================
