------------------------------ MODULE ProcWin ------------------------------
(***************************************************************************)
(* proc_win32.c, proc_run_stdbuf: start a child with two pipes, write all  *)
(* of its input, then read its output until it ends, the buffer is full    *)
(* or the time is over.  Bytes are counted; handles are accounted for one  *)
(* by one, since each of the calls that make them may fail.                *)
(***************************************************************************)
EXTENDS Integers, Sequences

CONSTANTS
  InLen, OutLen,  (* what the program writes, what the child writes        *)
  stdout_len,     (* the caller's buffer                                   *)
  Cap,            (* how much a pipe holds                                 *)
  ReadsToEnd      (* whether the child reads its input until it is closed  *)

VARIABLES
  pc,        (* where the call is                                          *)
  step,      (* the next step of setup                                     *)
  open,      (* the handles the program has open                           *)
  total,     (* bytes read into the buffer                                 *)
  sent,      (* bytes written to the child                                 *)
  infinite,  (* the timeout                                                *)
  first,     (* what the child does first: "reads" or "writes"             *)
  child,     (* none, running or dead                                      *)
  took,      (* what the child has read of its input                       *)
  gave       (* what the child has written                                 *)

childVars == <<child, took, gave>>
vars == <<pc, step, open, total, sent, infinite, first, childVars>>

Init ==
  /\ pc = "setup"
  /\ \/ open = {} /\ step = 2
     \/ open = {"token"} /\ step = 1    (* the thread acts for a user         *)
  /\ total = 0
  /\ sent = 0
  /\ infinite \in BOOLEAN
  /\ first \in {"reads", "writes"}
  /\ child = "none"
  /\ took = 0
  /\ gave = 0

(* What each call opens, and what the code closes after it.                *)
Setup ==
  <<[opens |-> {"userToken"}, closes |-> {}],
    [opens |-> {"inR", "inTmp"}, closes |-> {}],
    [opens |-> {"inW"}, closes |-> {"inTmp"}],
    [opens |-> {"outTmp", "outW"}, closes |-> {}],
    [opens |-> {"outR"}, closes |-> {"outTmp"}],
    [opens |-> {"process", "thread"}, closes |-> {"inR", "outW"}]>>

SetupStep ==
  /\ pc = "setup"
  /\ open' = (open \cup Setup[step].opens) \ Setup[step].closes
  /\ \/ step < Len(Setup) /\ step' = step + 1 /\ UNCHANGED <<pc, child>>
     \/ step = Len(Setup) /\ pc' = "write" /\ child' = "running" /\ UNCHANGED step
  /\ UNCHANGED <<total, sent, infinite, first, took, gave>>

Goto(place) ==
  /\ pc' = place
  /\ UNCHANGED <<step, open, total, sent, infinite, first, childVars>>

(* Any of the calls fails: the rest is left to the end of the function.    *)
SetupFails == pc = "setup" /\ Goto("cleanup")

(* WriteFile blocks while the pipe is full and the child lives.  When it   *)
(* fails, the macro after it leaves the inner loop only: the call goes on  *)
(* to read.                                                                *)
Write ==
  /\ pc = "write"
  /\ \/ sent = InLen /\ Goto("loop")
     \/ sent < InLen /\ child = "dead" /\ Goto("loop")
     \/ /\ sent < InLen
        /\ child = "running"
        /\ sent - took < Cap
        /\ sent' = sent + 1
        /\ UNCHANGED <<pc, step, open, total, infinite, first, childVars>>

(* Mutant: the buffer is read full, with no place for the last zero.       *)
RoomWhole == stdout_len - total

(* How many bytes ReadFile may put into the buffer.                        *)
Room == (stdout_len - total) - 1

Reading == pc = "loop" /\ total < stdout_len

CloseOutput ==
  /\ open' = open \ {"outR"}
  /\ UNCHANGED <<step, total, sent, infinite, first, childVars>>

(* Mutant: the pipe stays open when the buffer is full.                    *)
FullStaysOpen == FALSE /\ Reading /\ CloseOutput /\ UNCHANGED pc

(* The buffer is full: close the pipe and wait for the child only.         *)
Full ==
  /\ Reading
  /\ "outR" \in open
  /\ Room <= 0
  /\ CloseOutput
  /\ UNCHANGED pc

(* Windows does not say when a pipe's handle is set: the wait may end for  *)
(* it at any time, and ReadFile blocks.                                    *)
WaitPipe == Reading /\ "outR" \in open /\ Room > 0 /\ Goto("read")

Read ==
  /\ pc = "read"
  /\ pc' = "loop"
  /\ \/ \E n \in 1..(gave - total) :
          /\ n <= Room
          /\ total' = total + n
          /\ UNCHANGED <<step, open, sent, infinite, first, childVars>>
     \/ gave = total /\ child = "dead" /\ CloseOutput

(* The child has ended: what is left in the pipe is not read.              *)
WaitProcess == Reading /\ child = "dead" /\ Goto("cleanup")

(* The time is over; then once more for the child, as long.                *)
Timeout == Reading /\ ~infinite /\ Goto("last")

WaitLast == pc = "last" /\ Goto("cleanup")

(* Mutant: a handle that is only open between two calls is forgotten.      *)
HandlesNoTmp ==
  {"thread", "process", "outR", "outW", "inR", "inW", "token", "userToken"}

(* The variables that are closed at the end, if they are not zero.         *)
Handles ==
  {"thread", "process", "outTmp", "outR", "outW", "inR", "inTmp", "inW",
   "token", "userToken"}

Cleanup ==
  /\ pc = "cleanup"
  /\ pc' = "done"
  /\ open' = open \ Handles
  /\ UNCHANGED <<step, total, sent, infinite, first, childVars>>

(* The child reads InLen bytes, or all there are, and writes OutLen bytes; *)
(* then, or when nobody can read what it writes, it ends.                  *)
InputDone == took = InLen /\ (ReadsToEnd => "inW" \notin open)
OutputDone == gave = OutLen

ChildStep ==
  /\ child = "running"
  /\ \/ /\ first = "writes" => OutputDone
        /\ took < sent
        /\ took' = took + 1
        /\ UNCHANGED <<child, gave>>
     \/ /\ first = "reads" => InputDone
        /\ gave < OutLen
        /\ gave - total < Cap
        /\ gave' = gave + 1
        /\ UNCHANGED <<child, took>>
     \/ /\ "outR" \notin open \/ (InputDone /\ OutputDone)
        /\ child' = "dead"
        /\ UNCHANGED <<took, gave>>
  /\ UNCHANGED <<pc, step, open, total, sent, infinite, first>>

Call ==
  \/ SetupStep
  \/ Write
  \/ Full
  \/ WaitPipe
  \/ Read
  \/ WaitProcess
  \/ Timeout
  \/ WaitLast
  \/ Cleanup

Next == Call \/ SetupFails \/ ChildStep

Spec == Init /\ [][Next]_vars

(* The call runs, the child does.                                          *)
FairSpec == Spec /\ WF_vars(Call) /\ WF_vars(ChildStep)

-----------------------------------------------------------------------------
(* Whichever call fails, no handle is left open, and the output ends       *)
(* inside of the buffer with its zero.                                     *)
AllClosed == (pc = "done" => open = {}) /\ total < stdout_len

(* What is open before the end is what the end closes, and a read leaves   *)
(* room for the zero.                                                      *)
IInv ==
  /\ pc \in {"setup", "write", "loop", "read", "last", "cleanup", "done"}
  /\ step \in DOMAIN Setup
  /\ open \subseteq Handles
  /\ pc = "done" => open = {}
  /\ total \in Nat /\ gave \in Nat
  /\ total < stdout_len

(* The call returns, with an infinite timeout too, whatever the child does *)
(* first: its input fits into the pipe, and it does not wait for its end.  *)
Returns == <>(pc = "done")
=============================================================================
