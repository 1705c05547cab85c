----------------------------- MODULE ServiceWin -----------------------------
(***************************************************************************)
(* service_win32.c: a program that runs as a service, and programs that    *)
(* install, start, stop and remove it, some at the same time.              *)
(***************************************************************************)
EXTENDS Integers, FiniteSets

CONSTANT Ctl          (* programs that call service_install or _control    *)

VARIABLES
  entry,   (* the manager's entry: none, there, or marked for deletion     *)
  state,   (* what the manager was told of the service                     *)
  pc,      (* ServiceMain: idle until the manager starts it                *)
  handler, (* ServiceHandler: idle, or the next step                       *)
  g_service_status,
  sig_exited,
  ctl      (* per program: what it does, the next step, whether svc is     *)
           (* open, the result, and whether others were there meanwhile    *)

service == <<pc, handler, g_service_status, sig_exited>>
vars == <<entry, state, service, ctl>>

Ops == {"INSTALL", "START", "STOP", "UNINSTALL"}

Init ==
  /\ entry \in {"none", "there"}
  /\ state = "STOPPED"
  /\ pc = "idle"
  /\ handler = "idle"
  /\ g_service_status = "STOPPED"
  /\ sig_exited = FALSE
  /\ ctl = [c \in Ctl |-> [op |-> "none", at |-> "end", svc |-> FALSE, err |-> 0,
                           alone |-> TRUE]]

-----------------------------------------------------------------------------
(* The service.  Two threads use g_service_status.                         *)
Thread(from, to) == pc = from /\ pc' = to

SetServiceStatus(s) == state' = s

(* It is registered, pending, and running.                                 *)
Registered ==
  /\ Thread("begin", "registered")
  /\ g_service_status' = "START_PENDING"
  /\ SetServiceStatus("START_PENDING")
  /\ UNCHANGED <<entry, handler, sig_exited, ctl>>

(* RegisterServiceCtrlHandler fails: ServiceMain returns without a report, *)
(* and the dispatcher waits for one.                                       *)
NotRegistered ==
  /\ Thread("begin", "stuck")
  /\ g_service_status' = "RUNNING"
  /\ UNCHANGED <<entry, state, handler, sig_exited, ctl>>

ReportsRunning ==
  /\ Thread("registered", "main")
  /\ g_service_status' = "RUNNING"
  /\ SetServiceStatus("RUNNING")
  /\ UNCHANGED <<entry, handler, sig_exited, ctl>>

(* service_main returns when it was told to, or when it likes.             *)
MainReturns ==
  /\ Thread("main", "returned")
  /\ g_service_status' = "STOPPED"
  /\ UNCHANGED <<entry, state, handler, sig_exited, ctl>>

(* SetServiceStatus tells what is in the structure by now.  Once stopped   *)
(* the dispatcher returns and the process ends.                            *)
ReportsStopped ==
  /\ Thread("returned", IF g_service_status = "STOPPED" THEN "idle" ELSE "stuck")
  /\ SetServiceStatus(g_service_status)
  /\ sig_exited' = FALSE
  /\ entry' = IF entry = "marked" /\ pc' = "idle" /\ \A c \in Ctl : ~ctl[c].svc
              THEN "none" ELSE entry
  /\ UNCHANGED <<handler, g_service_status, ctl>>

HandlerSignals ==
  /\ handler = "signal"
  /\ sig_exited' = TRUE
  /\ handler' = "status"
  /\ UNCHANGED <<entry, state, pc, g_service_status, ctl>>

(* Mutant: the service is said to be stopped when it is told to.           *)
HandlerStateStopped == "STOPPED"

HandlerState == "RUNNING"

HandlerSets ==
  /\ handler = "status"
  /\ g_service_status' = HandlerState
  /\ handler' = "report"
  /\ UNCHANGED <<entry, state, pc, sig_exited, ctl>>

(* The manager takes no report from a process that has ended.              *)
HandlerReports ==
  /\ handler = "report"
  /\ handler' = "idle"
  /\ IF pc = "idle" THEN UNCHANGED state ELSE SetServiceStatus(g_service_status)
  /\ UNCHANGED <<entry, pc, g_service_status, sig_exited, ctl>>

Service ==
  \/ Registered
  \/ NotRegistered
  \/ ReportsRunning
  \/ MainReturns
  \/ ReportsStopped
  \/ HandlerSignals
  \/ HandlerSets
  \/ HandlerReports

-----------------------------------------------------------------------------
(* The programs.  A marked entry goes with the last handle of it.          *)
At(c, step) == ctl[c].at = step

Swept(e, users) == IF e = "marked" /\ users = {} /\ pc = "idle" THEN "none" ELSE e

Users(k) == {c \in Ctl : k[c].svc}

Others(c) == \E d \in Ctl \ {c} : ctl[d].at # "end"

(* One program goes on; the others are no longer alone.                    *)
Becomes(c, r) ==
  ctl' = [d \in Ctl |-> IF d = c THEN r ELSE [ctl[d] EXCEPT !.alone = FALSE]]

(* OpenSCManager and OpenService.                                          *)
Open(c) ==
  /\ At(c, "end")
  /\ \E op \in Ops :
       Becomes(c, [op |-> op, at |-> "opened", svc |-> entry # "none", err |-> -1,
                   alone |-> ~Others(c) /\ pc = "idle"])
  /\ UNCHANGED <<entry, state, service>>

(* The end of both functions: the handle is closed.                        *)
End(c, e, err) ==
  LET r == [ctl[c] EXCEPT !.at = "end", !.svc = FALSE, !.err = err]
  IN  /\ Becomes(c, r)
      /\ entry' = Swept(e, Users(ctl) \ {c})
      /\ UNCHANGED <<state, service>>

(* DeleteService fails if the entry is marked already.                     *)
InstallDelete(c) ==
  /\ ctl[c].op = "INSTALL"
  /\ At(c, "opened")
  /\ \/ ctl[c].svc /\ entry = "marked" /\ End(c, entry, -1)
     \/ /\ ctl[c].svc
        /\ entry = "there"
        /\ entry' = "marked"
        /\ Becomes(c, [ctl[c] EXCEPT !.at = "deleted"])
        /\ UNCHANGED <<state, service>>
     \/ /\ ~ctl[c].svc
        /\ Becomes(c, [ctl[c] EXCEPT !.at = "create"])
        /\ UNCHANGED <<entry, state, service>>

(* Mutant: the handle of the old entry stays open.                         *)
ClosedLate(c) == Users(ctl)

ClosedFirst(c) == Users(ctl) \ {c}

InstallClose(c) ==
  /\ At(c, "deleted")
  /\ entry' = Swept(entry, ClosedFirst(c))
  /\ Becomes(c, [ctl[c] EXCEPT !.at = "create", !.svc = FALSE])
  /\ UNCHANGED <<state, service>>

InstallCreate(c) ==
  /\ At(c, "create")
  /\ \/ entry = "none" /\ End(c, "there", 0)
     \/ entry # "none" /\ End(c, entry, -1)

(* There is nothing to stop or to remove, or nothing to start.             *)
ControlNothing(c) ==
  /\ ctl[c].op # "INSTALL"
  /\ At(c, "opened")
  /\ ~ctl[c].svc
  /\ End(c, entry, IF ctl[c].op \in {"UNINSTALL", "STOP"} THEN 0 ELSE -1)

(* StartService; that the service runs already is no error.                *)
ControlStart(c) ==
  /\ ctl[c].op = "START"
  /\ At(c, "opened")
  /\ ctl[c].svc
  /\ \/ state # "STOPPED" /\ End(c, entry, 0)
     \/ state = "STOPPED" /\ entry = "marked" /\ End(c, entry, -1)
     \/ /\ state = "STOPPED"
        /\ entry = "there"
        /\ handler = "idle"
        /\ pc = "idle"
        /\ pc' = "begin"
        /\ state' = "START_PENDING"
        /\ Becomes(c, [ctl[c] EXCEPT !.at = "end", !.svc = FALSE, !.err = 0])
        /\ UNCHANGED <<entry, handler, g_service_status, sig_exited>>

(* ControlService with SERVICE_CONTROL_STOP: one that runs is told; the    *)
(* call comes back when the handler has.                                   *)
ControlStop(c) ==
  /\ ctl[c].op \in {"STOP", "UNINSTALL"}
  /\ At(c, "opened")
  /\ ctl[c].svc
  /\ handler = "idle"
  /\ \/ /\ state = "RUNNING"
        /\ handler' = "signal"
        /\ Becomes(c, [ctl[c] EXCEPT !.at = "told", !.err = 0])
     \/ /\ state # "RUNNING"
        /\ UNCHANGED handler
        /\ Becomes(c, [ctl[c] EXCEPT !.at = "told"])
  /\ UNCHANGED <<entry, state, pc, g_service_status, sig_exited>>

(* What ControlService said counts for STOP only.  DeleteService; that the *)
(* entry is marked already is no error.                                    *)
ControlEnd(c) ==
  /\ At(c, "told")
  /\ handler = "idle"
  /\ \/ ctl[c].op = "STOP" /\ End(c, entry, ctl[c].err)
     \/ ctl[c].op = "UNINSTALL" /\ End(c, "marked", 0)

Program(c) ==
  \/ Open(c)
  \/ InstallDelete(c)
  \/ InstallClose(c)
  \/ InstallCreate(c)
  \/ ControlNothing(c)
  \/ ControlStart(c)
  \/ ControlStop(c)
  \/ ControlEnd(c)

Next == Service \/ \E c \in Ctl : Program(c)

Spec == Init /\ [][Next]_vars

-----------------------------------------------------------------------------
(* The manager does not take the service for stopped while main runs, and  *)
(* a program that was alone from its first call to its last, with the      *)
(* service not running, has installed what it was to install.              *)
StoppedAfterMain == state = "STOPPED" => pc \notin {"registered", "main"}

AloneInstalls ==
  \A c \in Ctl : At(c, "end") /\ ctl[c].op = "INSTALL" /\ ctl[c].alone => ctl[c].err = 0

ServiceKept == StoppedAfterMain /\ AloneInstalls

(* Violated by a handler that runs while ServiceMain returns: what the     *)
(* manager is told last is that the service runs.                          *)
RunningOnlyInMain == state = "RUNNING" => pc \in {"main", "returned"}

-----------------------------------------------------------------------------
Doing ==
  [op : Ops \cup {"none"}, at : {"end", "opened", "deleted", "create", "told"},
   svc : BOOLEAN, err : Int, alone : BOOLEAN]

Shapes ==
  /\ entry \in {"none", "there", "marked"}
  /\ pc \in {"idle", "begin", "registered", "main", "returned", "stuck"}
  /\ handler \in {"idle", "signal", "status", "report"}
  /\ ctl \in [Ctl -> Doing]

(* The handler runs only for a service that was reported to run, so the    *)
(* reports before that one are the thread's own.                           *)
Reports ==
  /\ pc = "idle" => state = "STOPPED"
  /\ pc \in {"begin", "registered"} => handler = "idle" /\ state = "START_PENDING"
  /\ pc = "main" => state = "RUNNING" /\ g_service_status = "RUNNING"

(* A marked entry is kept by a handle or by the process; and a program     *)
(* that installs alone finds the entry as its own steps have left it.      *)
Installs ==
  /\ \A c \in Ctl : ctl[c].at \in {"end", "create"} => ~ctl[c].svc
  /\ entry = "marked" => pc # "idle" \/ Users(ctl) # {}
  /\ \A c \in Ctl : ctl[c].op = "INSTALL" /\ ctl[c].alone =>
       /\ ctl[c].at # "end" => pc = "idle" /\ ~Others(c)
       /\ ctl[c].at = "opened" => entry = IF ctl[c].svc THEN "there" ELSE "none"
       /\ ctl[c].at = "deleted" => entry = "marked"
       /\ ctl[c].at = "create" => entry = "none"
       /\ ctl[c].at = "end" => ctl[c].err = 0
       /\ ctl[c].at # "told"

IInv == Shapes /\ Reports /\ Installs
=============================================================================
