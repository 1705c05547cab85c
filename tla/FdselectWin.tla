---------------------------- MODULE FdselectWin ----------------------------
(***************************************************************************)
(* fdselect_win32.c: the same registrations as Fdselect, dispatched from   *)
(* WaitForMultipleObjects.  Every slot has an event object; Windows sets   *)
(* it when it records a network event, once, until the program has called  *)
(* recv or a send that blocked.  Handles that are no sockets are waited    *)
(* for as they are.  rfds and wfds belong to the Unix loop: unused.        *)
(***************************************************************************)
EXTENDS Fdselect

CONSTANTS
  Handle,      (* descriptors that fdselect_set_handle registers           *)
  HandleCalls  (* whether a handle's callback registers or unregisters     *)

VARIABLES
  os_event,   (* the descriptors whose slot has an event object            *)
  signaled,   (* those whose event object, or handle, is set               *)
  net,        (* <<fd, event>> pairs recorded and not yet enumerated       *)
  in_handle,  (* the callback that runs is a handle's                      *)
  unowned     (* descriptors with an event object that no slot knows of    *)

osVars == <<os_event, signaled, net, unowned>>
winVars == <<vars, osVars, in_handle>>

WinInit ==
  /\ Init
  /\ os_event = {}
  /\ signaled = {}
  /\ net = {}
  /\ in_handle = FALSE
  /\ unowned = {}

(* Mutant: the event of a slot is never closed.                            *)
FreeNoOsEvents == UNCHANGED osVars

(* fdselect_free_os_event, from fdselect_set: the event of a slot that     *)
(* changes or goes is closed, and what Windows recorded with it is lost.   *)
FreeOsEvents ==
  LET same == {fd \in os_event : \A e \in Event :
                 Wants(fd, e) <=> \E i \in DOMAIN fd_array' : fd_array'[i].fd = fd /\ e \in fd_array'[i].events}
  IN  /\ os_event' = same
      /\ signaled' = signaled \cap (same \cup Handle)
      /\ net' = {e \in net : e[1] \in same}
      /\ UNCHANGED unowned

(* fdselect_clear drops the slots and closes nothing.  The next            *)
(* WSAEventSelect of a socket drops what Windows has recorded.             *)
LeaveOsEvents ==
  /\ os_event' = {}
  /\ signaled' = signaled \cap Handle
  /\ net' = {}
  /\ unowned' = unowned \cup os_event

WinCall ==
  /\ pc # "app" /\ in_handle => HandleCalls
  /\ \/ \E fd \in Fd, events \in EventArgs, func \in Func :
          fdselect_set(fd, events, func) /\ FreeOsEvents
     \/ \E fd \in Fd, events \in EventArgs : fdselect_unset(fd, events) /\ FreeOsEvents
     \/ fdselect_clear /\ LeaveOsEvents
     \/ fdselect_break /\ UNCHANGED osVars
  /\ UNCHANGED in_handle

-----------------------------------------------------------------------------
(* The sockets that get an event object when the thread is about to wait.  *)
Fresh == {fd_array[i].fd : i \in DOMAIN fd_array} \ (os_event \cup Handle)

(* Windows records what can be read at once; for writing the code sets the *)
(* event itself, whatever the socket's state.                              *)
SetEvent ==
  {fd \in Fresh : Wants(fd, "WRITE") \/ (Wants(fd, "READ") /\ <<fd, "READ">> \in ready)}

WinSelect ==
  /\ pc = "app"
  /\ fd_array # <<>>
  /\ pc' = "select"
  /\ select_break' = FALSE
  /\ since_poll' = "none"
  /\ os_event' = os_event \cup Fresh
  /\ signaled' = signaled \cup SetEvent
  /\ net' = net \cup {e \in Fresh \X {"READ"} : Wants(e[1], "READ") /\ e \in ready}
  /\ UNCHANGED <<fd_array, count, cur, rfds, wfds, ready, in_handle, unowned>>

(* WaitForMultipleObjects gives the first object that is set, and resets   *)
(* it if it is an event.                                                   *)
WaitReturn ==
  /\ pc = "select"
  /\ \E i \in DOMAIN fd_array :
       LET fd == fd_array[i].fd
       IN  /\ fd \in signaled
           /\ \A j \in 1..(i - 1) : fd_array[j].fd \notin signaled
           /\ signaled' = signaled \ ({fd} \ Handle)
           /\ in_handle' = (fd \in Handle)
           /\ Goto(IF fd \in Handle THEN "handle" ELSE "slot", i)
  /\ UNCHANGED <<os_event, net, unowned>>

WaitTimeout == SelectNothing /\ UNCHANGED <<osVars, in_handle>>

(* A handle: both callbacks, and then on to the sockets behind it.         *)
HandleRead ==
  /\ pc = "handle"
  /\ IF "READ" \in fd_array[cur].events THEN Goto("read_cb", cur) ELSE Goto("wcheck", cur)
  /\ UNCHANGED <<osVars, in_handle>>

(* The top of the loop; WSAEnumNetworkEvents takes what was recorded.  Any *)
(* recorded event the slot is registered for calls the read callback, one  *)
(* for writing too.                                                        *)
Slot ==
  /\ pc = "slot"
  /\ IF select_break \/ cur > Len(fd_array)
     THEN Goto("app", 0) /\ UNCHANGED <<osVars, in_handle>>
     ELSE LET f == fd_array[cur]
          IN  IF f.fd \in Handle
              THEN Goto("slot", cur + 1) /\ UNCHANGED <<osVars, in_handle>>
              ELSE /\ signaled' = signaled \ {f.fd}
                   /\ net' = net \ ({f.fd} \X Event)
                   /\ Goto(IF /\ f.events \cap {"READ", "ADDR"} # {}
                              /\ \E e \in f.events : <<f.fd, e>> \in net
                           THEN "read_cb" ELSE "wcheck", cur)
                   /\ in_handle' = FALSE
                   /\ UNCHANGED <<os_event, unowned>>

(* Mutant: the loop goes on after a callback that changed the slots.       *)
AfterReadGoesOn == Goto("wcheck", cur)

(* A handle's read callback is followed by its write callback, even when   *)
(* the slots have changed.                                                 *)
AfterRead == IF select_break /\ ~in_handle THEN Goto("app", 0) ELSE Goto("wcheck", cur)

WinReadReturn ==
  /\ pc = "read_cb"
  /\ AfterRead
  /\ UNCHANGED <<osVars, in_handle>>

(* The write callback is called whether or not the socket is writable.  A  *)
(* slot pointer behind the array's end finds no event here.                *)
WriteCheck ==
  /\ pc = "wcheck"
  /\ IF cur \in DOMAIN fd_array /\ "WRITE" \in fd_array[cur].events
     THEN Goto("write_cb", cur)
     ELSE Goto("slot", cur + 1)
  /\ UNCHANGED <<osVars, in_handle>>

WinWriteReturn ==
  /\ pc = "write_cb"
  /\ Goto("slot", cur + 1)
  /\ UNCHANGED <<osVars, in_handle>>

-----------------------------------------------------------------------------
(* What Windows sets when a socket becomes ready for e.                    *)
Recorded(fd, e) ==
  IF fd \in os_event /\ Wants(fd, e)
  THEN net' = net \cup {<<fd, e>>} /\ signaled' = signaled \cup {fd}
  ELSE UNCHANGED <<net, signaled>>

(* A socket becomes ready or stops being ready.  The callback receives     *)
(* something and there is more, which is recorded again.                   *)
WinKernel ==
  /\ \E fd \in Fd \ Handle, e \in {"READ", "WRITE"} :
       \/ <<fd, e>> \notin ready /\ ready' = ready \cup {<<fd, e>>} /\ Recorded(fd, e)
       \/ <<fd, e>> \in ready /\ ready' = ready \ {<<fd, e>>} /\ UNCHANGED <<net, signaled>>
       \/ /\ pc = "read_cb" /\ ~in_handle /\ cur \in DOMAIN fd_array /\ fd_array[cur].fd = fd
          /\ <<fd, "READ">> \in ready /\ e = "READ"
          /\ Recorded(fd, e)
          /\ UNCHANGED ready
  /\ UNCHANGED <<fd_array, count, select_break, pc, cur, rfds, wfds, since_poll, os_event,
                 in_handle, unowned>>

HandleSet ==
  /\ \E fd \in Handle : signaled' \in {signaled \cup {fd}, signaled \ {fd}}
  /\ UNCHANGED <<vars, os_event, net, in_handle, unowned>>

WinLoop == WaitReturn \/ HandleRead \/ Slot \/ WinReadReturn \/ WriteCheck \/ WinWriteReturn

WinNext == WinCall \/ WinSelect \/ WinLoop \/ WaitTimeout \/ WinKernel \/ HandleSet

(* The program selects again and again, callbacks return, and a wait ends  *)
(* when an object is set.                                                  *)
WinSpec == WinInit /\ [][WinNext]_winVars
WinFairSpec == WinSpec /\ WF_winVars(WinSelect) /\ SF_winVars(WaitReturn) /\ WF_winVars(WinLoop)

-----------------------------------------------------------------------------
(* fdselect_select_os uses its slot only while no callback has changed the *)
(* array, provided that no handle's callback changes it.                   *)
WinSlotValid ==
  (pc \in {"handle", "wcheck"}) \/ (pc = "slot" /\ ~select_break /\ cur <= Len(fd_array)) =>
    since_poll # "moved" /\ cur \in DOMAIN fd_array

(* While the thread waits, every event Windows has recorded for a socket   *)
(* that is registered for it also wakes the thread: resetting an event     *)
(* never drops what came after.                                            *)
ReadNoticed ==
  pc = "select" => \A e \in net : Wants(e[1], e[2]) /\ e[1] \in signaled

(* Violated by fdselect_clear: an event object goes with its slot.         *)
EventsClosed == unowned = {}

(* The inductive strengthening of both.  While the flag is down nothing    *)
(* has changed since the wait began and the position is good; a handle's   *)
(* callback leaves the flag down.  What Windows has recorded belongs to an *)
(* event object of a socket, which is set but for the one slot that has    *)
(* just been waited for and is looked at next.                             *)
WinTypeOK ==
  /\ fd_array \in Seq(Entry)
  /\ count \in Nat
  /\ select_break \in BOOLEAN
  /\ pc \in Pc \cup {"handle"}
  /\ cur \in Nat
  /\ since_poll \in {"none", "edited", "moved"}
  /\ os_event \cap Handle = {}
  /\ net \subseteq os_event \X {"READ", "WRITE"}
  /\ in_handle \in BOOLEAN

WinDispatch ==
  /\ pc \in {"select", "handle", "wcheck"} => ~select_break
  /\ pc \notin {"app", "select"} => cur > 0
  /\ pc # "app" /\ ~select_break => since_poll = "none"
  /\ pc \in {"handle", "read_cb", "wcheck", "write_cb"} /\ ~select_break => cur <= Len(fd_array)
  /\ pc \notin {"app", "select"} /\ in_handle => ~select_break

Recording ==
  \A e \in net :
    /\ Wants(e[1], e[2])
    /\ \/ e[1] \in signaled
       \/ pc = "slot" /\ ~select_break /\ cur \in DOMAIN fd_array /\ fd_array[cur].fd = e[1]

WinIInv == WinTypeOK /\ Registered /\ WinDispatch /\ Recording

(* "I always set the event and let the app handle the EWOULDBLOCK": a      *)
(* socket that stays registered for writing and stays writable keeps       *)
(* being called back.                                                      *)
WriteCalled ==
  \A fd \in Fd \ Handle :
    <>[]Pending(fd, "WRITE") => []<>(pc \in {"read_cb", "write_cb"})
=============================================================================
