------------------------------ MODULE Fdselect ------------------------------
(***************************************************************************)
(* fdselect.c / fdselect_unix.c: callbacks on descriptors, dispatched by   *)
(* one thread from select(2).  The dispatch loop walks fd_array from the   *)
(* end with a raw pointer; any call that may move or change the array      *)
(* raises select_break, which stops the walk before the pointer is used    *)
(* again.  Callbacks run inside the walk and may call fdselect_set,        *)
(* fdselect_unset, fdselect_clear and fdselect_break in any order.         *)
(***************************************************************************)
EXTENDS Integers, SequencesExt

CONSTANTS
  Fd,        (* descriptors                                                *)
  Func,      (* callback functions (with their argument)                   *)
  NoFunc,    (* the null callback                                          *)
  EventArgs  (* the event masks callers pass                               *)

(* FDSELECT_READ, FDSELECT_WRITE and FDSELECT_ADDRESS_LIST_CHANGE.          *)
Event == {"READ", "WRITE", "ADDR"}

ASSUME FdselectAssumption ==
  /\ NoFunc \notin Func
  /\ EventArgs \subseteq SUBSET Event

VARIABLES
  fd_array,      (* registrations, in array order                          *)
  count,         (* sel->count                                             *)
  select_break,  (* sel->select_break                                      *)
  pc,            (* where the thread is, see Pc                            *)
  cur,           (* the position of the loop's pointer f, 0 past the end   *)
  rfds, wfds,    (* the fd_sets passed to, then returned by, select(2)     *)
  ready,         (* <<fd, event>> pairs the kernel would report now        *)
  since_poll     (* what happened to fd_array since the sets were built:   *)
                 (* "none", "edited" in place, or "moved": elements were   *)
                 (* added, shifted or freed, f no longer names its slot    *)

vars == <<fd_array, count, select_break, pc, cur, rfds, wfds, ready, since_poll>>

(* "app": outside fdselect; "select": blocked in select(2); "slot": at the *)
(* top of the loop; "wcheck": between the two callbacks of one slot.        *)
Pc == {"app", "select", "slot", "read_cb", "wcheck", "write_cb"}

Entry == [fd : Fd, events : SUBSET Event,
          read_func : Func \cup {NoFunc}, write_func : Func \cup {NoFunc}]

(* array_add zeroes the new element; its fd is then filled in.             *)
NewEntry(fd) == [fd |-> fd, events |-> {}, read_func |-> NoFunc, write_func |-> NoFunc]

Wants(fd, e) == \E i \in DOMAIN fd_array : fd_array[i].fd = fd /\ e \in fd_array[i].events

Interest(e) == {fd_array[i].fd : i \in {j \in DOMAIN fd_array : e \in fd_array[j].events}}

Init ==
  /\ fd_array = <<>>
  /\ count = 0
  /\ select_break = FALSE
  /\ pc = "app"
  /\ cur = 0
  /\ rfds = {}
  /\ wfds = {}
  /\ ready = {}
  /\ since_poll = "none"

-----------------------------------------------------------------------------
(* The registration calls.  One thread: a call is made by the application  *)
(* between two selects, or by the callback that is running.                *)
CanCall == pc \in {"app", "read_cb", "write_cb"}

loopVars == <<pc, cur, rfds, wfds, ready>>

(* The entry fdselect_set leaves for fd: a callback adds to the events, a  *)
(* null callback takes them away.                                          *)
Updated(old, events, func) ==
  [fd         |-> old.fd,
   events     |-> IF func # NoFunc THEN old.events \cup events ELSE old.events \ events,
   read_func  |-> IF events \cap {"READ", "ADDR"} # {} THEN func ELSE old.read_func,
   write_func |-> IF "WRITE" \in events THEN func ELSE old.write_func]

(* Mutant: a slot without events stays in the array.                       *)
SetExistingKeepsEmpty(i, events, func) ==
  /\ fd_array' = [fd_array EXCEPT ![i] = Updated(fd_array[i], events, func)]
  /\ since_poll' = IF since_poll = "moved" THEN "moved" ELSE "edited"
  /\ UNCHANGED count

(* fd is registered: its slot is updated in place, and removed when no     *)
(* event is left.                                                          *)
SetExisting(i, events, func) ==
  LET new == Updated(fd_array[i], events, func)
  IN  IF new.events = {}
      THEN /\ fd_array' = RemoveAt(fd_array, i)
           /\ count' = count - 1
           /\ since_poll' = "moved"
      ELSE /\ fd_array' = [fd_array EXCEPT ![i] = new]
           /\ since_poll' = IF since_poll = "moved" THEN "moved" ELSE "edited"
           /\ UNCHANGED count

(* fd is not registered: a slot is added, and removed again at once if the *)
(* call registers nothing.  array_add may have moved the block either way. *)
SetNew(fd, events, func) ==
  LET new == Updated(NewEntry(fd), events, func)
  IN  /\ since_poll' = "moved"
      /\ IF new.events = {}
         THEN UNCHANGED <<fd_array, count>>
         ELSE /\ fd_array' = Append(fd_array, new)
              /\ count' = count + 1

fdselect_set(fd, events, func) ==
  LET ev == IF events = {} THEN {"READ", "WRITE"} ELSE events
  IN  /\ CanCall
      /\ select_break' = TRUE
      /\ \/ \E i \in DOMAIN fd_array : fd_array[i].fd = fd /\ SetExisting(i, ev, func)
         \/ /\ \A i \in DOMAIN fd_array : fd_array[i].fd # fd
            /\ SetNew(fd, ev, func)
      /\ UNCHANGED loopVars

(* No events means FDSELECT_ALL.                                           *)
fdselect_unset(fd, events) ==
  fdselect_set(fd, IF events = {} THEN Event ELSE events, NoFunc)

fdselect_clear ==
  /\ CanCall
  /\ fd_array' = <<>>
  /\ count' = 0
  /\ select_break' = TRUE
  /\ since_poll' = "moved"
  /\ UNCHANGED loopVars

fdselect_break ==
  /\ CanCall
  /\ select_break' = TRUE
  /\ UNCHANGED <<fd_array, count, since_poll>>
  /\ UNCHANGED loopVars

-----------------------------------------------------------------------------
(* fdselect_select: build the sets, block, then walk the array backwards.  *)
fdselect_select ==
  /\ pc = "app"
  /\ pc' = "select"
  /\ select_break' = FALSE
  /\ rfds' = Interest("READ")
  /\ wfds' = Interest("WRITE")
  /\ since_poll' = "none"
  /\ UNCHANGED <<fd_array, count, cur, ready>>

(* Mutant: the walk starts one slot early and never reaches the last one.  *)
SelectReturnShort ==
  /\ pc = "select"
  /\ rfds' = {fd \in rfds : <<fd, "READ">> \in ready}
  /\ wfds' = {fd \in wfds : <<fd, "WRITE">> \in ready}
  /\ rfds' \cup wfds' # {}
  /\ pc' = "slot"
  /\ cur' = Len(fd_array) - 1
  /\ UNCHANGED <<fd_array, count, select_break, ready, since_poll>>

(* select(2) overwrites the sets with what is ready.                        *)
SelectReturn ==
  /\ pc = "select"
  /\ rfds' = {fd \in rfds : <<fd, "READ">> \in ready}
  /\ wfds' = {fd \in wfds : <<fd, "WRITE">> \in ready}
  /\ rfds' \cup wfds' # {}
  /\ pc' = "slot"
  /\ cur' = Len(fd_array)
  /\ UNCHANGED <<fd_array, count, select_break, ready, since_poll>>

(* nfds < 0 on error (a signal), nfds = 0 on timeout: no callback runs.     *)
SelectNothing ==
  /\ pc = "select"
  /\ pc' = "app"
  /\ UNCHANGED <<fd_array, count, select_break, cur, rfds, wfds, ready, since_poll>>

Goto(place, slot) ==
  /\ pc' = place
  /\ cur' = slot
  /\ UNCHANGED <<fd_array, count, select_break, rfds, wfds, ready, since_poll>>

(* The top of the loop body.  The loop also passes over a slot without     *)
(* events: here such a slot is in neither set, so it takes the ELSE twice. *)
SlotRead ==
  /\ pc = "slot"
  /\ cur > 0
  /\ IF fd_array[cur].fd \in rfds /\ fd_array[cur].read_func # NoFunc
     THEN Goto("read_cb", cur)
     ELSE Goto("wcheck", cur)

(* Mutant: the loop goes on whenever its slot still exists.                *)
ReadReturnRechecksSlot ==
  /\ pc = "read_cb"
  /\ IF cur \in DOMAIN fd_array THEN Goto("wcheck", cur) ELSE Goto("app", 0)

(* The read callback returns: leave the loop if it raised select_break.     *)
ReadReturn ==
  /\ pc = "read_cb"
  /\ IF select_break THEN Goto("app", 0) ELSE Goto("wcheck", cur)

SlotWrite ==
  /\ pc = "wcheck"
  /\ IF fd_array[cur].fd \in wfds /\ fd_array[cur].write_func # NoFunc
     THEN Goto("write_cb", cur)
     ELSE Goto("slot", cur - 1)

(* Mutant: the pointer is decremented twice.                               *)
WriteReturnSkips ==
  /\ pc = "write_cb"
  /\ IF select_break THEN Goto("app", 0) ELSE Goto("slot", cur - 2)

(* Mutant: the loop is left with the flag down instead of up.              *)
WriteReturnInverted ==
  /\ pc = "write_cb"
  /\ IF select_break THEN Goto("slot", cur - 1) ELSE Goto("app", 0)

WriteReturn ==
  /\ pc = "write_cb"
  /\ IF select_break THEN Goto("app", 0) ELSE Goto("slot", cur - 1)

LoopEnd ==
  /\ pc = "slot"
  /\ cur = 0
  /\ Goto("app", 0)

(* The kernel: a descriptor becomes ready or stops being ready.            *)
Kernel ==
  /\ \E fd \in Fd, e \in {"READ", "WRITE"} :
       ready' \in {ready \cup {<<fd, e>>}, ready \ {<<fd, e>>}}
  /\ UNCHANGED <<fd_array, count, select_break, pc, cur, rfds, wfds, since_poll>>

Call ==
  \/ \E fd \in Fd, events \in EventArgs, func \in Func : fdselect_set(fd, events, func)
  \/ \E fd \in Fd, events \in EventArgs : fdselect_unset(fd, events)
  \/ fdselect_clear
  \/ fdselect_break

Loop == SelectReturn \/ SlotRead \/ ReadReturn \/ SlotWrite \/ WriteReturn \/ LoopEnd

Next == Call \/ fdselect_select \/ Loop \/ SelectNothing \/ Kernel

Spec == Init /\ [][Next]_vars

(* Fairness.  The program's main loop calls fdselect_select for ever       *)
(* (http_server.c, http_router.c, http_redirect.c), callbacks return, and  *)
(* not every select(2) that could report a descriptor is cut short by a    *)
(* signal.  The kernel's readiness and the calls made are left free.       *)
Fairness ==
  /\ WF_vars(fdselect_select)
  /\ SF_vars(SelectReturn)
  /\ WF_vars(SlotRead \/ ReadReturn \/ SlotWrite \/ WriteReturn \/ LoopEnd)

FairSpec == Spec /\ Fairness

-----------------------------------------------------------------------------
(* Every variable keeps its type; in particular the loop's position never  *)
(* runs below the array.                                                   *)
TypeOK ==
  /\ fd_array \in Seq(Entry)
  /\ count \in Nat
  /\ select_break \in BOOLEAN
  /\ pc \in Pc
  /\ cur \in Nat
  /\ rfds \subseteq Fd
  /\ wfds \subseteq Fd
  /\ ready \subseteq Fd \X {"READ", "WRITE"}
  /\ since_poll \in {"none", "edited", "moved"}

(* fdselect_set keeps one slot per descriptor, none without events, and    *)
(* sel->count equal to the number of slots, whatever the order of set,     *)
(* unset and clear calls, from callbacks too.                              *)
Registered ==
  /\ count = Len(fd_array)
  /\ \A i, j \in DOMAIN fd_array : fd_array[i].fd = fd_array[j].fd => i = j
  /\ \A i \in DOMAIN fd_array : fd_array[i].events # {}

(* The walk of fdselect_select_os never dereferences its slot pointer      *)
(* after a callback moved or freed array elements: the break flag always   *)
(* stops it first.                                                         *)
SlotValid ==
  (pc = "slot" /\ cur > 0) \/ pc = "wcheck" => since_poll # "moved" /\ cur \in DOMAIN fd_array

(* fdselect_select_os calls a callback on the strength of the sets that    *)
(* select(2) returned, without looking at f->events again.  Still it never *)
(* calls one on a registration made or changed since those sets were       *)
(* built, in particular not on a descriptor number that an earlier         *)
(* callback of the same pass closed and registered again.                  *)
CallsOnlyPolled ==
  [][/\ pc' = "read_cb" /\ pc # "read_cb"
         => Wants(fd_array[cur].fd, "READ") /\ since_poll = "none"
     /\ pc' = "write_cb" /\ pc # "write_cb"
         => Wants(fd_array[cur].fd, "WRITE") /\ since_poll = "none"]_vars

(* The inductive strengthening of SlotValid and CallsOnlyPolled: as    *)
(* long as the flag is down, nothing has changed since the sets were built *)
(* from fd_array, so a set bit is a registered event and the slot pointer  *)
(* is good; with the flag up the loop is inside a callback or left.        *)
Dispatch ==
  /\ pc \in {"select", "slot", "wcheck"} => ~select_break
  /\ pc \in {"read_cb", "wcheck", "write_cb"} => cur > 0
  /\ pc # "app" /\ ~select_break =>
       /\ rfds \subseteq Interest("READ") /\ wfds \subseteq Interest("WRITE")
       /\ since_poll = "none"
  /\ pc \in {"slot", "read_cb", "wcheck", "write_cb"} /\ ~select_break =>
       cur <= Len(fd_array)

IInv == TypeOK /\ Registered /\ Dispatch

Called(fd, e) ==
  /\ pc = (IF e = "READ" THEN "read_cb" ELSE "write_cb")
  /\ cur \in DOMAIN fd_array
  /\ fd_array[cur].fd = fd

Pending(fd, e) == Wants(fd, e) /\ <<fd, e>> \in ready

(* The loop does not spin: while some registered descriptor stays ready,   *)
(* callbacks keep being called.                                            *)
Progress ==
  \A fd \in Fd, e \in {"READ", "WRITE"} :
    <>[]Pending(fd, e) => []<>(pc \in {"read_cb", "write_cb"})

(* fdselect.h, "call func when events occur": a descriptor that stays      *)
(* registered and ready has its callback called again and again.           *)
EveryEventCalled ==
  \A fd \in Fd, e \in {"READ", "WRITE"} : <>[]Pending(fd, e) => []<>Called(fd, e)
=============================================================================
