--------------------------- MODULE FdselectProofs ---------------------------
(***************************************************************************)
(* Proofs about Fdselect.tla and FdselectWin.tla, for any descriptors,     *)
(* callbacks and masks.  IInv and WinIInv are inductive: registrations     *)
(* only change while the flag goes up, and both loops read the array only  *)
(* while the flag is down.                                                 *)
(***************************************************************************)
EXTENDS FdselectWin, SequenceTheorems, TLAPS

(* Removing one slot shortens the array by one and shifts the rest down.   *)
LEMMA RemoveOne ==
  ASSUME NEW S, NEW s \in Seq(S), NEW i \in DOMAIN s
  PROVE  /\ RemoveAt(s, i) \in Seq(S)
         /\ Len(RemoveAt(s, i)) = Len(s) - 1
         /\ \A j \in 1 .. Len(s) - 1 :
              RemoveAt(s, i)[j] = IF j < i THEN s[j] ELSE s[j + 1]
  <1> DEFINE t == [j \in 1 .. (Len(s) - 1) |-> IF j < i THEN s[j] ELSE s[j + 1]]
  <1>1. i \in 1 .. Len(s) /\ Len(s) \in Nat
    OBVIOUS
  <1>2. RemoveAt(s, i) = t
    <2> DEFINE p == SubSeq(s, 1, i - 1)
               q == SubSeq(s, i + 1, Len(s))
    <2>1. p \in Seq(S) /\ Len(p) = i - 1 /\ \A j \in 1 .. i - 1 : p[j] = s[j]
      BY <1>1
    <2>2. q \in Seq(S) /\ Len(q) = Len(s) - i /\ \A j \in 1 .. Len(s) - i : q[j] = s[i + j]
      BY <1>1
    <2> HIDE DEF p, q
    <2> DEFINE r == p \o q
    <2>3. /\ r \in Seq(S) /\ Len(r) = Len(p) + Len(q)
          /\ \A j \in 1 .. Len(p) + Len(q) : r[j] = IF j <= Len(p) THEN p[j] ELSE q[j - Len(p)]
      BY <2>1, <2>2, ConcatProperties, Zenon
    <2> HIDE DEF r
    <2>4. r \in Seq(S) /\ Len(r) = Len(s) - 1
      BY <1>1, <2>1, <2>2, <2>3
    <2>5. \A j \in 1 .. Len(s) - 1 : r[j] = IF j < i THEN s[j] ELSE s[j + 1]
      <3> TAKE j \in 1 .. Len(s) - 1
      <3>1. r[j] = IF j <= i - 1 THEN p[j] ELSE q[j - (i - 1)]
        BY <1>1, <2>1, <2>2, <2>3
      <3>2. CASE j < i
        BY <1>1, <2>1, <3>1, <3>2
      <3>3. CASE ~(j < i)
        <4>1. j - (i - 1) \in 1 .. Len(s) - i /\ i + (j - (i - 1)) = j + 1
          BY <1>1, <3>3
        <4> QED
          BY <1>1, <2>2, <3>1, <3>3, <4>1
      <3> QED
        BY <3>2, <3>3
    <2>6. r = t
      BY <2>4, <2>5
    <2> QED
      BY <2>6 DEF RemoveAt, r, p, q
  <1>3. t \in Seq(S) /\ Len(t) = Len(s) - 1
    <2>1. \A j \in 1 .. (Len(s) - 1) : t[j] \in S
      BY <1>1
    <2>2. t \in [1 .. (Len(s) - 1) -> S]
      BY <2>1
    <2>3. Len(s) - 1 \in Nat
      BY <1>1
    <2> QED BY <2>2, <2>3
  <1>4. \A j \in 1 .. Len(s) - 1 : t[j] = IF j < i THEN s[j] ELSE s[j + 1]
    BY <1>1
  <1> HIDE DEF t
  <1> QED BY <1>2, <1>3, <1>4

(* The initial state: an empty array, outside the loop.                    *)
LEMMA InitIInv == Init => IInv
  <1> SUFFICES ASSUME Init PROVE IInv
    OBVIOUS
  <1>1. TypeOK
    <2>1. fd_array \in Seq(Entry) /\ count \in Nat /\ cur \in Nat
      BY DEF Init
    <2>2. rfds \subseteq Fd /\ wfds \subseteq Fd /\ ready \subseteq Fd \X {"READ", "WRITE"}
      BY DEF Init
    <2>3. select_break \in BOOLEAN /\ since_poll \in {"none", "edited", "moved"} /\ pc \in Pc
      BY DEF Init, Pc
    <2> QED BY <2>1, <2>2, <2>3 DEF TypeOK
  <1>2. Registered
    BY DEF Init, Registered
  <1>3. Dispatch
    BY DEF Init, Dispatch
  <1> QED BY <1>1, <1>2, <1>3 DEF IInv

(* The entry a call leaves is a well-typed entry of the same descriptor.   *)
LEMMA UpdatedType ==
  ASSUME NEW old \in Entry, NEW events \in SUBSET Event, NEW func \in Func \cup {NoFunc}
  PROVE  Updated(old, events, func) \in Entry /\ Updated(old, events, func).fd = old.fd
  BY DEF Updated, Entry

(* fdselect_set and fdselect_unset keep the array consistent.              *)
LEMMA SetRegisters ==
  ASSUME fd_array \in Seq(Entry), Registered,
         NEW fd \in Fd, NEW events \in SUBSET Event, NEW func \in Func \cup {NoFunc},
         fdselect_set(fd, events, func)
  PROVE  /\ fd_array' \in Seq(Entry) /\ count' \in Nat /\ Registered'
         /\ since_poll' \in {"edited", "moved"}
  <1> DEFINE ev == IF events = {} THEN {"READ", "WRITE"} ELSE events
  <1>1. ev \in SUBSET Event
    BY DEF Event
  <1>2. /\ fd_array \in Seq(Entry) /\ count = Len(fd_array) /\ Len(fd_array) \in Nat
        /\ \A i, j \in DOMAIN fd_array : fd_array[i].fd = fd_array[j].fd => i = j
        /\ \A i \in DOMAIN fd_array : fd_array[i].events # {} /\ fd_array[i] \in Entry
    BY DEF Registered
  <1> QED
    <2>1. CASE \E i \in DOMAIN fd_array : fd_array[i].fd = fd /\ SetExisting(i, ev, func)
      <3> PICK i \in DOMAIN fd_array : fd_array[i].fd = fd /\ SetExisting(i, ev, func)
        BY <2>1
      <3> DEFINE new == Updated(fd_array[i], ev, func)
      <3>1. new \in Entry /\ new.fd = fd
        BY <1>1, <1>2, UpdatedType
      <3>2. CASE new.events = {}
        <4>1. fd_array' = RemoveAt(fd_array, i) /\ count' = count - 1 /\ since_poll' = "moved"
          BY <3>2 DEF SetExisting
        <4>2. /\ fd_array' \in Seq(Entry) /\ Len(fd_array') = Len(fd_array) - 1
              /\ \A j \in 1 .. Len(fd_array) - 1 :
                   fd_array'[j] = IF j < i THEN fd_array[j] ELSE fd_array[j + 1]
          BY <1>2, <4>1, RemoveOne
        <4>3. DOMAIN fd_array' = 1 .. Len(fd_array) - 1 /\ DOMAIN fd_array = 1 .. Len(fd_array)
          BY <1>2, <4>2
        <4>4. \A j, k \in DOMAIN fd_array' : fd_array'[j].fd = fd_array'[k].fd => j = k
          <5> SUFFICES ASSUME NEW j \in DOMAIN fd_array', NEW k \in DOMAIN fd_array',
                              fd_array'[j].fd = fd_array'[k].fd
                       PROVE  j = k
            OBVIOUS
          <5> DEFINE Old(n) == IF n < i THEN n ELSE n + 1
          <5>1. Old(j) \in DOMAIN fd_array /\ Old(k) \in DOMAIN fd_array
            BY <1>2, <4>3
          <5>2. fd_array'[j] = fd_array[Old(j)] /\ fd_array'[k] = fd_array[Old(k)]
            BY <4>2, <4>3
          <5>3. Old(j) = Old(k)
            <6> HIDE DEF Old
            <6> QED BY <1>2, <5>1, <5>2
          <5> QED BY <1>2, <4>3, <5>3
        <4>5. \A j \in DOMAIN fd_array' : fd_array'[j].events # {}
          BY <1>2, <4>2, <4>3
        <4> QED BY <1>2, <4>1, <4>2, <4>3, <4>4, <4>5 DEF Registered
      <3>3. CASE new.events # {}
        <4>1. /\ fd_array' = [fd_array EXCEPT ![i] = new] /\ UNCHANGED count
              /\ since_poll' \in {"edited", "moved"}
          BY <3>3 DEF SetExisting
        <4>2. /\ fd_array' \in Seq(Entry) /\ Len(fd_array') = Len(fd_array)
              /\ DOMAIN fd_array' = DOMAIN fd_array
              /\ fd_array'[i] = new
              /\ \A j \in DOMAIN fd_array \ {i} : fd_array'[j] = fd_array[j]
          BY <1>2, <3>1, <4>1
        <4> HIDE DEF new
        <4>3. \A j, k \in DOMAIN fd_array' : fd_array'[j].fd = fd_array'[k].fd => j = k
          BY <1>2, <3>1, <4>2
        <4>4. \A j \in DOMAIN fd_array' : fd_array'[j].events # {}
          BY <1>2, <3>3, <4>2
        <4> QED BY <1>2, <4>1, <4>2, <4>3, <4>4 DEF Registered
      <3> QED BY <3>2, <3>3
    <2>2. CASE (\A i \in DOMAIN fd_array : fd_array[i].fd # fd) /\ SetNew(fd, ev, func)
      <3> DEFINE new == Updated(NewEntry(fd), ev, func)
      <3>1. new \in Entry /\ new.fd = fd
        <4>1. NewEntry(fd) \in Entry /\ NewEntry(fd).fd = fd
          BY DEF NewEntry, Entry
        <4> QED BY <1>1, <4>1, UpdatedType
      <3>2. CASE new.events = {}
        <4>1. UNCHANGED <<fd_array, count>> /\ since_poll' = "moved"
          BY <2>2, <3>2 DEF SetNew
        <4> QED BY <1>2, <4>1 DEF Registered
      <3>3. CASE new.events # {}
        <4>1. fd_array' = Append(fd_array, new) /\ count' = count + 1 /\ since_poll' = "moved"
          BY <2>2, <3>3 DEF SetNew
        <4> HIDE DEF new
        <4>2. /\ fd_array' \in Seq(Entry) /\ Len(fd_array') = Len(fd_array) + 1
              /\ fd_array'[Len(fd_array) + 1] = new
              /\ \A j \in DOMAIN fd_array : fd_array'[j] = fd_array[j]
              /\ DOMAIN fd_array' = DOMAIN fd_array \cup {Len(fd_array) + 1}
          BY <1>2, <3>1, <4>1
        <4>3. \A j, k \in DOMAIN fd_array' : fd_array'[j].fd = fd_array'[k].fd => j = k
          BY <1>2, <2>2, <3>1, <4>2
        <4>4. \A j \in DOMAIN fd_array' : fd_array'[j].events # {}
          BY <1>2, <3>3, <4>2
        <4> QED BY <1>2, <4>1, <4>2, <4>3, <4>4 DEF Registered
      <3> QED BY <3>2, <3>3
    <2> QED BY <2>1, <2>2 DEF fdselect_set

(* Every call raises the flag, leaves the loop where it is and keeps the   *)
(* array consistent.                                                       *)
LEMMA CallRegisters ==
  ASSUME fd_array \in Seq(Entry), Registered, since_poll \in {"none", "edited", "moved"}, Call
  PROVE  /\ fd_array' \in Seq(Entry) /\ count' \in Nat /\ Registered'
         /\ since_poll' \in {"none", "edited", "moved"}
         /\ select_break' = TRUE /\ CanCall /\ UNCHANGED loopVars
  <1>1. ASSUME NEW fd \in Fd, NEW events \in SUBSET Event, NEW func \in Func \cup {NoFunc},
               fdselect_set(fd, events, func)
        PROVE  /\ fd_array' \in Seq(Entry) /\ count' \in Nat /\ Registered'
               /\ since_poll' \in {"none", "edited", "moved"}
               /\ select_break' = TRUE /\ CanCall /\ UNCHANGED loopVars
    BY <1>1, SetRegisters DEF fdselect_set
  <1>2. CASE \E fd \in Fd, events \in EventArgs, func \in Func : fdselect_set(fd, events, func)
    BY <1>1, <1>2, FdselectAssumption
  <1>3. CASE \E fd \in Fd, events \in EventArgs : fdselect_unset(fd, events)
    <2>1. PICK fd \in Fd, events \in EventArgs : fdselect_unset(fd, events)
      BY <1>3
    <2>2. (IF events = {} THEN Event ELSE events) \in SUBSET Event
      BY FdselectAssumption
    <2> QED
      BY <1>1, <2>1, <2>2 DEF fdselect_unset
  <1>4. CASE fdselect_clear
    BY <1>4 DEF fdselect_clear, Registered
  <1>5. CASE fdselect_break
    BY <1>5 DEF fdselect_break, Registered
  <1> QED
    BY <1>2, <1>3, <1>4, <1>5 DEF Call

(* A move of the loop that leaves the registrations alone keeps IInv if it *)
(* keeps what Dispatch says of the new place.                              *)
LEMMA GotoIInv ==
  ASSUME IInv, NEW place \in Pc, NEW slot \in Nat, Goto(place, slot),
         place \in {"slot", "wcheck", "select"} => ~select_break,
         place \in {"read_cb", "wcheck", "write_cb"} => slot > 0,
         place # "app" /\ ~select_break =>
           /\ rfds \subseteq Interest("READ") /\ wfds \subseteq Interest("WRITE")
           /\ since_poll = "none" /\ slot <= Len(fd_array)
  PROVE  IInv'
  <1>1. TypeOK'
    BY DEF IInv, TypeOK, Goto
  <1>2. Registered'
    BY DEF IInv, Registered, Goto
  <1>3. Dispatch'
    BY DEF Dispatch, Goto, Interest
  <1> QED BY <1>1, <1>2, <1>3 DEF IInv

(* Every step keeps the inductive invariant.                               *)
LEMMA NextIInv == IInv /\ [Next]_vars => IInv'
  <1> SUFFICES ASSUME IInv, [Next]_vars PROVE IInv'
    OBVIOUS
  <1> USE DEF Pc
  <1>1. CASE Call
    <2>1. /\ fd_array' \in Seq(Entry) /\ count' \in Nat /\ Registered'
          /\ since_poll' \in {"none", "edited", "moved"}
          /\ select_break' = TRUE /\ CanCall /\ UNCHANGED loopVars
      BY <1>1, CallRegisters DEF IInv, TypeOK
    <2>2. TypeOK' /\ Dispatch'
      BY <2>1 DEF loopVars, CanCall, IInv, TypeOK, Dispatch
    <2> QED
      BY <2>1, <2>2 DEF IInv
  <1>2. CASE fdselect_select
    <2>1. TypeOK' /\ Registered'
      <3>1. Interest("READ") \subseteq Fd /\ Interest("WRITE") \subseteq Fd
        <4>1. \A i \in DOMAIN fd_array : fd_array[i] \in Entry
          BY DEF IInv, TypeOK
        <4>2. \A i \in DOMAIN fd_array : fd_array[i].fd \in Fd
          BY <4>1 DEF Entry
        <4> QED BY <4>2 DEF Interest
      <3> QED BY <1>2, <3>1 DEF fdselect_select, IInv, TypeOK, Registered
    <2>2. Dispatch'
      BY <1>2 DEF fdselect_select, Dispatch, Interest
    <2> QED BY <2>1, <2>2 DEF IInv
  <1>3. CASE SelectReturn
    <2>1. TypeOK' /\ Registered'
      BY <1>3 DEF SelectReturn, IInv, TypeOK, Registered
    <2>2. Dispatch'
      <3>1. since_poll = "none" /\ ~select_break /\ rfds \subseteq Interest("READ") /\ wfds \subseteq Interest("WRITE")
        BY <1>3 DEF SelectReturn, IInv, Dispatch
      <3>2. Len(fd_array) \in Nat
        BY DEF IInv, TypeOK
      <3> QED BY <1>3, <3>1, <3>2 DEF SelectReturn, Dispatch, Interest
    <2> QED BY <2>1, <2>2 DEF IInv
  <1>4. CASE SelectNothing
    BY <1>4 DEF SelectNothing, IInv, TypeOK, Registered, Dispatch, Interest
  <1>5. CASE SlotRead \/ ReadReturn \/ SlotWrite \/ WriteReturn \/ LoopEnd
    <2>1. cur \in Nat /\ select_break \in BOOLEAN /\ Len(fd_array) \in Nat
      BY DEF IInv, TypeOK
    <2>2. CASE SlotRead
      BY <2>1, <2>2, GotoIInv DEF SlotRead, IInv, Dispatch
    <2>3. CASE ReadReturn
      BY <2>1, <2>3, GotoIInv DEF ReadReturn, IInv, Dispatch
    <2>4. CASE SlotWrite
      BY <2>1, <2>4, GotoIInv DEF SlotWrite, IInv, Dispatch
    <2>5. CASE WriteReturn
      BY <2>1, <2>5, GotoIInv DEF WriteReturn, IInv, Dispatch
    <2>6. CASE LoopEnd
      BY <2>1, <2>6, GotoIInv DEF LoopEnd, IInv, Dispatch
    <2> QED BY <1>5, <2>2, <2>3, <2>4, <2>5, <2>6
  <1>6. CASE Kernel
    <2>1. TypeOK'
      BY <1>6 DEF Kernel, IInv, TypeOK
    <2>2. Registered' /\ Dispatch'
      BY <1>6 DEF Kernel, IInv, Registered, Dispatch, Interest
    <2> QED BY <2>1, <2>2 DEF IInv
  <1>7. CASE UNCHANGED vars
    BY <1>7 DEF vars, IInv, TypeOK, Registered, Dispatch, Interest
  <1> QED BY <1>1, <1>2, <1>3, <1>4, <1>5, <1>6, <1>7 DEF Next, Loop

(* fdselect keeps its inductive invariant in every reachable state.        *)
THEOREM Inductive == Spec => []IInv
  BY InitIInv, NextIInv, PTL DEF Spec

(* Type correctness of fdselect, for any number of descriptors.            *)
THEOREM TypeCorrect == Spec => []TypeOK
  BY Inductive, PTL DEF IInv

(* fdselect_set keeps one slot per descriptor and an exact count.          *)
THEOREM RegistrationsConsistent == Spec => []Registered
  BY Inductive, PTL DEF IInv

(* The walk of fdselect_select_os never dereferences a slot pointer that a *)
(* callback has invalidated.                                               *)
THEOREM SlotAlwaysValid == Spec => []SlotValid
  <1>1. IInv => SlotValid
    BY DEF IInv, TypeOK, Dispatch, SlotValid
  <1> QED BY <1>1, Inductive, PTL

(* A callback is only ever called on a registration that select(2) was     *)
(* asked about in this pass.                                               *)
THEOREM CallbacksPolled == Spec => CallsOnlyPolled
  <1> DEFINE Step ==
        /\ pc' = "read_cb" /\ pc # "read_cb"
            => Wants(fd_array[cur].fd, "READ") /\ since_poll = "none"
        /\ pc' = "write_cb" /\ pc # "write_cb"
            => Wants(fd_array[cur].fd, "WRITE") /\ since_poll = "none"
  <1>1. IInv /\ [Next]_vars => [Step]_vars
    <2> SUFFICES ASSUME IInv, Next PROVE Step
      BY DEF vars
    <2>1. CASE SlotRead
      <3>1. pc = "slot" /\ ~select_break /\ rfds \subseteq Interest("READ") /\ since_poll = "none"
        BY <2>1 DEF SlotRead, IInv, Dispatch
      <3>2. fd_array[cur].fd \in rfds => Wants(fd_array[cur].fd, "READ")
        BY <3>1 DEF Interest, Wants
      <3> QED BY <2>1, <3>1, <3>2 DEF SlotRead, Goto
    <2>2. CASE SlotWrite
      <3>1. pc = "wcheck" /\ ~select_break /\ wfds \subseteq Interest("WRITE") /\ since_poll = "none"
        BY <2>2 DEF SlotWrite, IInv, Dispatch
      <3>2. fd_array[cur].fd \in wfds => Wants(fd_array[cur].fd, "WRITE")
        BY <3>1 DEF Interest, Wants
      <3> QED BY <2>2, <3>1, <3>2 DEF SlotWrite, Goto
    <2>3. CASE Call
      BY <2>3 DEF Call, fdselect_set, fdselect_unset, fdselect_clear, fdselect_break, loopVars
    <2>4. CASE fdselect_select \/ SelectNothing \/ SelectReturn
      BY <2>4 DEF fdselect_select, SelectNothing, SelectReturn
    <2>5. CASE ReadReturn \/ WriteReturn \/ LoopEnd
      BY <2>5 DEF ReadReturn, WriteReturn, LoopEnd, Goto
    <2>6. CASE Kernel
      BY <2>6 DEF Kernel
    <2> QED BY <2>1, <2>2, <2>3, <2>4, <2>5, <2>6 DEF Next, Loop
  <1>2. Spec => [][Step]_vars
    BY <1>1, Inductive, PTL DEF Spec
  <1> QED BY <1>2 DEF CallsOnlyPolled

-----------------------------------------------------------------------------
(* The loop on Windows.                                                    *)
LEMMA WinInitIInv == WinInit => WinIInv
  <1> SUFFICES ASSUME WinInit PROVE WinIInv
    OBVIOUS
  <1>1. WinTypeOK
    <2>1. fd_array \in Seq(Entry)
      BY DEF WinInit, Init
    <2> QED
      BY <2>1 DEF WinInit, Init, WinTypeOK, Pc
  <1>2. Registered /\ WinDispatch /\ Recording
    BY DEF WinInit, Init, Registered, WinDispatch, Recording
  <1> QED
    BY <1>1, <1>2 DEF WinIInv

(* A call takes away the event objects of the slots that it changes, and   *)
(* with them what was recorded: it closes them, or fdselect_clear forgets  *)
(* them.                                                                   *)
LEMMA WinCallIInv ==
  ASSUME ~HandleCalls, WinIInv, WinCall
  PROVE  WinIInv'
  <1>1. /\ fd_array' \in Seq(Entry) /\ count' \in Nat /\ Registered'
        /\ since_poll' \in {"none", "edited", "moved"}
        /\ select_break' = TRUE /\ CanCall /\ UNCHANGED loopVars
    <2>1. Call
      BY DEF WinCall, Call
    <2> QED
      BY <2>1, CallRegisters DEF WinIInv, WinTypeOK
  <1>2. /\ pc' = pc /\ cur' = cur /\ pc \in {"app", "read_cb", "write_cb"} /\ in_handle' = in_handle
        /\ pc # "app" => ~in_handle
    BY <1>1 DEF CanCall, loopVars, WinCall
  <1> DEFINE kept == {fd \in os_event : \A e \in Event :
                        Wants(fd, e) <=> \E i \in DOMAIN fd_array' :
                                           fd_array'[i].fd = fd /\ e \in fd_array'[i].events}
  <1>4. /\ os_event \cap Handle = {} /\ net \subseteq os_event \X {"READ", "WRITE"}
        /\ kept \subseteq os_event
    BY DEF WinIInv, WinTypeOK
  <1>3. PICK same \in SUBSET kept :
          /\ os_event' = same /\ signaled' \cap (same \cup Handle) = signaled \cap (same \cup Handle)
          /\ net' = {e \in net : e[1] \in same}
    <2>1. CASE FreeOsEvents
      BY <2>1 DEF FreeOsEvents
    <2>2. CASE fdselect_clear /\ LeaveOsEvents
      BY <2>2 DEF LeaveOsEvents
    <2>3. CASE fdselect_break /\ UNCHANGED osVars
      <3>1. fd_array' = fd_array /\ net' = net /\ signaled' = signaled /\ os_event' = os_event
        BY <2>3 DEF fdselect_break, osVars
      <3>2. kept = os_event
        BY <3>1 DEF Wants
      <3>3. \A e \in net : e[1] \in os_event
        BY <1>4
      <3> QED
        BY <3>1, <3>2, <3>3
    <2> QED
      BY <2>1, <2>2, <2>3 DEF WinCall
  <1>5. WinTypeOK'
    <2>1. net' \subseteq os_event' \X {"READ", "WRITE"} /\ os_event' \cap Handle = {}
      <3> HIDE DEF kept
      <3> QED
        BY <1>3, <1>4
    <2> QED
      BY <1>1, <1>2, <2>1 DEF WinIInv, WinTypeOK
  <1>6. WinDispatch'
    BY <1>1, <1>2 DEF WinIInv, WinDispatch
  <1>7. Recording'
    <2> SUFFICES ASSUME NEW e \in net' PROVE Wants(e[1], e[2])' /\ e[1] \in signaled'
      BY DEF Recording
    <2>1. e \in net /\ e[1] \in same /\ e[2] \in {"READ", "WRITE"} /\ e[2] \in Event
      BY <1>3, <1>4 DEF Event
    <2>2. Wants(e[1], e[2]) /\ e[1] \in signaled
      BY <1>2, <2>1 DEF WinIInv, Recording
    <2>3. e[1] \in signaled'
      <3> HIDE DEF kept
      <3> QED
        BY <1>3, <2>1, <2>2
    <2> QED
      BY <2>1, <2>2, <2>3 DEF Wants
  <1> QED
    BY <1>1, <1>5, <1>6, <1>7 DEF WinIInv

(* The event objects that are made before the wait are set for what can be *)
(* read already.                                                           *)
LEMMA WinSelectIInv ==
  ASSUME WinIInv, WinSelect
  PROVE  WinIInv'
  <1>1. /\ fd_array' = fd_array /\ count' = count /\ cur' = cur /\ in_handle' = in_handle
        /\ pc = "app" /\ pc' = "select" /\ select_break' = FALSE /\ since_poll' = "none"
        /\ os_event' = os_event \cup Fresh
        /\ signaled' = signaled \cup SetEvent
        /\ net' = net \cup {e \in Fresh \X {"READ"} : Wants(e[1], "READ") /\ e \in ready}
    BY DEF WinSelect
  <1>2. Fresh \cap Handle = {}
    BY DEF Fresh
  <1>3. WinTypeOK'
    <2>1. os_event' \cap Handle = {} /\ net' \subseteq os_event' \X {"READ", "WRITE"}
      BY <1>1, <1>2 DEF WinIInv, WinTypeOK
    <2> QED
      BY <1>1, <2>1 DEF WinIInv, WinTypeOK, Pc
  <1>4. Registered' /\ WinDispatch'
    BY <1>1 DEF WinIInv, Registered, WinDispatch
  <1>5. Recording'
    <2> SUFFICES ASSUME NEW e \in net' PROVE Wants(e[1], e[2])' /\ e[1] \in signaled'
      BY DEF Recording
    <2>1. CASE e \in net
      BY <1>1, <2>1 DEF WinIInv, Recording, Wants
    <2>2. CASE e \in Fresh \X {"READ"} /\ Wants(e[1], "READ") /\ e \in ready
      <3>1. e[1] \in Fresh /\ e[2] = "READ" /\ e = <<e[1], "READ">>
        BY <2>2
      <3>2. e[1] \in SetEvent
        BY <2>2, <3>1 DEF SetEvent
      <3> QED
        BY <1>1, <2>2, <3>1, <3>2 DEF Wants
    <2> QED
      BY <1>1, <2>1, <2>2
  <1> QED
    BY <1>3, <1>4, <1>5 DEF WinIInv

(* A step of the loop that leaves what Windows has set alone.              *)
LEMMA WinGotoIInv ==
  ASSUME WinIInv, NEW place \in {"app", "slot", "read_cb", "wcheck", "write_cb"},
         NEW slot \in Nat, Goto(place, slot),
         UNCHANGED <<os_event, net, signaled, in_handle>>,
         \A e \in net : e[1] \in signaled,
         place # "app" => slot > 0,
         place = "wcheck" => ~select_break,
         place # "app" /\ ~select_break => since_poll = "none",
         place \in {"read_cb", "wcheck", "write_cb"} /\ ~select_break => slot <= Len(fd_array),
         place # "app" /\ in_handle => ~select_break
  PROVE  WinIInv'
  <1>1. WinTypeOK'
    BY DEF WinIInv, WinTypeOK, Goto, Pc
  <1>2. Registered'
    BY DEF WinIInv, Registered, Goto
  <1>3. WinDispatch'
    BY DEF WinDispatch, Goto
  <1>4. Recording'
    BY DEF WinIInv, Recording, Goto, Wants
  <1> QED
    BY <1>1, <1>2, <1>3, <1>4 DEF WinIInv

(* The wait ends: the object is reset, and the slot that it stands for is  *)
(* where the loop begins.                                                  *)
LEMMA WaitReturnIInv ==
  ASSUME WinIInv, WaitReturn
  PROVE  WinIInv'
  <1>1. PICK i \in DOMAIN fd_array :
          /\ fd_array[i].fd \in signaled
          /\ signaled' = signaled \ ({fd_array[i].fd} \ Handle)
          /\ in_handle' = (fd_array[i].fd \in Handle)
          /\ Goto(IF fd_array[i].fd \in Handle THEN "handle" ELSE "slot", i)
    BY DEF WaitReturn
  <1>2. /\ pc = "select" /\ ~select_break /\ since_poll = "none"
        /\ os_event' = os_event /\ net' = net
        /\ fd_array' = fd_array /\ count' = count /\ select_break' = select_break
        /\ since_poll' = since_poll /\ cur' = i
        /\ pc' = IF fd_array[i].fd \in Handle THEN "handle" ELSE "slot"
    BY <1>1 DEF WaitReturn, Goto, WinIInv, WinTypeOK, WinDispatch
  <1>3. i \in Nat /\ i > 0 /\ i <= Len(fd_array)
    BY DEF WinIInv, WinTypeOK
  <1>4. WinTypeOK'
    BY <1>1, <1>2, <1>3 DEF WinIInv, WinTypeOK, Pc
  <1>5. Registered' /\ WinDispatch'
    BY <1>1, <1>2, <1>3 DEF WinIInv, Registered, WinDispatch
  <1>6. Recording'
    <2> SUFFICES ASSUME NEW e \in net
                 PROVE  /\ Wants(e[1], e[2])
                        /\ e[1] \in signaled' \/ (pc' = "slot" /\ fd_array[i].fd = e[1])
      BY <1>2 DEF Recording, Wants
    <2>1. Wants(e[1], e[2]) /\ e[1] \in signaled /\ e[1] \notin Handle
      BY <1>2 DEF WinIInv, WinTypeOK, Recording
    <2> QED
      BY <1>1, <1>2, <2>1
  <1> QED
    BY <1>4, <1>5, <1>6 DEF WinIInv

(* A slot is looked at: what was recorded of it is taken.                  *)
LEMMA SlotIInv ==
  ASSUME WinIInv, Slot
  PROVE  WinIInv'
  <1>1. /\ pc = "slot" /\ cur \in Nat /\ cur > 0 /\ Len(fd_array) \in Nat
        /\ DOMAIN fd_array = 1..Len(fd_array)
        /\ ~select_break => since_poll = "none"
        /\ in_handle => ~select_break
    BY DEF Slot, WinIInv, WinTypeOK, WinDispatch
  <1>2. CASE select_break \/ cur > Len(fd_array)
    <2>1. Goto("app", 0) /\ UNCHANGED <<osVars, in_handle>>
      BY <1>2 DEF Slot
    <2>2. \A e \in net : e[1] \in signaled
      BY <1>1, <1>2 DEF WinIInv, Recording
    <2> QED
      BY <2>1, <2>2, WinGotoIInv DEF osVars
  <1>3. CASE ~select_break /\ cur <= Len(fd_array) /\ fd_array[cur].fd \in Handle
    <2>1. Goto("slot", cur + 1) /\ UNCHANGED <<osVars, in_handle>>
      BY <1>1, <1>3 DEF Slot
    <2>2. \A e \in net : e[1] \in signaled
      BY <1>3 DEF WinIInv, WinTypeOK, Recording
    <2> QED
      BY <1>1, <1>3, <2>1, <2>2, WinGotoIInv DEF osVars
  <1>4. CASE ~select_break /\ cur <= Len(fd_array) /\ fd_array[cur].fd \notin Handle
    <2>1. PICK place \in {"read_cb", "wcheck"} : Goto(place, cur)
      BY <1>1, <1>4 DEF Slot
    <2>2. /\ signaled' = signaled \ {fd_array[cur].fd}
          /\ net' = net \ ({fd_array[cur].fd} \X Event)
          /\ in_handle' = FALSE /\ os_event' = os_event
      BY <1>1, <1>4 DEF Slot
    <2>3. /\ fd_array' = fd_array /\ count' = count /\ select_break' = select_break
          /\ since_poll' = since_poll /\ pc' = place /\ cur' = cur
      BY <2>1 DEF Goto
    <2>4. WinTypeOK'
      BY <2>2, <2>3 DEF WinIInv, WinTypeOK, Pc
    <2>5. Registered' /\ WinDispatch'
      BY <1>1, <1>4, <2>2, <2>3 DEF WinIInv, Registered, WinDispatch
    <2>6. Recording'
      <3> SUFFICES ASSUME NEW e \in net' PROVE Wants(e[1], e[2]) /\ e[1] \in signaled'
        BY <2>3 DEF Recording, Wants
      <3>1. e \in net /\ e = <<e[1], e[2]>> /\ e[2] \in Event
        BY <2>2 DEF WinIInv, WinTypeOK, Event
      <3>2. e[1] # fd_array[cur].fd
        BY <2>2, <3>1
      <3> QED
        BY <2>2, <3>1, <3>2 DEF WinIInv, Recording
    <2> QED
      BY <2>4, <2>5, <2>6 DEF WinIInv
  <1> QED
    BY <1>1, <1>2, <1>3, <1>4

(* Windows records an event and sets the object in one step.               *)
LEMMA WinKernelIInv ==
  ASSUME WinIInv, WinKernel
  PROVE  WinIInv'
  <1>1. /\ fd_array' = fd_array /\ count' = count /\ select_break' = select_break /\ pc' = pc
        /\ cur' = cur /\ since_poll' = since_poll /\ os_event' = os_event
        /\ in_handle' = in_handle
    BY DEF WinKernel
  <1>2. PICK fd \in Fd, e \in {"READ", "WRITE"} :
          Recorded(fd, e) \/ UNCHANGED <<net, signaled>>
    BY DEF WinKernel
  <1>3. CASE fd \in os_event /\ Wants(fd, e) /\ net' = net \cup {<<fd, e>>}
             /\ signaled' = signaled \cup {fd}
    <2>1. WinTypeOK'
      BY <1>1, <1>3 DEF WinIInv, WinTypeOK
    <2>2. Registered' /\ WinDispatch'
      BY <1>1 DEF WinIInv, Registered, WinDispatch
    <2>3. Recording'
      BY <1>1, <1>3 DEF WinIInv, Recording, Wants
    <2> QED
      BY <2>1, <2>2, <2>3 DEF WinIInv
  <1>4. CASE UNCHANGED <<net, signaled>>
    BY <1>1, <1>4 DEF WinIInv, WinTypeOK, Registered, WinDispatch, Recording, Wants
  <1> QED
    BY <1>2, <1>3, <1>4 DEF Recorded

LEMMA WinNextIInv ==
  ASSUME ~HandleCalls
  PROVE  WinIInv /\ [WinNext]_winVars => WinIInv'
  <1> SUFFICES ASSUME WinIInv, [WinNext]_winVars PROVE WinIInv'
    OBVIOUS
  <1>1. /\ cur \in Nat /\ select_break \in BOOLEAN /\ Len(fd_array) \in Nat
        /\ DOMAIN fd_array = 1..Len(fd_array)
        /\ pc # "slot" => \A e \in net : e[1] \in signaled
    BY DEF WinIInv, WinTypeOK, Recording
  <1>2. CASE WinCall
    BY <1>2, WinCallIInv
  <1>3. CASE WinSelect
    BY <1>3, WinSelectIInv
  <1>4. CASE WaitReturn
    BY <1>4, WaitReturnIInv
  <1>5. CASE Slot
    BY <1>5, SlotIInv
  <1>6. CASE HandleRead
    BY <1>1, <1>6, WinGotoIInv DEF HandleRead, osVars, WinIInv, WinDispatch
  <1>7. CASE WinReadReturn
    BY <1>1, <1>7, WinGotoIInv DEF WinReadReturn, AfterRead, osVars, WinIInv, WinDispatch
  <1>8. CASE WriteCheck
    BY <1>1, <1>8, WinGotoIInv DEF WriteCheck, osVars, WinIInv, WinDispatch
  <1>9. CASE WinWriteReturn
    BY <1>1, <1>9, WinGotoIInv DEF WinWriteReturn, osVars, WinIInv, WinDispatch
  <1>10. CASE WaitTimeout
    BY <1>1, <1>10 DEF WaitTimeout, SelectNothing, osVars, WinIInv, WinTypeOK, Registered,
                       WinDispatch, Recording, Wants, Pc
  <1>11. CASE WinKernel
    BY <1>11, WinKernelIInv
  <1>12. CASE HandleSet
    <2>1. PICK fd \in Handle : signaled' \in {signaled \cup {fd}, signaled \ {fd}}
      BY <1>12 DEF HandleSet
    <2>2. /\ UNCHANGED <<vars, os_event, net, in_handle>>
          /\ \A e \in net : e[1] \in signaled => e[1] \in signaled'
      BY <1>12, <2>1 DEF HandleSet, WinIInv, WinTypeOK
    <2> QED
      BY <2>2 DEF vars, WinIInv, WinTypeOK, Registered, WinDispatch, Recording, Wants
  <1>13. CASE UNCHANGED winVars
    BY <1>13 DEF winVars, vars, osVars, WinIInv, WinTypeOK, Registered, WinDispatch, Recording, Wants
  <1> QED
    BY <1>2, <1>3, <1>4, <1>5, <1>6, <1>7, <1>8, <1>9, <1>10, <1>11, <1>12, <1>13
    DEF WinNext, WinLoop

LEMMA WinIInvImplies == WinIInv => WinSlotValid /\ ReadNoticed
  BY DEF WinIInv, WinTypeOK, WinDispatch, Recording, WinSlotValid, ReadNoticed
=============================================================================
