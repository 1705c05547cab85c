------------------------------- MODULE State -------------------------------
(***************************************************************************)
(* state.c: a table of states, each with a number of tries, the time       *)
(* between them and the state that follows when they are used up.  The     *)
(* program polls, and changes the state itself when something happens.     *)
(***************************************************************************)
EXTENDS Integers, Sequences, FiniteSetsExt

CONSTANTS
  Table,    (* the table: [state, interval, max, next] up to the end mark  *)
  MaxNow    (* bound: the time                                             *)

(* A table that the program may have.                                      *)
Row == [state : STRING, interval : Nat, max : Nat \ {0}, next : STRING]
TableAssumption == Table \in Seq(Row) /\ Table # <<>>

VARIABLES
  current,                    (* index into the table                      *)
  retry_timeout, retry_count,
  now,
  (* kept of the polls since the state was entered                         *)
  tried,    (* when RETRY was returned                                     *)
  entered,  (* the state was entered by state_set, not by state_init       *)
  left      (* how often the state before was tried, when a poll left it   *)

vars == <<current, retry_timeout, retry_count, now, tried, entered, left>>

(* memset: no tries are left in the state a program begins with.           *)
state_init ==
  /\ current = 1
  /\ retry_timeout = 0 /\ retry_count = 0
  /\ now = 0
  /\ tried = <<>> /\ entered = FALSE /\ left = <<>>

(* The first entry of this state, if there is one.                         *)
IndexOf(state) == {i \in DOMAIN Table : Table[i].state = state}

(* Mutant: one try is gone before the first poll.                          *)
OneTryLess(i) == Table[i].max - 1

TriesOf(i) == Table[i].max

(* The values that state_set leaves, or those there were.                  *)
Entered(state) ==
  IF IndexOf(state) = {} THEN [ok |-> FALSE, current |-> current, timeout |-> retry_timeout, count |-> retry_count]
  ELSE LET i == Min(IndexOf(state))
       IN  [ok |-> TRUE, current |-> i, timeout |-> 0, count |-> TriesOf(i)]

state_set(state) ==
  \E new \in {Entered(state)} :
    /\ current' = new.current /\ retry_timeout' = new.timeout /\ retry_count' = new.count
    /\ tried' = IF new.ok THEN <<>> ELSE tried
    /\ entered' = (new.ok \/ entered)
    /\ left' = <<>>
    /\ UNCHANGED now

(* NOOP and TIMEOUT change nothing.  That the next state is not in the     *)
(* table is not looked at: this one goes on with a count below zero.       *)
state_poll(timeout_next) ==
  /\ now >= retry_timeout
  /\ retry_count > 0 \/ timeout_next
  /\ \E st \in {IF retry_count <= 0 THEN Entered(Table[current].next)
                ELSE [ok |-> FALSE, current |-> current, timeout |-> retry_timeout, count |-> retry_count]} :
       /\ current' = st.current
       /\ retry_count' = st.count - 1
       /\ retry_timeout' = now + Table[st.current].interval
       /\ tried' = IF st.ok THEN <<now>> ELSE Append(tried, now)
       /\ entered' = (st.ok \/ entered)
       /\ left' = IF st.ok /\ entered THEN <<Table[current].max, Len(tried)>> ELSE <<>>
  /\ UNCHANGED now

Tick ==
  /\ now < MaxNow
  /\ now' = now + 1
  /\ UNCHANGED <<current, retry_timeout, retry_count, tried, entered, left>>

Next ==
  \/ \E i \in DOMAIN Table : state_set(Table[i].state)
  \/ \E timeout_next \in BOOLEAN : Len(tried) < MaxNow /\ state_poll(timeout_next)
  \/ Tick

Spec == state_init /\ [][Next]_vars

-----------------------------------------------------------------------------
(* state.h: a state that was set is tried exactly its retry_max times, no  *)
(* two tries closer than its interval, before polls go on to the state     *)
(* after it; where that one is not in the table, it is tried for ever.     *)
TriedInTime ==
  /\ left # <<>> => left[1] = left[2]
  /\ \A i \in 1..(Len(tried) - 1) : tried[i + 1] - tried[i] >= Table[current].interval

-----------------------------------------------------------------------------
Shapes ==
  /\ current \in DOMAIN Table
  /\ retry_timeout \in Int /\ retry_count \in Int /\ now \in Nat
  /\ tried \in Seq(Nat)
  /\ entered \in BOOLEAN

(* The count is what is left of the tries, and falls below zero only where *)
(* there is no state to go on to; the timeout is an interval behind the    *)
(* last try; and a state that has just been left was tried max times.      *)
CountInv ==
  /\ entered => retry_count = Table[current].max - Len(tried)
  /\ entered /\ retry_count < 0 => IndexOf(Table[current].next) = {}
  /\ tried # <<>> => retry_timeout = tried[Len(tried)] + Table[current].interval

IInv == Shapes /\ CountInv /\ TriedInTime
=============================================================================
