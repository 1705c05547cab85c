---------------------------- MODULE SystemProofs ----------------------------
(***************************************************************************)
(* Proofs about the parts that MCSystem.tla puts side by side, for every   *)
(* value of their constants.  Every part has an inductive invariant in its *)
(* own module: K!IInv of CryptBk, T!IInv of State, P!IInv of Proc, W!IInv  *)
(* of ProcPipe, R!IInv of ProcWin and V!IInv of ServiceWin are shown here; *)
(* H!IInv of the server and F!WinIInv of the loop on Windows in the        *)
(* modules they are instances of.  What the parts keep, the whole keeps,   *)
(* since a behaviour of it is one of a part and the part never changes.    *)
(* The part that MCSystem.tla extends, SendList, comes last: what          *)
(* SentInOrder says holds for any lengths, any number of sendbufs and any  *)
(* depth of calls, as long as no free_func sends; the run sendlist_reenter *)
(* shows what happens when one does.                                       *)
(***************************************************************************)
EXTENDS MCSystem, FiniteSetTheorems, SequenceTheorems, WellFoundedInduction, TLAPS

-----------------------------------------------------------------------------
(* state.c.  The loop of state_set ends at a state of the table.           *)
LEMMA FirstOfTable ==
  ASSUME T!TableAssumption, NEW state, T!IndexOf(state) # {}
  PROVE  T!Min(T!IndexOf(state)) \in DOMAIN Table
<1>1. T!IndexOf(state) \subseteq DOMAIN Table /\ DOMAIN Table \subseteq Nat
  BY DEF T!IndexOf, T!TableAssumption
<1> DEFINE Before == OpToRel(<, Nat)
<1>2. \A i, j \in Nat : i < j => <<i, j>> \in Before
  BY DEF OpToRel
<1> HIDE DEF Before
<1>3. \E i \in T!IndexOf(state) : \A j \in T!IndexOf(state) : ~(<<j, i>> \in Before)
  <2>1. IsWellFoundedOn(Before, Nat)
    BY NatLessThanWellFounded DEF Before
  <2>2. T!IndexOf(state) \subseteq Nat
    BY <1>1
  <2> QED
    BY <2>1, <2>2, WFMin
<1>4. \E i \in T!IndexOf(state) : \A j \in T!IndexOf(state) : i =< j
  <2>1. PICK i \in T!IndexOf(state) : \A j \in T!IndexOf(state) : ~(<<j, i>> \in Before)
    BY <1>3
  <2>2. ASSUME NEW j \in T!IndexOf(state) PROVE i =< j
    <3>1. i \in Nat /\ j \in Nat
      BY <1>1
    <3>2. ~(j < i)
      BY <1>2, <2>1, <3>1
    <3> QED
      BY <3>1, <3>2
  <2> QED
    BY <2>2
<1> QED
  BY <1>1, <1>4 DEF T!Min

LEMMA RowOfTable ==
  ASSUME T!TableAssumption, NEW i \in DOMAIN Table
  PROVE  Table[i].interval \in Nat /\ Table[i].max \in Nat \ {0}
<1>1. Table[i] \in T!Row
  BY DEF T!TableAssumption
<1> QED
  BY <1>1 DEF T!Row

LEMMA StateInitIInv ==
  ASSUME T!TableAssumption, T!state_init
  PROVE  T!IInv
<1>1. 1 \in DOMAIN Table
  BY DEF T!TableAssumption
<1>2. <<>> \in Seq(Nat) /\ Len(<<>>) = 0
  OBVIOUS
<1>3. T!Shapes
  <2>1. v1 \in DOMAIN Table
    BY <1>1 DEF T!state_init
  <2>2. v2 \in Int /\ v3 \in Int /\ v4 \in Nat
    BY DEF T!state_init
  <2>3. v5 \in Seq(Nat)
    BY <1>2 DEF T!state_init
  <2>4. v6 \in BOOLEAN
    BY DEF T!state_init
  <2> QED
    BY <2>1, <2>2, <2>3, <2>4 DEF T!Shapes
<1>4. T!CountInv /\ T!TriedInTime
  BY <1>2 DEF T!state_init, T!CountInv, T!TriedInTime
<1> QED
  BY <1>3, <1>4 DEF T!IInv

(* A state that is set begins with all of its tries.                       *)
LEMMA SetIInv ==
  ASSUME T!TableAssumption, T!IInv, NEW i \in DOMAIN Table, T!state_set(Table[i].state)
  PROVE  T!IInv'
<1>1. T!IndexOf(Table[i].state) # {}
  BY DEF T!IndexOf
<1>2. /\ v1' = T!Min(T!IndexOf(Table[i].state))
      /\ v2' = 0 /\ v3' = Table[v1'].max
      /\ v5' = <<>> /\ v6' = TRUE /\ v7' = <<>> /\ v4' = v4
  <2> DEFINE new == T!Entered(Table[i].state)
  <2>1. /\ new.ok /\ new.current = T!Min(T!IndexOf(Table[i].state))
        /\ new.timeout = 0 /\ new.count = Table[new.current].max
    BY <1>1 DEF T!Entered, T!TriesOf
  <2>2. /\ v1' = new.current /\ v2' = new.timeout
        /\ v3' = new.count
        /\ v5' = IF new.ok THEN <<>> ELSE v5
        /\ v6' = (new.ok \/ v6) /\ v7' = <<>> /\ v4' = v4
    BY DEF T!state_set
  <2> QED
    BY <2>1, <2>2 DEF T!IInv, T!Shapes
<1>3. v1' \in DOMAIN Table
  BY <1>1, <1>2, FirstOfTable
<1> QED
  BY <1>2, <1>3, RowOfTable DEF T!IInv, T!Shapes, T!CountInv, T!TriedInTime

(* A poll counts one try, of this state or of the one that it goes on to.  *)
LEMMA PollIInv ==
  ASSUME T!TableAssumption, T!IInv, NEW timeout_next \in BOOLEAN, T!state_poll(timeout_next)
  PROVE  T!IInv'
<1> USE DEF T!IInv, T!Shapes, T!CountInv, T!TriedInTime
<1>1. /\ v4 >= v2 /\ v4' = v4 /\ v4 \in Nat
      /\ \A i \in DOMAIN Table : Table[i].interval \in Nat /\ Table[i].max \in Nat \ {0}
  <2>1. \A i \in DOMAIN Table : Table[i].interval \in Nat /\ Table[i].max \in Nat \ {0}
    BY RowOfTable
  <2> QED
    BY <2>1 DEF T!state_poll
<1> DEFINE Moves == v3 <= 0 /\ T!IndexOf(Table[v1].next) # {}
<1>2. CASE Moves
  <2> DEFINE i == T!Min(T!IndexOf(Table[v1].next))
  <2>1. i \in DOMAIN Table
    BY <1>2, FirstOfTable
  <2>2. /\ v1' = i
        /\ v3' = Table[i].max - 1
        /\ v2' = v4 + Table[i].interval
        /\ v5' = <<v4>>
        /\ v6' = TRUE
        /\ v7' = IF v6 THEN <<Table[v1].max, Len(v5)>> ELSE <<>>
    BY <1>2 DEF T!state_poll, T!Entered, T!TriesOf
  <2>3. v6 => Len(v5) = Table[v1].max
    BY <1>1, <1>2
  <2> HIDE DEF i
  <2>4. T!Shapes'
    BY <1>1, <2>1, <2>2
  <2>5. T!CountInv'
    <3>1. Table[i].max \in Nat \ {0} /\ v1' = i /\ v3' = Table[i].max - 1
      BY <1>1, <2>1, <2>2
    <3>2. Len(v5') = 1 /\ v5'[1] = v4 /\ v2' = v4 + Table[i].interval
      BY <2>2
    <3> HIDE DEF T!IInv, T!Shapes, T!TriedInTime
    <3>3. v3' = Table[v1'].max - Len(v5') /\ ~(v3' < 0)
      BY <3>1, <3>2
    <3>4. v2' = v5'[Len(v5')] + Table[v1'].interval
      BY <3>1, <3>2
    <3> QED
      BY <3>3, <3>4
  <2>6. T!TriedInTime'
    BY <1>1, <2>2, <2>3
  <2> QED
    BY <2>4, <2>5, <2>6
<1>3. CASE ~Moves
  <2>1. /\ v1' = v1
        /\ v3' = v3 - 1
        /\ v2' = v4 + Table[v1].interval
        /\ v5' = Append(v5, v4)
        /\ v6' = v6
        /\ v7' = <<>>
    BY <1>3 DEF T!state_poll, T!Entered
  <2>2. T!Shapes' /\ Len(v5') = Len(v5) + 1 /\ v5'[Len(v5')] = v4
    BY <1>1, <2>1
  <2>3. T!CountInv'
    <3>1. v6' => v3' = Table[v1'].max - Len(v5')
      <4>1. Len(v5) \in Nat /\ Table[v1].max \in Nat
        BY <1>1
      <4> QED
        BY <2>1, <2>2, <4>1
    <3>2. v6' /\ v3' < 0 => T!IndexOf(Table[v1'].next) = {}
      BY <1>3, <2>1
    <3>3. v5' # <<>> => v2' = v5'[Len(v5')] + Table[v1'].interval
      BY <2>1, <2>2
    <3> QED
      BY <3>1, <3>2, <3>3 DEF T!IndexOf
  <2>4. ASSUME NEW k \in 1..(Len(v5') - 1)
        PROVE  v5'[k + 1] - v5'[k] >= Table[v1].interval
    <3>1. CASE k = Len(v5)
      BY <1>1, <2>1, <2>2, <3>1
    <3>2. CASE k < Len(v5)
      BY <2>1, <2>2, <3>2
    <3> QED
      BY <2>2, <3>1, <3>2
  <2> QED
    BY <2>1, <2>2, <2>3, <2>4
<1> QED
  BY <1>2, <1>3

LEMMA StateNextIInv ==
  ASSUME T!TableAssumption, T!IInv, [T!Next]_(T!vars)
  PROVE  T!IInv'
<1>1. ASSUME NEW i \in DOMAIN Table, T!state_set(Table[i].state) PROVE T!IInv'
  BY <1>1, SetIInv
<1>2. ASSUME NEW t \in BOOLEAN, T!state_poll(t) PROVE T!IInv'
  BY <1>2, PollIInv
<1>3. CASE T!Tick
  BY <1>3 DEF T!Tick, T!IInv, T!Shapes, T!CountInv, T!TriedInTime
<1>4. CASE UNCHANGED T!vars
  BY <1>4 DEF T!vars, T!IInv, T!Shapes, T!CountInv, T!TriedInTime
<1> QED
  BY <1>1, <1>2, <1>3, <1>4 DEF T!Next

(* For every table, a state that was set is polled exactly its retry_max   *)
(* times before state_poll goes on, and no two tries are closer than its   *)
(* interval, however often the state is set and the clock read between.    *)
THEOREM TriesExact ==
  ASSUME T!TableAssumption
  PROVE  T!Spec => []T!TriedInTime
<1>1. T!state_init => T!IInv
  BY StateInitIInv
<1>2. T!IInv /\ [T!Next]_(T!vars) => T!IInv'
  BY StateNextIInv
<1>3. T!IInv => T!TriedInTime
  BY DEF T!IInv
<1> QED
  BY <1>1, <1>2, <1>3, PTL DEF T!Spec

-----------------------------------------------------------------------------
(* proc_unix.c.  What fork copies are ends of children that were started   *)
(* before: of any children the last to be started is the one whose ends    *)
(* none of them has.                                                       *)
LEMMA ProcInitIInv == P!Init => P!IInv
  BY DEF P!Init, P!IInv, P!Shapes, P!EndsInv, P!NoCircle, P!OutputEnds, P!Ends, P!Pipe

(* Who closes or exits only lets go of ends.                               *)
LEMMA FewerEnds ==
  ASSUME P!IInv,
         \A p \in {0} \cup Child : v2'[p] \subseteq v2[p],
         \A c \in Child : v1'[c] = "none" => v1[c] = "none",
         \A c \in Child : v1'[c] \in {"running", "zombie"} => v1[c] \in {"running", "zombie"}
  PROVE  P!EndsInv'
<1>1. P!NoCircle'
  <2> SUFFICES ASSUME NEW waiting \in (SUBSET Child) \ {{}}
               PROVE  \E c \in waiting : \A d \in waiting : v2'[d] \cap P!Ends(c, P!Pipe, {0}) = {}
    BY DEF P!NoCircle, P!Ends, P!Pipe
  <2>1. PICK c \in waiting : \A d \in waiting : v2[d] \cap P!Ends(c, P!Pipe, {0}) = {}
    BY DEF P!IInv, P!EndsInv, P!NoCircle
  <2> QED
    BY <2>1
<1>2. P!OutputEnds'
  BY DEF P!IInv, P!EndsInv, P!OutputEnds, P!Ends, P!Pipe
<1>3. \A c \in Child : v1'[c] = "none" => \A p \in {0} \cup Child : \A e \in v2'[p] : e[1] # c
  BY DEF P!IInv, P!EndsInv
<1> QED
  BY <1>1, <1>2, <1>3 DEF P!EndsInv

LEMMA EndsOfBoth ==
  ASSUME NEW c, NEW pipes, NEW side \in {0, 1}
  PROVE  P!Ends(c, pipes, {side}) \subseteq P!Ends(c, pipes, {0, 1})
<1> SUFFICES ASSUME NEW e \in {c} \X pipes \X {side}
             PROVE  e \in {c} \X pipes \X {0, 1}
  BY DEF P!Ends
<1>1. e = <<c, e[2], side>> /\ e[2] \in pipes
  OBVIOUS
<1> QED
  BY <1>1

(* A child is new: nobody has an end of its pairs.                         *)
LEMMA StartsEnds ==
  ASSUME 0 \notin Child, P!IInv, NEW c \in Child, v1[c] = "none",
         NEW pipes \in SUBSET P!Pipe, v1' = [v1 EXCEPT ![c] = "running"],
         v2' = [v2 EXCEPT ![0] = @ \cup P!Ends(c, pipes, {0}), ![c] = P!Inherited(c, pipes)]
  PROVE  P!IInv'
<1>1. /\ v2'[0] = v2[0] \cup P!Ends(c, pipes, {0})
      /\ v2'[c] = v2[0] \cup P!Ends(c, pipes, {1})
      /\ \A d \in Child \ {c} : v2'[d] = v2[d]
  BY DEF P!IInv, P!Shapes, P!Inherited
<1>2. P!Shapes'
  BY <1>1 DEF P!IInv, P!Shapes, P!Inherited, P!Ends
<1>3. \A p \in {0} \cup Child : \A e \in v2[p] : e[1] # c
  BY DEF P!IInv, P!EndsInv
<1>4. \A d \in Child : v2'[d] \cap P!Ends(c, P!Pipe, {0}) = {}
  <2> SUFFICES ASSUME NEW d \in Child, NEW e \in v2'[d], e \in P!Ends(c, P!Pipe, {0})
               PROVE  FALSE
    OBVIOUS
  <2>1. e[1] = c /\ e[3] = 0
    BY DEF P!Ends
  <2>2. \A p \in {0} \cup Child : e \notin v2[p]
    BY <1>3, <2>1
  <2>3. e \in P!Ends(c, pipes, {1})
    BY <1>1, <2>2
  <2> QED
    BY <2>1, <2>3 DEF P!Ends
<1>5. P!NoCircle'
  <2> SUFFICES ASSUME NEW waiting \in (SUBSET Child) \ {{}}
               PROVE  \E a \in waiting : \A d \in waiting : v2'[d] \cap P!Ends(a, P!Pipe, {0}) = {}
    BY DEF P!NoCircle, P!Ends, P!Pipe
  <2>1. CASE c \in waiting
    BY <1>4, <2>1
  <2>2. CASE c \notin waiting
    <3>1. PICK a \in waiting : \A d \in waiting : v2[d] \cap P!Ends(a, P!Pipe, {0}) = {}
      BY DEF P!IInv, P!EndsInv, P!NoCircle
    <3> QED
      BY <1>1, <2>2, <3>1
  <2> QED
    BY <2>1, <2>2
<1>6. P!OutputEnds'
  <2> SUFFICES ASSUME NEW a \in Child, v1'[a] \in {"running", "zombie"},
                      NEW p \in ({0} \cup Child) \ {a}
               PROVE  v2'[p] \cap P!Ends(a, P!Pipe, {1}) = {}
    BY DEF P!OutputEnds, P!Ends, P!Pipe
  <2>1. CASE a = c
    <3>1. p # c /\ (p = 0 \/ p \in Child \ {c})
      BY <2>1
    <3> SUFFICES ASSUME NEW e \in v2'[p], e \in P!Ends(c, P!Pipe, {1}) PROVE FALSE
      BY <2>1
    <3>2. e[1] = c /\ e[3] = 1
      BY DEF P!Ends
    <3>3. e \notin v2[p]
      BY <1>3, <3>2
    <3>4. e \in P!Ends(c, pipes, {0})
      BY <1>1, <3>1, <3>3
    <3> QED
      BY <3>2, <3>4 DEF P!Ends
  <2>2. CASE a # c
    <3>1. \A q \in ({0} \cup Child) \ {a} : v2[q] \cap P!Ends(a, P!Pipe, {1}) = {}
      BY <2>2 DEF P!IInv, P!EndsInv, P!OutputEnds, P!Shapes
    <3>2. v2'[p] \subseteq v2[p] \cup v2[0] \cup P!Ends(c, pipes, {0, 1})
      BY <1>1, EndsOfBoth
    <3>3. v2[0] \cap P!Ends(a, P!Pipe, {1}) = {}
      BY <3>1
    <3>4. P!Ends(c, pipes, {0, 1}) \cap P!Ends(a, P!Pipe, {1}) = {}
      BY <2>2 DEF P!Ends
    <3> QED
      BY <3>1, <3>2, <3>3, <3>4
  <2> QED
    BY <2>1, <2>2
<1>7. \A a \in Child : v1'[a] = "none" => \A p \in {0} \cup Child : \A e \in v2'[p] : e[1] # a
  <2> SUFFICES ASSUME NEW a \in Child, v1'[a] = "none", NEW p \in {0} \cup Child, NEW e \in v2'[p]
               PROVE  e[1] # a
    OBVIOUS
  <2>1. a # c /\ v1[a] = "none"
    BY DEF P!IInv, P!Shapes
  <2>2. e \in v2[p] \/ e \in v2[0] \/ e \in P!Ends(c, pipes, {0, 1})
    BY <1>1, EndsOfBoth
  <2> QED
    BY <2>1, <2>2 DEF P!IInv, P!EndsInv, P!Ends
<1> QED
  BY <1>2, <1>5, <1>6, <1>7 DEF P!IInv, P!EndsInv

LEMMA ProcNextIInv ==
  ASSUME 0 \notin Child, P!IInv, [P!Next]_(P!vars)
  PROVE  P!IInv'
<1>1. CASE P!proc_start_stdpipe
  <2>1. PICK c \in Child, pipes \in SUBSET P!Pipe :
          /\ v1[c] = "none"
          /\ v1' = [v1 EXCEPT ![c] = "running"]
          /\ v2' = [v2 EXCEPT ![0] = @ \cup P!Ends(c, pipes, {0}),
                              ![c] = P!Inherited(c, pipes)]
    BY <1>1 DEF P!proc_start_stdpipe
  <2> QED
    BY <2>1, StartsEnds
<1>2. CASE P!StartFails
  <2>1. PICK c \in Child, made \in SUBSET P!Pipe :
          /\ v1[c] = "none"
          /\ v1' = [v1 EXCEPT ![c] = "gone"]
          /\ v2' = [v2 EXCEPT ![0] = @ \cup P!Ends(c, made, {0, 1})]
    BY <1>2 DEF P!StartFails
  <2>2. /\ v2'[0] = v2[0] \cup P!Ends(c, made, {0, 1})
        /\ \A d \in Child : v2'[d] = v2[d]
        /\ v1'[c] = "gone" /\ \A d \in Child \ {c} : v1'[d] = v1[d]
    BY <2>1 DEF P!IInv, P!Shapes
  <2>3. P!Shapes'
    BY <2>1 DEF P!IInv, P!Shapes, P!Ends
  <2>4. P!NoCircle'
    <3> SUFFICES ASSUME NEW waiting \in (SUBSET Child) \ {{}}
                 PROVE  \E a \in waiting : \A d \in waiting : v2'[d] \cap P!Ends(a, P!Pipe, {0}) = {}
      BY DEF P!NoCircle, P!Ends, P!Pipe
    <3>1. PICK a \in waiting : \A d \in waiting : v2[d] \cap P!Ends(a, P!Pipe, {0}) = {}
      BY DEF P!IInv, P!EndsInv, P!NoCircle
    <3> QED
      BY <2>2, <3>1
  <2>5. P!OutputEnds'
    <3> SUFFICES ASSUME NEW a \in Child \ {c}, v1[a] \in {"running", "zombie"},
                        NEW p \in ({0} \cup Child) \ {a}
                 PROVE  v2'[p] \cap P!Ends(a, P!Pipe, {1}) = {}
      BY <2>2 DEF P!OutputEnds, P!Ends, P!Pipe
    <3>1. v2[p] \cap P!Ends(a, P!Pipe, {1}) = {}
      BY DEF P!IInv, P!EndsInv, P!OutputEnds
    <3> QED
      BY <2>2, <3>1 DEF P!Ends
  <2>6. \A a \in Child : v1'[a] = "none" => \A p \in {0} \cup Child : \A e \in v2'[p] : e[1] # a
    BY <2>2 DEF P!IInv, P!EndsInv, P!Ends
  <2> QED
    BY <2>3, <2>4, <2>5, <2>6 DEF P!IInv, P!EndsInv
<1>3. CASE P!proc_init_reap \/ UNCHANGED P!vars
  <2>1. v1' = v1 /\ v2' = v2
    BY <1>3 DEF P!proc_init_reap, P!vars
  <2> QED
    BY <2>1, FewerEnds DEF P!IInv, P!Shapes
<1>4. CASE P!proc_stdpipe_close
  <2>1. PICK e \in v2[0] : v2' = [v2 EXCEPT ![0] = @ \ {e}]
    BY <1>4 DEF P!proc_stdpipe_close
  <2>2. v1' = v1 /\ P!Shapes' /\ \A p \in {0} \cup Child : v2'[p] \subseteq v2[p]
    BY <1>4, <2>1 DEF P!proc_stdpipe_close, P!IInv, P!Shapes
  <2> QED
    BY <2>2, FewerEnds DEF P!IInv
<1>5. CASE P!Exit \/ P!proc_wait \/ P!proc_sigchld_reap
  <2>1. /\ P!Shapes' /\ \A p \in {0} \cup Child : v2'[p] \subseteq v2[p]
        /\ \A c \in Child : v1'[c] = v1[c] \/ (v1[c] = "running" /\ v1'[c] = "zombie")
                          \/ (v1[c] = "zombie" /\ v1'[c] = "gone")
    <3>1. CASE P!Exit
      BY <3>1 DEF P!Exit, P!IInv, P!Shapes
    <3>2. CASE P!proc_wait
      BY <3>2 DEF P!proc_wait, P!IInv, P!Shapes
    <3>3. CASE P!proc_sigchld_reap
      BY <3>3 DEF P!proc_sigchld_reap, P!Reaped, P!Zombies, P!IInv, P!Shapes
    <3> QED
      BY <1>5, <3>1, <3>2, <3>3
  <2>2. P!EndsInv'
    BY <2>1, FewerEnds
  <2> QED
    BY <2>1, <2>2 DEF P!IInv
<1> QED
  BY <1>1, <1>2, <1>3, <1>4, <1>5 DEF P!Next

(* For any number of children and any order of starts, failures, closes    *)
(* and exits: children never keep each other's inputs open in a circle,    *)
(* and the output of one that was started is held open by it alone.  What  *)
(* proc_start_stdpipe closes after fork, in the child and in the program,  *)
(* is enough for both.                                                     *)
THEOREM InputsAndOutputsEnd ==
  ASSUME 0 \notin Child
  PROVE  P!Spec => [](P!NoCircle /\ P!OutputEnds)
<1>1. P!Init => P!IInv
  BY ProcInitIInv
<1>2. P!IInv /\ [P!Next]_(P!vars) => P!IInv'
  BY ProcNextIInv
<1>3. P!IInv => P!NoCircle /\ P!OutputEnds
  BY DEF P!IInv, P!EndsInv
<1> QED
  BY <1>1, <1>2, <1>3, PTL DEF P!Spec

-----------------------------------------------------------------------------
(* proc_win32.c.  Each start hands on what the starts before it left in    *)
(* the program.                                                            *)
LEMMA PipeInitIInv == W!Init => W!IInv
  BY DEF W!Init, W!IInv, W!Shapes, W!EndsInv, W!WaitTold

LEMMA StartsIInv ==
  ASSUME W!IInv, W!proc_start \/ W!proc_start_stdpipe \/ W!StartFails
  PROVE  W!IInv'
<1> USE DEF W!IInv, W!Shapes, W!EndsInv, W!WaitTold, W!Inherited, W!Read, W!Write
<1>1. CASE W!proc_start
  BY <1>1 DEF W!proc_start
<1>2. CASE W!proc_start_stdpipe
  <2>1. PICK c \in Child :
          /\ v1[c] = "none"
          /\ v1' = [v1 EXCEPT ![c] = "running"]
          /\ v2' = v2 \cup {c}
          /\ v3' = {W!Read(c, 1), W!Write(c, 1)}
          /\ v4' = v4 \cup v3
          /\ v6' = [v6 EXCEPT ![c] = W!Inherited(c, v3', v4')]
          /\ v7' = v7
    BY <1>2 DEF W!proc_start_stdpipe
  <2>2. W!EndsInv' /\ W!Shapes'
    BY <2>1
  <2>3. W!WaitTold'
    BY <2>1
  <2> QED
    BY <2>2, <2>3
<1>3. CASE W!StartFails
  BY <1>3 DEF W!StartFails, W!EndsAfterFailure
<1> QED
  BY <1>1, <1>2, <1>3

LEMMA PipeNextIInv == W!IInv /\ [W!Next]_(W!vars) => W!IInv'
<1> SUFFICES ASSUME W!IInv, [W!Next]_(W!vars) PROVE W!IInv'
  OBVIOUS
<1> USE DEF W!IInv, W!Shapes, W!EndsInv, W!WaitTold
<1>1. CASE W!proc_start \/ W!proc_start_stdpipe \/ W!StartFails
  BY <1>1, StartsIInv
<1>2. CASE W!proc_stdpipe_close
  BY <1>2 DEF W!proc_stdpipe_close
<1>3. CASE W!Exit
  BY <1>3 DEF W!Exit
<1>4. CASE W!proc_wait
  <2>1. PICK c \in Child : /\ v1[c] # "none"
                           /\ v7' = [child |-> c, ret |-> IF W!Found(c) THEN 0 ELSE -1]
    BY <1>4 DEF W!proc_wait
  <2>2. ~W!Found(c) => v1[c] = "ended" \/ c \in v2
    BY <2>1 DEF W!Found
  <2> QED
    BY <1>4, <2>1, <2>2 DEF W!proc_wait
<1>5. CASE W!WaitEnds
  <2>1. v7.child \in Child
    BY <1>5 DEF W!WaitEnds, W!Waiting
  <2>2. PICK ret \in W!Waited(v7.child) : v7' = [v7 EXCEPT !.ret = ret]
    BY <1>5 DEF W!WaitEnds
  <2>3. ret = -2 \/ (ret = -3 /\ v1[v7.child] = "ended")
    BY <2>2 DEF W!Waited
  <2> QED
    BY <1>5, <2>1, <2>2, <2>3 DEF W!WaitEnds
<1>6. CASE UNCHANGED W!vars
  BY <1>6 DEF W!vars
<1> QED
  BY <1>1, <1>2, <1>3, <1>4, <1>5, <1>6 DEF W!Next

LEMMA PipeIInvImplies == W!IInv => W!InputEnds /\ W!WaitTold
<1> SUFFICES ASSUME W!IInv, NEW c \in Child, NEW d \in Child,
                    NEW e \in v6[c], e = W!Read(d, 0) \/ e = W!Write(d, 0)
             PROVE  FALSE
  BY DEF W!IInv, W!InputEnds
<1> QED
  BY DEF W!IInv, W!Shapes, W!Read, W!Write

(* No child, however many were started before it and whatever became of    *)
(* them, has the program's end of a pipe: proc_start_stdpipe makes the     *)
(* pipes with O_NOINHERIT, although it never puts its own input back.      *)
THEOREM ChildrenSeeTheEnd == W!Spec => []W!InputEnds
  BY PipeInitIInv, PipeNextIInv, PipeIInvImplies, PTL DEF W!Spec

(* proc_wait never says of a child without pipes that it has ended, or is  *)
(* not there, while it runs.                                               *)
THEOREM WaitTellsTruth == W!Spec => []W!WaitTold
  BY PipeInitIInv, PipeNextIInv, PipeIInvImplies, PTL DEF W!Spec

-----------------------------------------------------------------------------
(* proc_run_stdbuf.  Each call of the setup opens handles that the end     *)
(* closes, whichever fails.                                                *)
LEMMA SetupHandles ==
  /\ DOMAIN R!Setup = 1..6 /\ Len(R!Setup) = 6
  /\ \A i \in 1..6 : R!Setup[i].opens \subseteq R!Handles
<1>1. DOMAIN R!Setup = 1..6 /\ Len(R!Setup) = 6
  BY DEF R!Setup
<1>2. /\ R!Setup[1].opens = {"userToken"} /\ R!Setup[2].opens = {"inR", "inTmp"}
      /\ R!Setup[3].opens = {"inW"} /\ R!Setup[4].opens = {"outTmp", "outW"}
      /\ R!Setup[5].opens = {"outR"} /\ R!Setup[6].opens = {"process", "thread"}
  BY DEF R!Setup
<1> QED
  BY <1>1, <1>2 DEF R!Handles

LEMMA RunInitIInv ==
  ASSUME stdout_len \in Nat \ {0}, R!Init
  PROVE  R!IInv
  BY SetupHandles DEF R!Init, R!IInv, R!childVars, R!Handles

LEMMA RunNextIInv ==
  ASSUME stdout_len \in Nat \ {0}, R!IInv, [R!Next]_(R!vars)
  PROVE  R!IInv'
<1> USE DEF R!IInv
<1>1. CASE R!SetupStep
  <2>1. /\ v3' = (v3 \cup R!Setup[v2].opens) \ R!Setup[v2].closes
        /\ (v2 < Len(R!Setup) /\ v2' = v2 + 1 /\ v1' = v1) \/ (v1' = "write" /\ v2' = v2)
        /\ v1 = "setup" /\ v4' = v4 /\ v10' = v10
    BY <1>1 DEF R!SetupStep
  <2>2. v3' \subseteq R!Handles /\ v2' \in DOMAIN R!Setup
    BY <2>1, SetupHandles
  <2> QED
    BY <2>1, <2>2
<1>2. CASE R!SetupFails
  BY <1>2 DEF R!SetupFails, R!Goto, R!childVars
<1>3. CASE R!Write
  BY <1>3 DEF R!Write, R!Goto, R!childVars
<1>4. CASE R!Full
  BY <1>4 DEF R!Full, R!Reading, R!CloseOutput, R!childVars
<1>5. CASE R!Read
  <2>1. /\ v1 = "read" /\ v1' = "loop" /\ v2' = v2 /\ v10' = v10
        /\ \/ \E n \in 1..(v10 - v4) : n <= R!Room /\ v4' = v4 + n /\ v3' = v3
           \/ v3' = v3 \ {"outR"} /\ v4' = v4
    BY <1>5 DEF R!Read, R!CloseOutput, R!childVars
  <2>2. v4' \in Nat /\ v4' < stdout_len
    BY <2>1 DEF R!Room
  <2> QED
    BY <2>1, <2>2
<1>6. CASE R!WaitPipe \/ R!WaitProcess \/ R!Timeout \/ R!WaitLast
  BY <1>6 DEF R!WaitPipe, R!WaitProcess, R!Timeout, R!WaitLast, R!Reading, R!Goto, R!childVars
<1>7. CASE R!Cleanup
  BY <1>7 DEF R!Cleanup, R!childVars
<1>8. CASE R!ChildStep
  BY <1>8 DEF R!ChildStep
<1>9. CASE UNCHANGED R!vars
  BY <1>9 DEF R!vars, R!childVars
<1> QED
  BY <1>1, <1>2, <1>3, <1>4, <1>5, <1>6, <1>7, <1>8, <1>9 DEF R!Next, R!Call

LEMMA RunIInvImplies == R!IInv => R!AllClosed
  BY DEF R!IInv, R!AllClosed

-----------------------------------------------------------------------------
(* service_win32.c.  What a step of one program does to the others.        *)
LEMMA OneBecomes ==
  ASSUME V!Shapes, NEW c \in Ctl, NEW r \in V!Doing, V!Becomes(c, r)
  PROVE  /\ v7' \in [Ctl -> V!Doing]
         /\ v7'[c] = r
         /\ \A d \in Ctl \ {c} : /\ v7'[d].op = v7[d].op /\ v7'[d].at = v7[d].at
                                 /\ v7'[d].svc = v7[d].svc /\ ~v7'[d].alone
<1>1. \A d \in Ctl : v7[d] \in V!Doing
  BY DEF V!Shapes
<1>2. \A d \in Ctl : [v7[d] EXCEPT !.alone = FALSE] \in V!Doing
  BY <1>1 DEF V!Doing
<1>3. v7' = [d \in Ctl |-> IF d = c THEN r ELSE [v7[d] EXCEPT !.alone = FALSE]]
  BY DEF V!Becomes
<1>4. v7' \in [Ctl -> V!Doing]
  BY <1>2, <1>3
<1>5. \A d \in Ctl \ {c} : v7'[d] = [v7[d] EXCEPT !.alone = FALSE]
  BY <1>3
<1> QED
  BY <1>1, <1>3, <1>4, <1>5 DEF V!Doing

(* A step of one program keeps Installs if it does so for the program: the *)
(* others are no longer alone.                                             *)
LEMMA OneInstalls ==
  ASSUME V!IInv, NEW c \in Ctl, NEW r \in V!Doing, V!Becomes(c, r),
         r.at \in {"end", "create"} => ~r.svc,
         v1' = "marked" => v3' # "idle" \/ r.svc \/ \E d \in V!Users(v7) : d # c,
         r.op = "INSTALL" /\ r.alone =>
           /\ r.at # "end" => v3' = "idle" /\ ~V!Others(c)
           /\ r.at = "opened" => v1' = IF r.svc THEN "there" ELSE "none"
           /\ r.at = "deleted" => v1' = "marked"
           /\ r.at = "create" => v1' = "none"
           /\ r.at = "end" => r.err = 0
           /\ r.at # "told"
  PROVE  V!Installs' /\ v7' \in [Ctl -> V!Doing]
<1>1. /\ v7' \in [Ctl -> V!Doing] /\ v7'[c] = r
      /\ \A d \in Ctl \ {c} : /\ v7'[d].op = v7[d].op /\ v7'[d].at = v7[d].at
                              /\ v7'[d].svc = v7[d].svc /\ ~v7'[d].alone
  BY OneBecomes DEF V!IInv
<1>2. \A d \in Ctl : v7'[d].at \in {"end", "create"} => ~v7'[d].svc
  BY <1>1 DEF V!IInv, V!Installs
<1>3. v1' = "marked" => v3' # "idle" \/ V!Users(v7') # {}
  BY <1>1 DEF V!Users
<1>4. V!Others(c)' => V!Others(c)
  BY <1>1 DEF V!Others
<1>5. ASSUME NEW d \in Ctl, v7'[d].op = "INSTALL", v7'[d].alone
      PROVE  /\ v7'[d].at # "end" => v3' = "idle" /\ ~V!Others(d)'
             /\ v7'[d].at = "opened" => v1' = IF v7'[d].svc THEN "there" ELSE "none"
             /\ v7'[d].at = "deleted" => v1' = "marked"
             /\ v7'[d].at = "create" => v1' = "none"
             /\ v7'[d].at = "end" => v7'[d].err = 0
             /\ v7'[d].at # "told"
  <2>1. d = c
    BY <1>1, <1>5
  <2> QED
    BY <1>1, <1>4, <1>5, <2>1
<1> QED
  BY <1>1, <1>2, <1>3, <1>5 DEF V!Installs

LEMMA ServiceInitIInv == V!Init => V!IInv
<1> SUFFICES ASSUME V!Init PROVE V!IInv
  OBVIOUS
<1>1. v7 \in [Ctl -> V!Doing] /\ \A c \in Ctl : v7[c].op = "none" /\ v7[c].at = "end" /\ ~v7[c].svc
  BY DEF V!Init, V!Doing
<1> QED
  BY <1>1 DEF V!Init, V!IInv, V!Shapes, V!Reports, V!Installs

(* A step of the service: no program that installs alone is on its way, as *)
(* long as the service runs.                                               *)
LEMMA ServiceStepIInv ==
  ASSUME V!IInv, V!Service
  PROVE  V!IInv'
<1> USE DEF V!IInv
<1>1. v7' = v7 /\ V!Users(v7') = V!Users(v7)
  BY DEF V!Service, V!Registered, V!NotRegistered, V!ReportsRunning, V!MainReturns,
         V!ReportsStopped, V!HandlerSignals, V!HandlerSets, V!HandlerReports
<1>2. \A c \in Ctl : V!Others(c)' <=> V!Others(c)
  BY <1>1 DEF V!Others
<1>3. CASE V!Registered \/ V!NotRegistered \/ V!ReportsRunning \/ V!MainReturns
  <2>1. v1' = v1 /\ v4' = v4 /\ v3 # "idle" /\ v3' # "idle"
    BY <1>3 DEF V!Registered, V!NotRegistered, V!ReportsRunning, V!MainReturns, V!Thread
  <2>2. V!Installs'
    BY <1>1, <2>1 DEF V!Installs
  <2>3. V!Shapes' /\ V!Reports'
    BY <1>1, <1>3, <2>1 DEF V!Registered, V!NotRegistered, V!ReportsRunning, V!MainReturns, V!Thread,
         V!SetServiceStatus, V!Shapes, V!Reports
  <2> QED
    BY <2>2, <2>3
<1>4. CASE V!ReportsStopped
  <2>1. /\ v3 = "returned" /\ v3' = (IF v5 = "STOPPED" THEN "idle" ELSE "stuck") /\ v2' = v5
        /\ v4' = v4 /\ v5' = v5
        /\ v1' = IF v1 = "marked" /\ v3' = "idle" /\ (\A c \in Ctl : ~v7[c].svc)
                 THEN "none" ELSE v1
    BY <1>4 DEF V!ReportsStopped, V!Thread, V!SetServiceStatus
  <2>2. v1' = "marked" => v3' # "idle" \/ V!Users(v7') # {}
    BY <1>1, <2>1 DEF V!Users
  <2>3. V!Installs'
    BY <1>1, <2>1, <2>2 DEF V!Installs
  <2>4. V!Shapes' /\ V!Reports'
    BY <1>1, <2>1 DEF V!Shapes, V!Reports
  <2> QED
    BY <2>3, <2>4
<1>5. CASE V!HandlerSignals \/ V!HandlerSets \/ V!HandlerReports
  <2>1. v1' = v1 /\ v3' = v3
    BY <1>5 DEF V!HandlerSignals, V!HandlerSets, V!HandlerReports
  <2>2. V!Installs'
    BY <1>1, <1>2, <2>1 DEF V!Installs
  <2>3. V!Shapes' /\ V!Reports'
    BY <1>1, <1>5, <2>1 DEF V!HandlerSignals, V!HandlerSets, V!HandlerReports,
         V!HandlerState, V!SetServiceStatus, V!Shapes, V!Reports
  <2> QED
    BY <2>2, <2>3
<1> QED
  BY <1>3, <1>4, <1>5 DEF V!Service

(* The end of a program's call, which closes its handle.                   *)
LEMMA EndIInv ==
  ASSUME V!IInv, NEW c \in Ctl, NEW e \in {"none", "there", "marked"}, NEW code \in Int,
         V!End(c, e, code), v7[c].op = "INSTALL" /\ v7[c].alone => code = 0
  PROVE  V!IInv'
<1> DEFINE r == [v7[c] EXCEPT !.at = "end", !.svc = FALSE, !.err = code]
<1>1. v7[c] \in V!Doing
  BY DEF V!IInv, V!Shapes
<1>2. /\ r \in V!Doing /\ r.at = "end" /\ ~r.svc /\ r.op = v7[c].op /\ r.alone = v7[c].alone
      /\ r.err = code
  BY <1>1 DEF V!Doing
<1>3. /\ V!Becomes(c, r) /\ v1' = V!Swept(e, V!Users(v7) \ {c})
      /\ v2' = v2 /\ v3' = v3 /\ v4' = v4 /\ v5' = v5
  BY DEF V!End, V!service
<1> HIDE DEF r
<1>4. v1' = "marked" => v3' # "idle" \/ \E d \in V!Users(v7) : d # c
  BY <1>3 DEF V!Swept
<1>5. V!Installs' /\ v7' \in [Ctl -> V!Doing]
  BY <1>2, <1>3, <1>4, OneInstalls
<1>6. v1' \in {"none", "there", "marked"}
  BY <1>3 DEF V!Swept
<1> QED
  BY <1>3, <1>5, <1>6 DEF V!IInv, V!Shapes, V!Reports

(* service_install deletes an entry that is there, closes it, and makes a  *)
(* new one, which fails if somebody still has the old one open.            *)
LEMMA InstallIInv ==
  ASSUME V!IInv, NEW c \in Ctl,
         V!InstallDelete(c) \/ V!InstallClose(c) \/ V!InstallCreate(c)
  PROVE  V!IInv'
<1>1. /\ v7[c] \in V!Doing /\ v1 \in {"none", "there", "marked"}
      /\ v7[c].op = "INSTALL" /\ v7[c].alone =>
           /\ v7[c].at # "end" => v3 = "idle" /\ ~V!Others(c)
           /\ v7[c].at = "opened" => v1 = IF v7[c].svc THEN "there" ELSE "none"
           /\ v7[c].at = "deleted" => v1 = "marked"
           /\ v7[c].at = "create" => v1 = "none"
      /\ \A d \in Ctl : v7[d].at = "end" => ~v7[d].svc
      /\ v1 = "marked" => v3 # "idle" \/ V!Users(v7) # {}
  BY DEF V!IInv, V!Shapes, V!Installs
<1>2. CASE V!InstallDelete(c) /\ v7[c].svc /\ v1 = "marked"
  <2>1. V!End(c, v1, -1)
    BY <1>2 DEF V!InstallDelete
  <2>2. ~(v7[c].op = "INSTALL" /\ v7[c].alone)
    BY <1>1, <1>2 DEF V!InstallDelete, V!At
  <2> QED
    BY <1>1, <2>1, <2>2, EndIInv
<1>3. CASE V!InstallDelete(c) /\ v7[c].svc /\ v1 = "there"
  <2> DEFINE r == [v7[c] EXCEPT !.at = "deleted"]
  <2>1. V!Becomes(c, r) /\ v1' = "marked" /\ v2' = v2 /\ v3' = v3 /\ v4' = v4 /\ v5' = v5
    BY <1>3 DEF V!InstallDelete, V!service
  <2>2. r \in V!Doing /\ r.at = "deleted" /\ r.svc /\ r.op = v7[c].op /\ r.alone = v7[c].alone
    BY <1>1, <1>3 DEF V!Doing
  <2>3. v7[c].op = "INSTALL" /\ v7[c].alone => v3' = "idle" /\ ~V!Others(c)
    BY <1>1, <1>3, <2>1 DEF V!InstallDelete, V!At
  <2> HIDE DEF r
  <2>4. V!Installs' /\ v7' \in [Ctl -> V!Doing]
    BY <2>1, <2>2, <2>3, OneInstalls
  <2> QED
    BY <2>1, <2>4 DEF V!IInv, V!Shapes, V!Reports
<1>4. CASE V!InstallDelete(c) /\ ~v7[c].svc
  <2> DEFINE r == [v7[c] EXCEPT !.at = "create"]
  <2>1. /\ V!Becomes(c, r) /\ v1' = v1 /\ v2' = v2 /\ v3' = v3 /\ v4' = v4 /\ v5' = v5
        /\ v7[c].at = "opened"
    BY <1>4 DEF V!InstallDelete, V!service, V!At
  <2>2. r \in V!Doing /\ r.at = "create" /\ ~r.svc /\ r.op = v7[c].op /\ r.alone = v7[c].alone
    BY <1>1, <1>4 DEF V!Doing
  <2>3. v7[c].op = "INSTALL" /\ v7[c].alone => v3' = "idle" /\ ~V!Others(c) /\ v1' = "none"
    BY <1>1, <1>4, <2>1
  <2>4. v1' = "marked" => v3' # "idle" \/ \E d \in V!Users(v7) : d # c
    BY <1>1, <1>4, <2>1 DEF V!Users
  <2> HIDE DEF r
  <2>5. V!Installs' /\ v7' \in [Ctl -> V!Doing]
    BY <2>1, <2>2, <2>3, <2>4, OneInstalls
  <2> QED
    BY <2>1, <2>5 DEF V!IInv, V!Shapes, V!Reports
<1>5. CASE V!InstallClose(c)
  <2> DEFINE r == [v7[c] EXCEPT !.at = "create", !.svc = FALSE]
  <2>1. /\ V!Becomes(c, r) /\ v1' = V!Swept(v1, V!Users(v7) \ {c})
        /\ v2' = v2 /\ v3' = v3 /\ v4' = v4 /\ v5' = v5 /\ v7[c].at = "deleted"
    BY <1>5 DEF V!InstallClose, V!ClosedFirst, V!service, V!At
  <2>2. r \in V!Doing /\ r.at = "create" /\ ~r.svc /\ r.op = v7[c].op /\ r.alone = v7[c].alone
    BY <1>1 DEF V!Doing
  <2>3. v7[c].op = "INSTALL" /\ v7[c].alone => v3' = "idle" /\ ~V!Others(c) /\ v1' = "none"
    <3> SUFFICES ASSUME v7[c].op = "INSTALL", v7[c].alone
                 PROVE  v3' = "idle" /\ ~V!Others(c) /\ v1' = "none"
      OBVIOUS
    <3>1. v3 = "idle" /\ ~V!Others(c) /\ v1 = "marked"
      BY <1>1, <2>1
    <3>2. V!Users(v7) \ {c} = {}
      BY <1>1, <3>1 DEF V!Others, V!Users
    <3> QED
      BY <2>1, <3>1, <3>2 DEF V!Swept
  <2>4. v1' = "marked" => v3' # "idle" \/ \E d \in V!Users(v7) : d # c
    BY <2>1 DEF V!Swept
  <2> HIDE DEF r
  <2>5. V!Installs' /\ v7' \in [Ctl -> V!Doing]
    BY <2>1, <2>2, <2>3, <2>4, OneInstalls
  <2>6. v1' \in {"none", "there", "marked"}
    BY <1>1, <2>1 DEF V!Swept
  <2> QED
    BY <2>1, <2>5, <2>6 DEF V!IInv, V!Shapes, V!Reports
<1>6. CASE V!InstallCreate(c) /\ v1 = "none"
  <2>1. V!End(c, "there", 0)
    BY <1>6 DEF V!InstallCreate
  <2> QED
    BY <2>1, EndIInv
<1>7. CASE V!InstallCreate(c) /\ v1 # "none"
  <2>1. V!End(c, v1, -1) /\ v7[c].at = "create"
    BY <1>7 DEF V!InstallCreate, V!At
  <2>2. ~(v7[c].op = "INSTALL" /\ v7[c].alone)
    BY <1>1, <1>7, <2>1
  <2> QED
    BY <1>1, <2>1, <2>2, EndIInv
<1> QED
  BY <1>1, <1>2, <1>3, <1>4, <1>5, <1>6, <1>7 DEF V!InstallDelete

(* The first step of every call: what it finds there.                      *)
LEMMA OpenIInv ==
  ASSUME V!IInv, NEW c \in Ctl, V!Open(c)
  PROVE  V!IInv'
<1>1. PICK op \in V!Ops :
        V!Becomes(c, [op |-> op, at |-> "opened", svc |-> v1 # "none", err |-> -1,
                      alone |-> ~V!Others(c) /\ v3 = "idle"])
  BY DEF V!Open
<1> DEFINE r == [op |-> op, at |-> "opened", svc |-> v1 # "none", err |-> -1,
                 alone |-> ~V!Others(c) /\ v3 = "idle"]
<1>2. /\ V!Becomes(c, r) /\ v1' = v1 /\ v2' = v2 /\ v3' = v3 /\ v4' = v4 /\ v5' = v5
      /\ v7[c].at = "end"
  BY <1>1 DEF V!Open, V!service, V!At
<1>3. /\ r \in V!Doing /\ r.at = "opened" /\ r.op = op
      /\ r.svc = (v1 # "none")
      /\ r.alone = (~V!Others(c) /\ v3 = "idle")
  <2>1. -1 \in Int
    OBVIOUS
  <2>2. PICK alone \in BOOLEAN : alone = (~V!Others(c) /\ v3 = "idle")
    OBVIOUS
  <2>3. PICK svc \in BOOLEAN : svc = (v1 # "none")
    OBVIOUS
  <2>4. r = [op |-> op, at |-> "opened", svc |-> svc, err |-> -1, alone |-> alone]
    BY <2>2, <2>3
  <2> HIDE DEF r
  <2> QED
    BY <2>1, <2>2, <2>3, <2>4 DEF V!Doing
<1>4. /\ v1 \in {"none", "there", "marked"}
      /\ v1 = "marked" => v3 # "idle" \/ V!Users(v7) # {}
      /\ \A d \in Ctl : v7[d].at = "end" => ~v7[d].svc
  BY DEF V!IInv, V!Shapes, V!Installs
<1>5. ~V!Others(c) /\ v3 = "idle" => v1 \in {"none", "there"}
  BY <1>2, <1>4 DEF V!Others, V!Users
<1> HIDE DEF r
<1>6. V!Installs' /\ v7' \in [Ctl -> V!Doing]
  BY <1>2, <1>3, <1>4, <1>5, OneInstalls
<1> QED
  BY <1>2, <1>6 DEF V!IInv, V!Shapes, V!Reports

(* service_control.                                                        *)
LEMMA ControlIInv ==
  ASSUME V!IInv, NEW c \in Ctl,
         V!ControlNothing(c) \/ V!ControlStart(c) \/ V!ControlStop(c) \/ V!ControlEnd(c)
  PROVE  V!IInv'
<1>0. v7[c] \in V!Doing
  BY DEF V!IInv, V!Shapes
<1>1. /\ v1 \in {"none", "there", "marked"}
      /\ v1 = "marked" => v3 # "idle" \/ V!Users(v7) # {}
      /\ v7[c].op = "INSTALL" /\ v7[c].alone => v7[c].at # "told"
  BY DEF V!IInv, V!Shapes, V!Installs
<1>2. CASE V!ControlNothing(c)
  BY <1>1, <1>2, EndIInv DEF V!ControlNothing
<1>3. CASE V!ControlStart(c) /\ (v2 # "STOPPED" \/ v1 = "marked")
  BY <1>1, <1>3, EndIInv DEF V!ControlStart
<1>4. CASE V!ControlStart(c) /\ ~(v2 # "STOPPED" \/ v1 = "marked")
  <2> DEFINE r == [v7[c] EXCEPT !.at = "end", !.svc = FALSE, !.err = 0]
  <2>1. /\ V!Becomes(c, r) /\ v1 = "there" /\ v1' = v1 /\ v4 = "idle" /\ v4' = v4 /\ v5' = v5
        /\ v3' = "begin" /\ v2' = "START_PENDING" /\ v7[c].op = "START"
    BY <1>4 DEF V!ControlStart
  <2>2. r \in V!Doing /\ r.at = "end" /\ ~r.svc /\ r.op = v7[c].op
    <3>1. PICK err0 \in Int : err0 = 0
      OBVIOUS
    <3>2. r = [v7[c] EXCEPT !.at = "end", !.svc = FALSE, !.err = err0]
      BY <3>1
    <3> HIDE DEF r
    <3> QED
      BY <1>0, <3>2 DEF V!Doing
  <2> HIDE DEF r
  <2>3. V!Installs' /\ v7' \in [Ctl -> V!Doing]
    BY <2>1, <2>2, OneInstalls
  <2> QED
    BY <2>1, <2>3 DEF V!IInv, V!Shapes, V!Reports
<1>5. CASE V!ControlStop(c)
  <2>1. PICK r \in {[v7[c] EXCEPT !.at = "told", !.err = 0], [v7[c] EXCEPT !.at = "told"]} :
          V!Becomes(c, r)
    BY <1>5 DEF V!ControlStop
  <2>2. /\ v1' = v1 /\ v2' = v2 /\ v3' = v3 /\ v5' = v5 /\ v7[c].svc /\ v7[c].op # "INSTALL"
        /\ v4' = v4 \/ (v4' = "signal" /\ v2 = "RUNNING")
    BY <1>5 DEF V!ControlStop
  <2>3. r \in V!Doing /\ r.at = "told" /\ r.svc /\ r.op = v7[c].op
    <3>1. PICK err0 \in Int : err0 = 0
      OBVIOUS
    <3>2. CASE r = [v7[c] EXCEPT !.at = "told", !.err = err0]
      BY <1>0, <2>2, <3>2 DEF V!Doing
    <3>3. CASE r = [v7[c] EXCEPT !.at = "told"]
      BY <1>0, <2>2, <3>3 DEF V!Doing
    <3> QED
      BY <3>1, <3>2, <3>3
  <2>4. V!Installs' /\ v7' \in [Ctl -> V!Doing]
    BY <2>1, <2>2, <2>3, OneInstalls
  <2> QED
    BY <2>2, <2>4 DEF V!IInv, V!Shapes, V!Reports
<1>6. CASE V!ControlEnd(c)
  <2>1. v7[c].err \in Int
    BY <1>0 DEF V!Doing
  <2>2. v7[c].op # "INSTALL"
    BY <1>6 DEF V!ControlEnd
  <2> QED
    BY <1>1, <1>6, <2>1, <2>2, EndIInv DEF V!ControlEnd
<1> QED
  BY <1>2, <1>3, <1>4, <1>5, <1>6

LEMMA ServiceNextIInv == V!IInv /\ [V!Next]_(V!vars) => V!IInv'
<1> SUFFICES ASSUME V!IInv, [V!Next]_(V!vars) PROVE V!IInv'
  OBVIOUS
<1>1. ASSUME NEW c \in Ctl, V!Program(c) PROVE V!IInv'
  BY <1>1, OpenIInv, InstallIInv, ControlIInv DEF V!Program
<1>2. CASE V!Service
  BY <1>2, ServiceStepIInv
<1>3. CASE UNCHANGED V!vars
  BY <1>3 DEF V!vars, V!service, V!IInv, V!Shapes, V!Reports, V!Installs, V!Users, V!Others
<1> QED
  BY <1>1, <1>2, <1>3 DEF V!Next

LEMMA ServiceIInvImplies == V!IInv => V!ServiceKept
<1>1. V!IInv => V!StoppedAfterMain
  BY DEF V!IInv, V!Reports, V!StoppedAfterMain
<1>2. V!IInv => V!AloneInstalls
  BY DEF V!IInv, V!Installs, V!AloneInstalls, V!At
<1> QED
  BY <1>1, <1>2 DEF V!ServiceKept

-----------------------------------------------------------------------------
(* cryptbk.c.  A cell of what is encrypted; texts are sequences of         *)
(* numbers.                                                                *)
Cell == [by : K!Halves \cup {"seskey"}, with : Seq(Nat), at : Nat, data : Seq(Nat) \cup Nat]

LEMMA BlockIs ==
  ASSUME K!CryptAssumption, NEW pair \in KeyPair, NEW half \in K!Halves, NEW text \in Seq(Nat)
  PROVE  /\ K!RsaBlock(pair, half, text) \in Seq(Cell)
         /\ Len(K!RsaBlock(pair, half, text)) = RsaSize[pair]
         /\ K!RsaBlock(pair, half, text)[1]
              = [by |-> half, with |-> <<pair>>, at |-> 1, data |-> text]
<1>1. pair \in Nat /\ RsaSize[pair] \in Nat /\ RsaSize[pair] > 0
  BY DEF K!CryptAssumption
<1>2. \A i \in 1..RsaSize[pair] :
        [by |-> half, with |-> <<pair>>, at |-> i, data |-> text] \in Cell
  BY <1>1 DEF Cell
<1> DEFINE size == RsaSize[pair]
<1>3. K!RsaBlock(pair, half, text)
        = [i \in 1..size |-> [by |-> half, with |-> <<pair>>, at |-> i, data |-> text]]
  BY DEF K!RsaBlock
<1>4. size \in Nat /\ size > 0
  BY <1>1
<1>5. \A i \in 1..size : [by |-> half, with |-> <<pair>>, at |-> i, data |-> text] \in Cell
  BY <1>2
<1> HIDE DEF size
<1>6. /\ K!RsaBlock(pair, half, text) \in Seq(Cell)
      /\ Len(K!RsaBlock(pair, half, text)) = size
  BY <1>3, <1>4, <1>5
<1>7. K!RsaBlock(pair, half, text)[1]
        = [by |-> half, with |-> <<pair>>, at |-> 1, data |-> text]
  BY <1>3, <1>4
<1> QED
  BY <1>6, <1>7 DEF size

LEMMA BackOf ==
  ASSUME NEW Item, NEW s \in Seq(Item), NEW t \in Seq(Item), t # <<>>
  PROVE  SubSeq(s \o t, Len(s) + 1, Len(s) + Len(t)) = t
<1> DEFINE m == Len(s) + 1
           n == Len(s) + Len(t)
<1>1. m \in Len(s) + 1 .. Len(s) + Len(t) /\ n \in Len(s) + 1 .. Len(s) + Len(t)
  OBVIOUS
<1>2. m - Len(s) = 1 /\ n - Len(s) = Len(t)
  OBVIOUS
<1> HIDE DEF m, n
<1>3. SubSeq(s \o t, m, n) = SubSeq(t, m - Len(s), n - Len(s))
  BY <1>1, SubSeqOfConcat2, Zenon
<1>4. SubSeq(s \o t, m, n) = t
  BY <1>2, <1>3, SubSeqFull
<1> QED
  BY <1>4 DEF m, n

(* The half of a key that does the reverse is the other one.               *)
LEMMA OtherIs ==
  ASSUME NEW half \in K!Halves, NEW by \in K!Halves
  PROVE  /\ K!Other(half) \in K!Halves
         /\ by = K!Other(half) <=> half = K!Other(by)
BY DEF K!Halves, K!Other

(* What a half accepts as a block begins with a cell the other half of its *)
(* key made.                                                               *)
LEMMA BlockBegins ==
  ASSUME K!CryptAssumption, NEW pair \in KeyPair, NEW half \in K!Halves, NEW cells,
         K!IsBlock(pair, half, cells)
  PROVE  cells[1].by = K!Other(half) /\ cells[1].with = <<pair>>
<1>1. RsaSize[pair] \in Nat /\ RsaSize[pair] > 0
  BY DEF K!CryptAssumption
<1>2. cells = K!RsaBlock(pair, K!Other(half), cells[1].data)
  BY DEF K!IsBlock
<1>3. K!RsaBlock(pair, K!Other(half), cells[1].data)[1]
        = [by |-> K!Other(half), with |-> <<pair>>, at |-> 1, data |-> cells[1].data]
  BY <1>1 DEF K!RsaBlock
<1>4. cells[1] = [by |-> K!Other(half), with |-> <<pair>>, at |-> 1, data |-> cells[1].data]
  BY <1>2, <1>3
<1> QED
  BY <1>4

LEMMA AesIs ==
  ASSUME NEW key \in Seq(Nat), NEW text \in Seq(Nat)
  PROVE  /\ K!Aes(key, text) \in Seq(Cell)
         /\ Len(K!Aes(key, text)) = Len(text)
         /\ K!UnAes(key, K!Aes(key, text)) = text
<1>1. \A i \in 1..Len(text) : [by |-> "seskey", with |-> key, at |-> i, data |-> text[i]] \in Cell
  BY DEF Cell
<1>2. K!Aes(key, text) \in Seq(Cell) /\ Len(K!Aes(key, text)) = Len(text)
  BY <1>1 DEF K!Aes
<1>3. \A i \in 1..Len(text) :
        K!Aes(key, text)[i] = [by |-> "seskey", with |-> key, at |-> i, data |-> text[i]]
  BY DEF K!Aes
<1> DEFINE cells == K!Aes(key, text)
<1>4. K!UnAes(key, cells) = [i \in 1..Len(text) |-> text[i]]
  <2>1. Len(cells) = Len(text)
    BY <1>2
  <2>2. ASSUME NEW i \in 1..Len(text)
        PROVE  /\ cells[i].by = "seskey" /\ cells[i].with = key
               /\ cells[i].at = i /\ cells[i].data = text[i]
    <3>1. cells[i] = [by |-> "seskey", with |-> key, at |-> i, data |-> text[i]]
      BY <1>3
    <3> QED
      BY <3>1
  <2> HIDE DEF cells
  <2>3. K!UnAes(key, cells)
          = [i \in 1..Len(text) |->
               IF cells[i].by = "seskey" /\ cells[i].with = key /\ cells[i].at = i
               THEN cells[i].data ELSE -1]
    BY <2>1 DEF K!UnAes
  <2> QED
    BY <2>2, <2>3
<1> QED
  BY <1>2, <1>4

(* What is encrypted: its block is RSA_size cells, and the rest is behind. *)
LEMMA EncryptedIs ==
  ASSUME K!CryptAssumption, NEW pair \in KeyPair, NEW half \in K!Halves,
         KeyLen <= K!Room(pair), NEW text \in Seq(Nat), text # <<>>
  PROVE  \E first, rest \in Seq(Nat) :
           /\ text = first \o rest
           /\ LET cells == K!Encrypted(pair, half, text)
              IN  /\ cells \in Seq(Cell) /\ Len(cells) >= RsaSize[pair]
                  /\ cells[1] = [by |-> half, with |-> <<pair>>, at |-> 1, data |-> first]
                  /\ K!FirstOf(cells, RsaSize[pair]) = K!RsaBlock(pair, half, first)
                  /\ K!RestOf(cells, RsaSize[pair]) = K!Aes(first, rest)
<1> DEFINE size == RsaSize[pair]
           n == IF K!Room(pair) < Len(text) THEN K!Room(pair) ELSE Len(text)
           first == SubSeq(text, 1, n)
           rest == SubSeq(text, n + 1, Len(text))
           block == K!RsaBlock(pair, half, first)
           aes == K!Aes(first, rest)
           cells == K!Encrypted(pair, half, text)
<1>1. size \in Nat /\ size > 0 /\ Len(text) \in Nat /\ Len(text) > 0
  BY DEF K!CryptAssumption
<1>2. n \in 1..Len(text)
  <2>1. K!Room(pair) \in Int /\ K!Room(pair) > 0
    BY <1>1 DEF K!Room, K!CryptAssumption
  <2> QED
    BY <1>1, <2>1
<1>3. cells = block \o aes
  <2>1. K!FirstOf(text, K!Room(pair)) = first
    BY DEF K!FirstOf
  <2>2. Len(first) = n
    BY <1>1, <1>2
  <2>3. K!RestOf(text, Len(first)) = rest
    BY <2>2 DEF K!RestOf
  <2> HIDE DEF n
  <2> QED
    BY <2>1, <2>3 DEF K!Encrypted
<1> HIDE DEF n
<1>4. /\ first \in Seq(Nat) /\ rest \in Seq(Nat) /\ Len(rest) = Len(text) - n
      /\ Len(first) = n
  BY <1>1, <1>2
<1>5. text = first \o rest
  <2>1. first \o rest = SubSeq(text, 1, Len(text))
    BY <1>1, <1>2, ConcatAdjacentSubSeq
  <2> QED
    BY <2>1, SubSeqFull
<1> HIDE DEF first, rest
<1>6. /\ block \in Seq(Cell) /\ Len(block) = size
      /\ aes \in Seq(Cell) /\ Len(aes) = Len(rest)
      /\ block[1] = [by |-> half, with |-> <<pair>>, at |-> 1, data |-> first]
  BY <1>4, BlockIs, AesIs
<1> HIDE DEF size, block, aes, cells
<1>7. cells \in Seq(Cell) /\ Len(cells) = size + Len(aes) /\ cells[1] = block[1]
  <2>1. /\ block \o aes \in Seq(Cell) /\ Len(block \o aes) = Len(block) + Len(aes)
        /\ \A i \in 1..(Len(block) + Len(aes)) :
             (block \o aes)[i] = IF i <= Len(block) THEN block[i] ELSE aes[i - Len(block)]
    BY <1>6, ConcatProperties, Zenon
  <2>2. 1 \in 1..(Len(block) + Len(aes)) /\ 1 <= Len(block)
    BY <1>1, <1>4, <1>6
  <2> QED
    BY <1>3, <1>6, <2>1, <2>2
<1>8. K!FirstOf(cells, size) = block
  <2>1. SubSeq(cells, 1, size) = SubSeq(block, 1, size)
    BY <1>1, <1>3, <1>6, SubSeqOfConcat1
  <2>2. SubSeq(cells, 1, size) = block
    BY <1>6, <2>1, SubSeqFull
  <2>3. (IF size < Len(cells) THEN size ELSE Len(cells)) = size
    BY <1>1, <1>6, <1>7
  <2> QED
    BY <2>2, <2>3 DEF K!FirstOf
<1>9. K!RestOf(cells, size) = aes
  <2>1. CASE aes # <<>>
    <3>1. SubSeq(block \o aes, Len(block) + 1, Len(block) + Len(aes)) = aes
      BY <1>6, <2>1, BackOf
    <3> QED
      BY <1>3, <1>6, <1>7, <3>1 DEF K!RestOf
  <2>2. CASE aes = <<>>
    <3>1. Len(cells) = size
      BY <1>1, <1>7, <2>2
    <3>2. SubSeq(cells, size + 1, Len(cells)) = <<>>
      BY <1>1, <1>7, <3>1
    <3> QED
      BY <2>2, <3>2 DEF K!RestOf
  <2> QED
    BY <2>1, <2>2
<1>10. Len(cells) >= size
  BY <1>1, <1>4, <1>6, <1>7
<1> QED
  BY <1>4, <1>5, <1>6, <1>7, <1>8, <1>9, <1>10 DEF cells, block, aes, size

LEMMA DecryptedIs ==
  ASSUME K!CryptAssumption, NEW pair \in KeyPair, NEW by \in K!Halves,
         KeyLen <= K!Room(pair), NEW text \in Seq(Nat), text # <<>>,
         NEW other \in KeyPair, NEW half \in K!Halves
  PROVE  K!Decrypted(other, half, K!Encrypted(pair, by, text))
           = IF other = pair /\ half = K!Other(by) THEN text ELSE <<>>
<1> DEFINE cells == K!Encrypted(pair, by, text)
           front == K!FirstOf(cells, RsaSize[other])
<1>1. PICK first, rest \in Seq(Nat) :
        /\ text = first \o rest
        /\ cells \in Seq(Cell) /\ Len(cells) >= RsaSize[pair]
        /\ cells[1] = [by |-> by, with |-> <<pair>>, at |-> 1, data |-> first]
        /\ K!FirstOf(cells, RsaSize[pair]) = K!RsaBlock(pair, by, first)
        /\ K!RestOf(cells, RsaSize[pair]) = K!Aes(first, rest)
  BY EncryptedIs
<1>2. /\ RsaSize[pair] \in Nat /\ RsaSize[pair] > 0
      /\ RsaSize[other] \in Nat /\ RsaSize[other] > 0
      /\ pair \in Nat /\ other \in Nat
  BY DEF K!CryptAssumption
<1> HIDE DEF cells
<1>3. front[1] = cells[1]
  <2> DEFINE n == IF RsaSize[other] < Len(cells) THEN RsaSize[other] ELSE Len(cells)
  <2>1. n \in 1..Len(cells)
    <3> DEFINE k == Len(cells)
               m == RsaSize[other]
    <3>1. k \in Nat /\ k > 0
      <4>1. k \in Nat /\ k >= RsaSize[pair]
        BY <1>1
      <4> QED
        BY <1>2, <4>1
    <3>2. m \in Nat /\ m > 0
      BY <1>2
    <3> HIDE DEF k, m
    <3>3. (IF m < k THEN m ELSE k) \in 1..k
      BY <3>1, <3>2
    <3> QED
      BY <3>3 DEF k, m
  <2> HIDE DEF n
  <2>2. SubSeq(cells, 1, n)[1] = cells[1]
    BY <1>1, <2>1
  <2> QED
    BY <2>2 DEF K!FirstOf, n
<1>4. CASE ~(other = pair /\ half = K!Other(by))
  <2>1. ASSUME K!IsBlock(other, half, front) PROVE FALSE
    <3> HIDE DEF front
    <3>1. front[1].by = K!Other(half) /\ front[1].with = <<other>>
      BY <2>1, BlockBegins
    <3>2. front[1].by = by /\ front[1].with = <<pair>>
      BY <1>1, <1>3
    <3>3. by = K!Other(half) /\ other = pair
      BY <1>2, <3>1, <3>2
    <3> QED
      BY <1>4, <3>3, OtherIs
  <2> QED
    BY <1>4, <2>1 DEF K!Decrypted, cells
<1>5. CASE other = pair /\ half = K!Other(by)
  <2>1. by = K!Other(half)
    BY <1>5, OtherIs
  <2>2. K!IsBlock(other, half, front)
    <3>1. front = K!RsaBlock(pair, by, first)
      BY <1>1, <1>5
    <3> HIDE DEF front
    <3>2. /\ Len(front) = RsaSize[pair]
          /\ front[1] = [by |-> by, with |-> <<pair>>, at |-> 1, data |-> first]
      BY <3>1, BlockIs
    <3>3. front[1].data = first
      BY <3>2
    <3> QED
      BY <1>5, <2>1, <3>1, <3>2, <3>3 DEF K!IsBlock
  <2>3. K!Decrypted(other, half, cells) = first \o K!UnAes(first, K!RestOf(cells, RsaSize[pair]))
    <3>1. cells[1].data = first
      BY <1>1
    <3> QED
      BY <1>5, <2>2, <3>1 DEF K!Decrypted
  <2>4. K!UnAes(first, K!RestOf(cells, RsaSize[pair])) = rest
    BY <1>1, AesIs
  <2> QED
    BY <1>1, <1>5, <2>3, <2>4 DEF cells
<1> QED
  BY <1>4, <1>5

LEMMA CryptInitIInv == K!Init => K!IInv
  BY DEF K!Init, K!IInv, K!Holdings, K!New, K!NoKey, K!OwnsKey

(* What a copy reads is of a handle's kind, and its session key is not on  *)
(* the stack, or its own.                                                  *)
LEMMA UnpackedIs ==
  ASSUME NEW c \in K!Holdings, NEW from \in K!Holdings, NEW parts
  PROVE  /\ K!Unpacked(c, from, parts) \in K!Holdings
         /\ \/ K!Unpacked(c, from, parts).seskey.at # "stack"
            \/ K!Unpacked(c, from, parts).seskey = c.seskey
<1> DEFINE read(part) == IF part \in parts THEN from[part] ELSE c[part]
           key == IF from.seskey_len > 0 THEN [at |-> "heap", size |-> from.seskey_len]
                                         ELSE K!NoKey
           kept == IF "seskey" \in parts THEN key ELSE c.seskey
<1>1. /\ read("cert") \in KeyPair \cup {0} /\ read("req") \in KeyPair \cup {0}
      /\ read("pkey") \in KeyPair \cup {0}
  BY DEF K!Holdings
<1>2. /\ kept \in [at : {"null", "heap", "stack"}, size : Nat]
      /\ kept.at # "stack" \/ kept = c.seskey
  <2>1. from.seskey_len \in Nat /\ c.seskey \in [at : {"null", "heap", "stack"}, size : Nat]
    BY DEF K!Holdings
  <2>2. key \in [at : {"null", "heap", "stack"}, size : Nat] /\ key.at # "stack"
    BY <2>1 DEF K!NoKey
  <2> HIDE DEF key
  <2> QED
    BY <2>1, <2>2
<1>3. K!Unpacked(c, from, parts) = [c EXCEPT !.cert = read("cert"), !.req = read("req"),
                                             !.pkey = read("pkey"), !.seskey = kept]
  BY DEF K!Unpacked
<1> HIDE DEF read, kept
<1>4. c = [req |-> c.req, cert |-> c.cert, pkey |-> c.pkey, seskey |-> c.seskey,
           seskey_len |-> c.seskey_len] /\ c.seskey_len \in Nat
  BY DEF K!Holdings
<1>5. K!Unpacked(c, from, parts) = [req |-> read("req"), cert |-> read("cert"),
        pkey |-> read("pkey"), seskey |-> kept, seskey_len |-> c.seskey_len]
  BY <1>3, <1>4
<1> QED
  BY <1>1, <1>2, <1>4, <1>5 DEF K!Holdings

(* One handle changes, and does not get a key of the stack.                *)
LEMMA OneChanges ==
  ASSUME K!IInv, NEW h \in CryptHandle, NEW c \in K!Holdings,
         v1' = [v1 EXCEPT ![h] = c], v2' = v2, v3 \subseteq v3',
         c.seskey.at = "stack" => v1[h].seskey.at = "stack" \/ h \in v3'
  PROVE  K!IInv'
<1>1. v1' \in [CryptHandle -> K!Holdings]
  BY DEF K!IInv
<1>2. \A g \in CryptHandle : v1'[g] = IF g = h THEN c ELSE v1[g]
  BY DEF K!IInv
<1>3. K!OwnsKey'
  BY <1>2 DEF K!IInv, K!OwnsKey
<1>4. (v2.enc = <<>>)' = (v2.enc = <<>>)
  OBVIOUS
<1> QED
  BY <1>1, <1>3 DEF K!IInv

LEMMA CryptNextIInv ==
  ASSUME K!CryptAssumption
  PROVE  K!IInv /\ [K!Next]_(K!vars) => K!IInv'
<1> SUFFICES ASSUME K!IInv, [K!Next]_(K!vars)
             PROVE  K!IInv'
  OBVIOUS
<1>1. /\ v1 \in [CryptHandle -> K!Holdings]
      /\ KeyPair \subseteq Nat \ {0}
      /\ \A h \in CryptHandle : v1[h] \in K!Holdings
  BY DEF K!IInv, K!CryptAssumption
<1>2. \A h \in CryptHandle : v1[h].seskey.at = "stack" => h \in v3
  BY DEF K!IInv, K!OwnsKey
<1>3. ASSUME NEW h \in CryptHandle, NEW k \in KeyPair \cup {0}, K!cryptbk_req_gen(h, k)
      PROVE  K!IInv'
  <2> DEFINE c == [v1[h] EXCEPT !.pkey = k, !.req = k]
  <2>1. c \in K!Holdings /\ c.seskey = v1[h].seskey
    BY <1>1 DEF K!Holdings
  <2>2. v1' = [v1 EXCEPT ![h] = c] /\ v2' = v2 /\ v3' = v3
    BY <1>1, <1>3 DEF K!cryptbk_req_gen
  <2> QED
    BY <2>1, <2>2, OneChanges
<1>4. ASSUME NEW h \in CryptHandle, NEW g \in CryptHandle, K!cryptbk_req_sign(h, g)
      PROVE  K!IInv'
  <2>1. CASE K!ToSign(v1[h]) = 0
    <3>1. v1' = v1 /\ v2' = v2 /\ v3' = v3
      BY <1>4, <2>1 DEF K!cryptbk_req_sign, K!Failed
    <3> QED
      BY <3>1 DEF K!IInv, K!OwnsKey
  <2>2. CASE K!ToSign(v1[h]) # 0
    <3> DEFINE c == [v1[h] EXCEPT !.cert = K!ToSign(v1[h])]
    <3>1. c \in K!Holdings /\ c.seskey = v1[h].seskey
      BY <1>1 DEF K!Holdings, K!ToSign
    <3>2. v1' = [v1 EXCEPT ![h] = c] /\ v2' = v2 /\ v3' = v3
      BY <1>1, <1>4, <2>2 DEF K!cryptbk_req_sign
    <3> QED
      BY <3>1, <3>2, OneChanges
  <2> QED
    BY <2>1, <2>2
<1>5. ASSUME NEW h \in CryptHandle, NEW n \in {16},
             K!cryptbk_seskey_rand(h, n) \/ K!cryptbk_seskey_set(h, n)
      PROVE  K!IInv'
  <2> DEFINE new == [v1[h] EXCEPT !.seskey = [at |-> "heap", size |-> n], !.seskey_len = n]
             lost == [v1[h] EXCEPT !.seskey = K!NoKey]
  <2>1. /\ new \in K!Holdings /\ new.seskey.at # "stack"
        /\ lost \in K!Holdings /\ lost.seskey.at # "stack"
    <3>1. v1[h] \in K!Holdings /\ n \in Nat
      BY <1>1
    <3>2. /\ [at |-> "heap", size |-> n] \in [at : {"null", "heap", "stack"}, size : Nat]
          /\ [at |-> "null", size |-> 0] \in [at : {"null", "heap", "stack"}, size : Nat]
      BY <3>1
    <3>3. new \in K!Holdings /\ new.seskey = [at |-> "heap", size |-> n]
      BY <3>1, <3>2 DEF K!Holdings
    <3>4. lost \in K!Holdings /\ lost.seskey = [at |-> "null", size |-> 0]
      BY <3>1, <3>2 DEF K!Holdings, K!NoKey
    <3> HIDE DEF new, lost
    <3> QED
      BY <3>3, <3>4
  <2>2. /\ v1' = [v1 EXCEPT ![h] = new] \/ v1' = [v1 EXCEPT ![h] = lost]
        /\ v2' = v2 /\ v3' = v3
    BY <1>1, <1>5 DEF K!cryptbk_seskey_rand, K!cryptbk_seskey_set
  <2> HIDE DEF new, lost
  <2>3. CASE v1' = [v1 EXCEPT ![h] = new]
    BY <2>1, <2>2, <2>3, OneChanges
  <2>4. CASE v1' = [v1 EXCEPT ![h] = lost]
    BY <2>1, <2>2, <2>4, OneChanges
  <2> QED
    BY <2>2, <2>3, <2>4
<1>6. ASSUME NEW h \in CryptHandle, NEW g \in CryptHandle \ {h}, K!cryptbk_seskey_swap(h, g)
      PROVE  K!IInv'
  <2> DEFINE c == [v1[h] EXCEPT !.seskey = v1[g].seskey, !.seskey_len = v1[g].seskey_len]
             d == [v1[g] EXCEPT !.seskey = v1[h].seskey, !.seskey_len = v1[h].seskey_len]
  <2>1. /\ c \in K!Holdings /\ c.seskey = v1[g].seskey
        /\ d \in K!Holdings /\ d.seskey = v1[h].seskey
    BY <1>1 DEF K!Holdings
  <2>2. v1' = [[v1 EXCEPT ![h] = c] EXCEPT ![g] = d] /\ v2' = v2
    BY <1>1, <1>6 DEF K!cryptbk_seskey_swap
  <2>3. v3' = {x \in v3 : x \notin {h, g}} \cup (IF h \in v3 THEN {g} ELSE {})
                                          \cup (IF g \in v3 THEN {h} ELSE {})
    BY <1>6 DEF K!cryptbk_seskey_swap
  <2> HIDE DEF c, d
  <2>4. \A x \in CryptHandle : v1'[x] = IF x = g THEN d ELSE IF x = h THEN c ELSE v1[x]
    BY <1>1, <2>2
  <2>5. v1' \in [CryptHandle -> K!Holdings]
    BY <1>1, <2>1, <2>2
  <2>6. ASSUME NEW x \in CryptHandle, v1'[x].seskey.at = "stack"
        PROVE  x \in v3'
    <3>1. CASE x = g
      BY <1>2, <2>1, <2>3, <2>4, <2>6, <3>1
    <3>2. CASE x = h
      BY <1>2, <1>6, <2>1, <2>3, <2>4, <2>6, <3>2
    <3>3. CASE x \notin {g, h}
      BY <1>2, <2>3, <2>4, <2>6, <3>3
    <3> QED
      BY <3>1, <3>2, <3>3
  <2> QED
    BY <2>2, <2>5, <2>6 DEF K!IInv, K!OwnsKey
<1>7. ASSUME NEW h \in CryptHandle, K!cryptbk_delete(h)
      PROVE  K!IInv'
  <2>1. K!New \in K!Holdings /\ K!New.seskey.at # "stack"
    BY DEF K!New, K!NoKey, K!Holdings
  <2>2. v1' = [v1 EXCEPT ![h] = K!New] /\ v2' = v2 /\ v3' = v3
    BY <1>7 DEF K!cryptbk_delete
  <2> QED
    BY <2>1, <2>2, OneChanges
<1>8. ASSUME NEW dst \in CryptHandle, NEW src \in CryptHandle, NEW parts,
             K!cryptbk_copy(dst, src, parts)
      PROVE  K!IInv'
  <2>1. CASE \A part \in parts : K!Present(v1[src], part)
    <3> DEFINE c == K!Unpacked(v1[dst], v1[src], parts)
    <3>1. /\ c \in K!Holdings
          /\ c.seskey.at # "stack" \/ c.seskey = v1[dst].seskey
      BY <1>1, UnpackedIs
    <3>2. v1' = [v1 EXCEPT ![dst] = c] /\ v2' = v2 /\ v3' = v3
      BY <1>8, <2>1 DEF K!cryptbk_copy
    <3> HIDE DEF c
    <3> QED
      BY <3>1, <3>2, OneChanges
  <2>2. CASE ~(\A part \in parts : K!Present(v1[src], part))
    <3>1. v1' = v1 /\ v2' = v2 /\ v3' = v3
      BY <1>8, <2>2 DEF K!cryptbk_copy, K!Failed
    <3> QED
      BY <3>1 DEF K!IInv, K!OwnsKey
  <2> QED
    BY <2>1, <2>2
<1>9. ASSUME NEW h \in CryptHandle, NEW half \in K!Halves, NEW n \in 1..MaxText,
             K!Encrypt(h, half, [i \in 1..n |-> i])
      PROVE  K!IInv'
  <2> DEFINE text == [i \in 1..n |-> i]
             pair == v1[h][half]
  <2>1. text \in Seq(Nat) /\ text # <<>>
    <3>1. n \in Nat /\ n > 0
      BY DEF K!CryptAssumption
    <3>2. text \in Seq(Nat) /\ Len(text) = n
      BY <3>1
    <3> QED
      BY <3>1, <3>2
  <2>2. pair \in KeyPair
    BY <1>1, <1>9 DEF K!Holdings, K!Halves, K!Encrypt
  <2> HIDE DEF text
  <2>3. CASE KeyLen > K!Room(pair)
    <3>1. v1' = v1 /\ v2' = v2 /\ v3' = v3
      BY <1>9, <2>3 DEF K!Encrypt, K!Failed
    <3> QED
      BY <3>1 DEF K!IInv, K!OwnsKey
  <2>4. CASE ~(KeyLen > K!Room(pair))
    <3>1. KeyLen <= K!Room(pair)
      <4> HIDE DEF pair
      <4>1. KeyLen \in Int /\ RsaSize[pair] \in Int
        BY <2>2 DEF K!CryptAssumption
      <4>2. K!Room(pair) \in Int
        BY <4>1 DEF K!Room
      <4> QED
        BY <2>4, <4>1, <4>2
    <3>2. /\ v2' = [plain |-> text, enc |-> K!Encrypted(pair, half, text), pair |-> pair,
                    half |-> half]
          /\ v1' = v1 /\ v3' = v3
      BY <1>1, <1>9, <2>4 DEF K!Encrypt, K!KeyAfterRsa, text
    <3> HIDE DEF pair
    <3>3. /\ v2'.plain = text /\ v2'.pair = pair /\ v2'.half = half
          /\ v2'.enc = K!Encrypted(pair, half, text)
      BY <3>2
    <3>4. K!OwnsKey'
      BY <1>2, <3>2 DEF K!OwnsKey
    <3> QED
      BY <1>1, <2>1, <2>2, <3>1, <3>2, <3>3, <3>4 DEF K!IInv
  <2> QED
    BY <2>3, <2>4
<1>10. ASSUME NEW h \in CryptHandle, NEW half \in K!Halves, NEW room \in BOOLEAN,
              K!Decrypt(h, half, room)
       PROVE  K!IInv'
  <2> DEFINE text == IF room THEN K!Decrypted(v1[h][half], half, v2.enc) ELSE <<>>
             left == [v1[h] EXCEPT !.seskey = [at |-> "stack", size |-> KeyLen],
                                   !.seskey_len = KeyLen]
  <2>1. CASE KeyLen > RsaSize[v1[h][half]]
    <3>1. v1' = v1 /\ v2' = v2 /\ v3' = v3
      BY <1>10, <2>1 DEF K!Decrypt, K!Failed
    <3> QED
      BY <3>1 DEF K!IInv, K!OwnsKey
  <2>2. CASE ~(KeyLen > RsaSize[v1[h][half]]) /\ text # <<>>
    <3>1. v1' = v1 /\ v2' = v2 /\ v3' = v3
      BY <1>1, <1>10, <2>2 DEF K!Decrypt, K!KeyAfterRsa
    <3> QED
      BY <3>1 DEF K!IInv, K!OwnsKey
  <2>3. CASE ~(KeyLen > RsaSize[v1[h][half]]) /\ text = <<>>
    <3>1. v1' = [v1 EXCEPT ![h] = left] /\ v2' = v2 /\ v3' = v3 \cup {h}
      BY <1>10, <2>3 DEF K!Decrypt, K!KeyAfterRsa
    <3>2. left \in K!Holdings
      BY <1>1 DEF K!Holdings, K!CryptAssumption
    <3> HIDE DEF left
    <3> QED
      BY <3>1, <3>2, OneChanges
  <2> QED
    BY <2>1, <2>2, <2>3
<1>11. CASE UNCHANGED K!vars
  BY <1>11 DEF K!IInv, K!OwnsKey, K!vars
<1> QED
  BY <1>3, <1>4, <1>5, <1>6, <1>7, <1>8, <1>9, <1>10, <1>11 DEF K!Next

LEMMA CryptIInvImplies ==
  ASSUME K!CryptAssumption
  PROVE  K!IInv => K!RoundTrip /\ K!OwnsKey
<1> SUFFICES ASSUME K!IInv, v2.enc # <<>>, NEW pair \in KeyPair, NEW half \in K!Halves
             PROVE  K!Decrypted(pair, half, v2.enc)
                      = IF pair = v2.pair /\ half = K!Other(v2.half) THEN v2.plain ELSE <<>>
  BY DEF K!IInv, K!RoundTrip
<1>1. /\ v2.pair \in KeyPair /\ KeyLen <= K!Room(v2.pair) /\ v2.half \in K!Halves
      /\ v2.plain \in Seq(Nat) /\ v2.plain # <<>>
      /\ v2.enc = K!Encrypted(v2.pair, v2.half, v2.plain)
  BY DEF K!IInv
<1>2. K!Decrypted(pair, half, K!Encrypted(v2.pair, v2.half, v2.plain))
        = IF pair = v2.pair /\ half = K!Other(v2.half) THEN v2.plain ELSE <<>>
  BY <1>1, DecryptedIs
<1> QED
  BY <1>1, <1>2

-----------------------------------------------------------------------------
(* The whole: a step is one of the part that runs, or none of its.         *)
LEMMA PartInits ==
  ASSUME AllInit
  PROVE  /\ which = "server" => H!Init
         /\ which = "crypt" => K!Init
         /\ which = "state" => T!state_init
         /\ which = "proc" => P!Init
         /\ which = "winpipe" => W!Init
         /\ which = "winrun" => R!Init
         /\ which = "service" => V!Init
         /\ which = "winselect" => F!WinInit
  BY Zenon DEF AllInit, PartInit

LEMMA PartSteps ==
  ASSUME [AllNext]_allVars
  PROVE  /\ which' = which
         /\ which = "server" => [H!Next]_(H!vars)
         /\ which = "crypt" => [K!Next]_(K!vars)
         /\ which = "state" => [T!Next]_(T!vars)
         /\ which = "proc" => [P!Next]_(P!vars)
         /\ which = "winpipe" => [W!Next]_(W!vars)
         /\ which = "winrun" => [R!Next]_(R!vars)
         /\ which = "service" => [V!Next]_(V!vars)
         /\ which = "winselect" => [F!WinNext]_(F!winVars)
<1>1. CASE AllNext
  BY <1>1
     DEF AllNext, SendStep, ServerStep, UpdateStep, CryptStep, StateStep, ProcStep, WinpipeStep,
         WinrunStep, ServiceStep, WinselectStep
<1>2. CASE UNCHANGED allVars
  <2>1. /\ which' = which /\ v1' = v1 /\ v2' = v2 /\ v3' = v3 /\ v4' = v4 /\ v5' = v5
        /\ v6' = v6 /\ v7' = v7 /\ v8' = v8 /\ v9' = v9 /\ v10' = v10 /\ v11' = v11
        /\ v12' = v12 /\ v13' = v13 /\ v14' = v14
    BY <1>2
    DEF allVars, v1on, v4on, v5on, v6on, v7on, v8on, v9on, v10on, v11on, v12on, v13on, v14on
  <2> QED
    BY <2>1
    DEF H!vars, H!threadVars, H!remoteVars, K!vars, T!vars, P!vars, W!vars, R!vars, R!childVars,
        V!vars, V!service, F!winVars, F!vars, F!osVars
<1> QED
  BY <1>1, <1>2

(* The invariants of the parts, each for the behaviours that are its own.  *)
PartsInv ==
  /\ which = "server" => H!IInv
  /\ which = "crypt" => K!IInv
  /\ which = "state" => T!IInv
  /\ which = "proc" => P!IInv
  /\ which = "winpipe" => W!IInv
  /\ which = "winrun" => R!IInv
  /\ which = "service" => V!IInv
  /\ which = "winselect" /\ ~HandleCalls => F!WinIInv

LEMMA InitPartsInv == AllInit => PartsInv
  BY SystemAssumption, PartInits, H!InitIInv, CryptInitIInv, StateInitIInv, ProcInitIInv,
     PipeInitIInv, RunInitIInv, ServiceInitIInv, F!WinInitIInv
  DEF PartsInv

LEMMA NextPartsInv == PartsInv /\ [AllNext]_allVars => PartsInv'
<1> SUFFICES ASSUME PartsInv, [AllNext]_allVars PROVE PartsInv'
  OBVIOUS
<1>1. which' = which
  BY PartSteps
<1>2. which = "server" => H!IInv'
  BY SystemAssumption, PartSteps, H!NextIInv DEF PartsInv
<1>3. which = "state" => T!IInv'
  BY SystemAssumption, PartSteps, StateNextIInv DEF PartsInv
<1>4. which = "proc" => P!IInv'
  BY SystemAssumption, PartSteps, ProcNextIInv DEF PartsInv
<1>5. which = "winpipe" => W!IInv'
  BY PartSteps, PipeNextIInv DEF PartsInv
<1>6. which = "winrun" => R!IInv'
  BY SystemAssumption, PartSteps, RunNextIInv DEF PartsInv
<1>7. which = "service" => V!IInv'
  BY PartSteps, ServiceNextIInv DEF PartsInv
<1>8. ASSUME which = "winselect", ~HandleCalls PROVE F!WinIInv'
  <2>1. F!WinIInv /\ [F!WinNext]_(F!winVars)
    BY <1>8, PartSteps DEF PartsInv
  <2> QED
    BY <1>8, <2>1, SystemAssumption, F!WinNextIInv DEF F!FdselectAssumption
<1>9. which = "crypt" => K!IInv'
  BY SystemAssumption, PartSteps, CryptNextIInv DEF PartsInv
<1> QED
  BY <1>1, <1>2, <1>3, <1>4, <1>5, <1>6, <1>7, <1>8, <1>9 DEF PartsInv

LEMMA PartsKept == AllFairSpec => []PartsInv
  BY InitPartsInv, NextPartsInv, PTL DEF AllFairSpec, AllSpec

(* http_server.c: for any number of connections and descriptors, until     *)
(* descriptor 0 is handed out again, what is open is what the live clients *)
(* hold, each its own, and each waits for the one event that it should.    *)
THEOREM ServerOwns == AllFairSpec => []Ownership
<1>1. PartsInv => Ownership
  BY H!IInvImplies DEF PartsInv, Ownership
<1> QED
  BY <1>1, PartsKept, PTL

(* http_server_client_select_write: no client is freed before the whole of *)
(* its file was given to the kernel, but one whose connection broke or     *)
(* whose file sendfile cannot read.                                        *)
THEOREM ServerSendsWhole == AllFairSpec => WholeFile
<1>1. PartsInv /\ [AllNext]_allVars => [which = "server" => H!FileSent]_allVars
  BY SystemAssumption, PartSteps, H!FileSentStep DEF PartsInv
<1> QED
  BY <1>1, PartsKept, PTL DEF AllFairSpec, AllSpec, WholeFile

(* cryptbk_crypt, for keys and texts of any size: what is encrypted with   *)
(* one key is decrypted with it, and with no other; and a handle has the   *)
(* key of a function that has returned only when RSA failed.               *)
THEOREM SecretsAlwaysKept == AllFairSpec => []SecretsKept
<1>1. PartsInv => SecretsKept
  BY SystemAssumption, CryptIInvImplies DEF PartsInv, SecretsKept
<1> QED
  BY <1>1, PartsKept, PTL

(* state_poll keeps to the table, whatever table it is.                    *)
THEOREM StatesTried == AllFairSpec => []TriedInTime
<1>1. PartsInv => TriedInTime
  BY DEF PartsInv, TriedInTime, T!IInv
<1> QED
  BY <1>1, PartsKept, PTL

(* For any number of children: of proc_unix.c, they do not keep each       *)
(* other's inputs open in a circle, and nobody keeps the output of one     *)
(* open; of proc_win32.c, none gets an end of a pipe that is the program's *)
(* and proc_wait says of none without pipes that it has ended before it    *)
(* has; proc_run_stdbuf closes every handle it has opened, whichever of    *)
(* its calls fails, and leaves room for the zero, for any buffer's length. *)
THEOREM PipesKept == AllFairSpec => []EndsKept
<1>1. PartsInv => EndsKept
  BY PipeIInvImplies, RunIInvImplies DEF PartsInv, EndsKept, P!IInv, P!EndsInv
<1> QED
  BY <1>1, PartsKept, PTL

(* fdselect_win32.c and service_win32.c, for any descriptors, callbacks    *)
(* and programs: the loop never uses a slot that a callback has changed,   *)
(* provided that no handle's callback changes one; what Windows records    *)
(* wakes the thread; the manager does not take a running service for       *)
(* stopped; and who installs alone has installed.                          *)
THEOREM WindowsAlwaysKept ==
  ASSUME ~HandleCalls
  PROVE  AllFairSpec => []WindowsKept
<1>1. PartsInv => WindowsKept
  <2>1. PartsInv /\ which = "winselect" => F!WinSlotValid /\ F!ReadNoticed
    BY SystemAssumption, F!WinIInvImplies DEF PartsInv, F!FdselectAssumption
  <2>2. PartsInv /\ which = "service" => V!ServiceKept
    BY ServiceIInvImplies DEF PartsInv
  <2> QED
    BY <2>1, <2>2 DEF WindowsKept
<1> QED
  BY <1>1, PartsKept, PTL

-----------------------------------------------------------------------------
(* sendlist.c.                                                             *)
(* A sendbuf leaves the queue at the head only: those that are gone are    *)
(* the first, and the place of a sendbuf in the queue tells its id.        *)
Gone == Len(sizes) - Len(sendbufs)

Freeing == Top \in {"free", "closefree"}

(* Only the head is sent in part.                                          *)
QueueInv ==
  /\ Len(sizes) <= MaxSends
  /\ Len(sendbufs) <= Len(sizes)
  /\ \A i \in DOMAIN sendbufs :
       /\ sendbufs[i].id = Gone + i
       /\ sendbufs[i].off + sendbufs[i].len = sizes[Gone + i]
       /\ i > 1 => sendbufs[i].off = 0
       /\ sendbufs[i].kind = "shutdown" => sizes[Gone + i] = 0

(* Calls are made from flushed_func, or from outside: what is below the    *)
(* top of the stack is waiting in flushed_func.                            *)
FrameInv ==
  /\ \A i \in 2..Len(stack) : stack[i] = "flushed"
  /\ Freeing => sendbufs # <<>>

(* Sendbufs are freed in the order of their ids; one being freed is the    *)
(* head still.                                                             *)
FreedInv ==
  /\ Len(freed) = Gone + (IF Freeing THEN 1 ELSE 0)
  /\ \A i \in DOMAIN freed : freed[i][1] = i

(* On the wire are bytes of sendbufs that are gone, and of the head those  *)
(* before its offset, the last of them at the end.                         *)
WireInv ==
  /\ Len(wire) - drained <= TxMax
  /\ \A j \in DOMAIN wire :
       \/ wire[j][1] <= Gone
       \/ sendbufs # <<>> /\ wire[j][1] = Gone + 1 /\ wire[j][2] < sendbufs[1].off
  /\ sendbufs # <<>> =>
       /\ Cardinality(BytesOf(Gone + 1)) = sendbufs[1].off
       /\ sendbufs[1].off > 0 =>
            wire # <<>> /\ wire[Len(wire)] = <<Gone + 1, sendbufs[1].off - 1>>

(* Between calls, and when flushed_func has been called, the registration  *)
(* is settled.                                                             *)
SettledInv == Top \in {"app", "flushed"} => (selected <=> (sendbufs # <<>> /\ err # -1))

IInv ==
  /\ TypeOK /\ QueueInv /\ FrameInv /\ FreedInv /\ WireInv
  /\ WireInOrder /\ FreedWhenSent /\ SettledInv

LEMMA InitIInv == Init => IInv
<1> SUFFICES ASSUME Init PROVE IInv
  OBVIOUS
<1>1. /\ sendbufs = <<>> /\ stack = <<>> /\ sizes = <<>> /\ wire = <<>> /\ freed = <<>>
      /\ selected = FALSE /\ err = 0 /\ shut = 0 /\ drained = 0 /\ broken = FALSE
  BY DEF Init
<1>2. Top = "app" /\ Gone = 0 /\ ~Freeing
  BY <1>1 DEF Top, Gone, Freeing
<1>3. TypeOK
  <2>1. <<>> \in Seq(Sendbuf) /\ <<>> \in Seq(Frame) /\ <<>> \in Seq(Sizes \cup {0})
    OBVIOUS
  <2>2. <<>> \in Seq((1..MaxSends) \X Nat) /\ <<>> \in Seq((1..MaxSends) \X {"sent", "closed"})
    OBVIOUS
  <2>3. shut \in 0..MaxSends /\ drained \in 0..Len(wire)
    BY <1>1, SendListAssumption DEF SendListAssumption
  <2> QED
    BY <1>1, <2>1, <2>2, <2>3 DEF TypeOK
<1>4. QueueInv /\ FrameInv /\ FreedInv /\ SettledInv
  BY <1>1, <1>2, SendListAssumption
     DEF QueueInv, FrameInv, FreedInv, SettledInv, SendListAssumption
<1>5. WireInv /\ WireInOrder /\ FreedWhenSent
  BY <1>1, <1>2, SendListAssumption DEF WireInv, WireInOrder, FreedWhenSent, SendListAssumption
<1> QED
  BY <1>3, <1>4, <1>5 DEF IInv

(* What a call does to the stack.                                          *)
LEMMA StackPush ==
  ASSUME TypeOK, FrameInv, Top \in {"app", "flushed"}, NEW f \in Frame, Push(f)
  PROVE  /\ stack' \in Seq(Frame) /\ Top' = f
         /\ \A i \in 2..Len(stack') : stack'[i] = "flushed"
<1>1. stack \in Seq(Frame)
  BY DEF TypeOK
<1>2. stack # <<>> => stack[1] = "flushed"
  BY <1>1 DEF Top, Frame
<1>3. /\ stack' \in Seq(Frame) /\ Len(stack') = Len(stack) + 1 /\ stack'[1] = f
      /\ \A i \in 2..Len(stack') : stack'[i] = stack[i - 1]
  BY <1>1 DEF Push
<1> QED
  BY <1>1, <1>2, <1>3 DEF Top, FrameInv

LEMMA StackReplace ==
  ASSUME TypeOK, FrameInv, Top # "app", NEW f \in Frame, Replace(f)
  PROVE  /\ stack' \in Seq(Frame) /\ Top' = f
         /\ \A i \in 2..Len(stack') : stack'[i] = "flushed"
<1>1. stack \in Seq(Frame) /\ stack # <<>>
  BY DEF TypeOK, Top
<1>2. /\ stack' \in Seq(Frame) /\ Len(stack') = Len(stack) /\ stack'[1] = f
      /\ \A i \in 2..Len(stack') : stack'[i] = stack[i]
  BY <1>1 DEF Replace
<1> QED
  BY <1>1, <1>2 DEF Top, FrameInv

LEMMA StackPop ==
  ASSUME TypeOK, FrameInv, Top # "app", stack' = Tail(stack)
  PROVE  /\ stack' \in Seq(Frame) /\ Top' \in {"app", "flushed"}
         /\ \A i \in 2..Len(stack') : stack'[i] = "flushed"
<1>1. stack \in Seq(Frame) /\ stack # <<>>
  BY DEF TypeOK, Top
<1>2. /\ stack' \in Seq(Frame) /\ Len(stack') = Len(stack) - 1
      /\ \A i \in 1..Len(stack') : stack'[i] = stack[i + 1]
  BY <1>1
<1> QED
  BY <1>1, <1>2 DEF Top, FrameInv

(* Steps that leave the queue and the wire alone keep most of it.          *)
LEMMA QuietIInv ==
  ASSUME IInv, UNCHANGED <<sendbufs, sizes, wire, shut, drained>>,
         broken' \in BOOLEAN, selected' \in BOOLEAN, err' \in {-1, 0, 1},
         stack' \in Seq(Frame), \A i \in 2..Len(stack') : stack'[i] = "flushed",
         freed' \in Seq((1..MaxSends) \X {"sent", "closed"}),
         FreedInv', FreedWhenSent', Freeing' => sendbufs # <<>>, SettledInv'
  PROVE  IInv'
<1>1. TypeOK'
  BY DEF IInv, TypeOK
<1>2. Gone' = Gone
  BY DEF Gone
<1>3. BytesOf(Gone + 1)' = BytesOf(Gone + 1)
  BY <1>2 DEF BytesOf
<1>4. QueueInv' /\ FrameInv'
  BY <1>2 DEF IInv, QueueInv, FrameInv
<1>5. WireInv' /\ WireInOrder'
  BY <1>2, <1>3 DEF IInv, WireInv, WireInOrder
<1> QED
  BY <1>1, <1>4, <1>5 DEF IInv

LEMMA QuietFreed ==
  ASSUME IInv, UNCHANGED <<sendbufs, sizes, wire, freed>>, Freeing' <=> Freeing
  PROVE  FreedInv' /\ FreedWhenSent'
<1>1. Gone' = Gone
  BY DEF Gone
<1>2. FreedInv'
  BY <1>1 DEF IInv, FreedInv
<1>3. FreedWhenSent'
  BY DEF IInv, FreedWhenSent, BytesOf
<1> QED
  BY <1>2, <1>3

LEMMA KernelIInv ==
  ASSUME IInv, Kernel PROVE IInv'
<1>1. UNCHANGED <<sendbufs, stack, selected, err, sizes, wire, shut, freed>>
  BY DEF Kernel
<1>2. Top' = Top /\ (Freeing' <=> Freeing) /\ Gone' = Gone
  BY <1>1 DEF Top, Freeing, Gone
<1>3. /\ broken' \in BOOLEAN
      /\ drained \in 0..Len(wire) /\ drained' \in 0..Len(wire) /\ drained <= drained'
  <2>1. drained \in Nat /\ Len(wire) \in Nat /\ drained <= Len(wire)
    BY DEF IInv, TypeOK
  <2>2. CASE drained < Len(wire) /\ drained' = drained + 1 /\ UNCHANGED broken
    BY <2>1, <2>2 DEF IInv, TypeOK
  <2>3. CASE ~broken /\ broken' = TRUE /\ UNCHANGED drained
    BY <2>1, <2>3
  <2> QED
    BY <2>2, <2>3 DEF Kernel
<1>4. TypeOK'
  BY <1>1, <1>3 DEF IInv, TypeOK
<1>5. QueueInv' /\ FrameInv' /\ SettledInv'
  BY <1>1, <1>2 DEF IInv, QueueInv, FrameInv, SettledInv
<1>6. FreedInv' /\ FreedWhenSent'
  BY <1>1, <1>2, QuietFreed
<1>7. WireInOrder'
  BY <1>1 DEF IInv, WireInOrder
<1>8. WireInv'
  <2>1. Len(wire) - drained' <= TxMax
    BY <1>3, SendListAssumption DEF IInv, WireInv, TypeOK, SendListAssumption
  <2>2. BytesOf(Gone + 1)' = BytesOf(Gone + 1)
    BY <1>1, <1>2 DEF BytesOf
  <2> QED
    BY <1>1, <1>2, <2>1, <2>2 DEF IInv, WireInv
<1> QED
  BY <1>4, <1>5, <1>6, <1>7, <1>8 DEF IInv

(* The calls that only begin or end.                                       *)
LEMMA CallIInv ==
  ASSUME IInv, FreeMaySend = FALSE,
         sendlist_select_write \/ FlushedReturn \/ sendlist_close
  PROVE  IInv'
<1>1. UNCHANGED <<sendbufs, selected, err, sizes, wire, shut, drained, broken, freed>>
  BY DEF sendlist_select_write, FlushedReturn, sendlist_close
<1>2. /\ stack' \in Seq(Frame) /\ Top' \in {"flush", "close", "app", "flushed"}
      /\ Top' \in {"app", "flushed"} => Top \in {"app", "flushed"}
      /\ \A i \in 2..Len(stack') : stack'[i] = "flushed"
      /\ Top \in {"app", "flushed"}
  <2>1. CASE sendlist_select_write \/ sendlist_close
    <3>1. PICK f \in {"flush", "close"} : Push(f)
      BY <2>1 DEF sendlist_select_write, sendlist_close
    <3>2. Top \in {"app", "flushed"} /\ f \in Frame
      BY <2>1 DEF sendlist_select_write, sendlist_close, CanCall, Frame
    <3> QED
      BY <3>1, <3>2, StackPush DEF IInv
  <2>2. CASE FlushedReturn
    BY <2>2, StackPop DEF FlushedReturn, IInv
  <2> QED
    BY <2>1, <2>2
<1>3. ~Freeing' /\ ~Freeing
  BY <1>2 DEF Freeing
<1>4. FreedInv' /\ FreedWhenSent'
  BY <1>1, <1>3, QuietFreed
<1>5. SettledInv'
  BY <1>1, <1>2 DEF IInv, SettledInv
<1>6. broken' \in BOOLEAN /\ selected' \in BOOLEAN /\ err' \in {-1, 0, 1}
  BY <1>1 DEF IInv, TypeOK
<1>7. freed' \in Seq((1..MaxSends) \X {"sent", "closed"})
  BY <1>1 DEF IInv, TypeOK
<1> QED
  BY <1>1, <1>2, <1>3, <1>4, <1>5, <1>6, <1>7, QuietIInv

(* The end of a flush that leaves the queue alone: empty, or with an error.*)
LEMMA FlushEndIInv ==
  ASSUME IInv, FlushEmpty \/ FlushError
  PROVE  IInv'
<1>1. UNCHANGED <<sendbufs, sizes, wire, shut, drained, broken, freed>>
  BY DEF FlushEmpty, FlushError
<1>2. /\ Top = "flush" /\ Replace("flushed") /\ selected' = FALSE
      /\ (sendbufs = <<>> /\ err' = 0) \/ err' = -1
  <2>1. CASE FlushEmpty
    <3>1. (0 > 0) = FALSE
      OBVIOUS
    <3> QED
      BY <2>1, <3>1 DEF FlushEmpty, FlushEnd
  <2>2. CASE FlushError
    <3>1. (-1 > 0) = FALSE
      OBVIOUS
    <3> QED
      BY <2>2, <3>1 DEF FlushError, FlushEnd
  <2> QED
    BY <2>1, <2>2
<1>3. /\ stack' \in Seq(Frame) /\ Top' = "flushed"
      /\ \A i \in 2..Len(stack') : stack'[i] = "flushed"
  BY <1>2, StackReplace DEF IInv, Frame
<1>4. ~Freeing' /\ ~Freeing
  BY <1>2, <1>3 DEF Freeing
<1>5. FreedInv' /\ FreedWhenSent'
  BY <1>1, <1>4, QuietFreed
<1>6. SettledInv'
  BY <1>1, <1>2, <1>3 DEF SettledInv
<1>7. broken' \in BOOLEAN /\ selected' \in BOOLEAN /\ err' \in {-1, 0, 1}
  BY <1>1, <1>2 DEF IInv, TypeOK
<1>8. freed' \in Seq((1..MaxSends) \X {"sent", "closed"})
  BY <1>1 DEF IInv, TypeOK
<1> QED
  BY <1>1, <1>3, <1>4, <1>5, <1>6, <1>7, <1>8, QuietIInv

LEMMA CloseDoneIInv ==
  ASSUME IInv, CloseDone
  PROVE  IInv'
<1>1. /\ UNCHANGED <<sendbufs, err, sizes, wire, shut, drained, broken, freed>>
      /\ Top = "close" /\ sendbufs = <<>> /\ selected' = FALSE /\ stack' = Tail(stack)
  BY DEF CloseDone
<1>2. /\ stack' \in Seq(Frame) /\ Top' \in {"app", "flushed"}
      /\ \A i \in 2..Len(stack') : stack'[i] = "flushed"
  BY <1>1, StackPop DEF IInv
<1>3. ~Freeing' /\ ~Freeing
  BY <1>1, <1>2 DEF Freeing
<1>4. FreedInv' /\ FreedWhenSent'
  BY <1>1, <1>3, QuietFreed
<1>5. SettledInv'
  BY <1>1 DEF SettledInv
<1>6. broken' \in BOOLEAN /\ selected' \in BOOLEAN /\ err' \in {-1, 0, 1}
  BY <1>1 DEF IInv, TypeOK
<1>7. freed' \in Seq((1..MaxSends) \X {"sent", "closed"})
  BY <1>1 DEF IInv, TypeOK
<1> QED
  BY <1>1, <1>2, <1>3, <1>4, <1>5, <1>6, <1>7, QuietIInv

LEMMA InSeq ==
  ASSUME NEW S, NEW s \in Seq(S), NEW i \in 1..Len(s)
  PROVE  s[i] \in S
  OBVIOUS

LEMMA NatLens ==
  ASSUME IInv
  PROVE  /\ Len(sizes) \in Nat /\ Len(sendbufs) \in Nat /\ Gone \in Nat
         /\ DOMAIN sizes = 1..Len(sizes) /\ DOMAIN sendbufs = 1..Len(sendbufs)
         /\ DOMAIN wire = 1..Len(wire) /\ DOMAIN freed = 1..Len(freed)
         /\ Len(wire) \in Nat /\ Len(freed) \in Nat /\ drained \in 0..Len(wire)
         /\ Len(sizes) = Gone + Len(sendbufs)
  BY DEF IInv, TypeOK, QueueInv, Gone

LEMMA HeadTyped ==
  ASSUME IInv, sendbufs # <<>>
  PROVE  /\ sendbufs[1] \in Sendbuf /\ sendbufs[1].id = Gone + 1
         /\ sendbufs[1].off \in Nat /\ sendbufs[1].len \in Nat
         /\ sendbufs[1].off + sendbufs[1].len = sizes[Gone + 1]
         /\ Gone + 1 \in 1..MaxSends /\ 1 \in 1..Len(sendbufs)
<1>1. sendbufs \in Seq(Sendbuf) /\ 1 \in 1..Len(sendbufs)
  <2>1. sendbufs \in Seq(Sendbuf)
    BY DEF IInv, TypeOK
  <2> HIDE DEF Sendbuf
  <2> QED
    BY <2>1
<1>2. sendbufs[1] \in Sendbuf
  BY <1>1, InSeq
<1>3. /\ sendbufs[1].id = Gone + 1
      /\ sendbufs[1].off + sendbufs[1].len = sizes[Gone + 1]
  BY <1>1, NatLens DEF IInv, QueueInv
<1>4. sendbufs[1].off \in Nat /\ sendbufs[1].len \in Nat /\ sendbufs[1].id \in 1..MaxSends
  BY <1>2 DEF Sendbuf
<1> QED
  BY <1>1, <1>2, <1>3, <1>4

(* Something is queued, and its flush begins.                              *)
LEMMA SendIInv ==
  ASSUME IInv, FreeMaySend = FALSE,
         NEW kind \in {"buf", "fd", "shutdown"}, NEW n \in Sizes \cup {0},
         kind = "shutdown" => n = 0,
         sendlist_send(kind, n)
  PROVE  IInv'
<1> DEFINE id == Len(sizes) + 1
           b == [id |-> id, kind |-> kind, off |-> 0, len |-> n]
<1>1. /\ UNCHANGED <<selected, err, wire, shut, drained, broken, freed>>
      /\ Top \in {"app", "flushed"} /\ Push("flush") /\ Len(sizes) < MaxSends
      /\ sizes' = Append(sizes, n) /\ sendbufs' = Append(sendbufs, b)
  BY DEF sendlist_send, CanCall
<1>2. /\ stack' \in Seq(Frame) /\ Top' = "flush"
      /\ \A i \in 2..Len(stack') : stack'[i] = "flushed"
  BY <1>1, StackPush DEF IInv, Frame
<1>3. n \in Nat /\ id \in 1..MaxSends
  BY <1>1, NatLens, SendListAssumption DEF SendListAssumption
<1>4. /\ b \in Sendbuf
      /\ b.id = id /\ b.kind = kind /\ b.off = 0 /\ b.len = n
  BY <1>3 DEF Sendbuf
<1> HIDE DEF b
<1>5. /\ sizes' \in Seq(Sizes \cup {0}) /\ Len(sizes') = Len(sizes) + 1
      /\ sizes'[id] = n /\ \A i \in 1..Len(sizes) : sizes'[i] = sizes[i]
  <2>1. sizes \in Seq(Sizes \cup {0})
    BY DEF IInv, TypeOK
  <2> QED
    BY <1>1, <2>1
<1>6. /\ sendbufs' \in Seq(Sendbuf) /\ Len(sendbufs') = Len(sendbufs) + 1
      /\ sendbufs'[Len(sendbufs) + 1] = b
      /\ \A i \in 1..Len(sendbufs) : sendbufs'[i] = sendbufs[i]
      /\ sendbufs' # <<>>
  <2>1. sendbufs \in Seq(Sendbuf)
    BY DEF IInv, TypeOK
  <2> HIDE DEF Sendbuf
  <2> QED
    BY <1>1, <1>4, <2>1
<1>7. /\ Gone' = Gone /\ ~Freeing /\ ~Freeing' /\ id = Gone + Len(sendbufs) + 1
      /\ DOMAIN sendbufs' = 1..(Len(sendbufs) + 1)
  BY <1>1, <1>2, <1>5, <1>6, NatLens DEF Gone, Freeing
<1> HIDE DEF id
<1>8. TypeOK'
  BY <1>1, <1>2, <1>5, <1>6 DEF IInv, TypeOK
<1>9. QueueInv'
  <2>1. Len(sizes') <= MaxSends /\ Len(sendbufs') <= Len(sizes')
    BY <1>1, <1>5, <1>6, NatLens, SendListAssumption DEF IInv, QueueInv, SendListAssumption
  <2>2. ASSUME NEW i \in 1..Len(sendbufs)
        PROVE  /\ sendbufs'[i].id = Gone + i
               /\ sendbufs'[i].off + sendbufs'[i].len = sizes'[Gone + i]
               /\ i > 1 => sendbufs'[i].off = 0
               /\ sendbufs'[i].kind = "shutdown" => sizes'[Gone + i] = 0
    <3>1. sendbufs'[i] = sendbufs[i] /\ sizes'[Gone + i] = sizes[Gone + i]
      BY <1>5, <1>6, NatLens
    <3> QED
      BY <3>1, NatLens DEF IInv, QueueInv
  <2>3. /\ b.id = Gone + (Len(sendbufs) + 1) /\ b.off + b.len = sizes'[Gone + (Len(sendbufs) + 1)]
        /\ b.kind = "shutdown" => sizes'[Gone + (Len(sendbufs) + 1)] = 0
    <3>1. Gone + (Len(sendbufs) + 1) = id
      BY <1>7, NatLens
    <3> QED
      BY <1>3, <1>4, <1>5, <3>1
  <2>4. ASSUME NEW i \in DOMAIN sendbufs'
        PROVE  /\ sendbufs'[i].id = Gone + i
               /\ sendbufs'[i].off + sendbufs'[i].len = sizes'[Gone + i]
               /\ i > 1 => sendbufs'[i].off = 0
               /\ sendbufs'[i].kind = "shutdown" => sizes'[Gone + i] = 0
    <3>1. CASE i = Len(sendbufs) + 1
      BY <1>4, <1>6, <2>3, <3>1
    <3>2. CASE i \in 1..Len(sendbufs)
      BY <2>2, <3>2
    <3> QED
      BY <1>7, <3>1, <3>2, NatLens
  <2> QED
    BY <1>7, <2>1, <2>4 DEF QueueInv
<1>10. FrameInv' /\ SettledInv' /\ FreedInv'
  BY <1>1, <1>2, <1>6, <1>7 DEF IInv, FrameInv, SettledInv, FreedInv
<1>11. BytesOf(Gone + 1)' = BytesOf(Gone + 1) /\ \A j : BytesOf(j)' = BytesOf(j)
  BY <1>1, <1>7 DEF BytesOf
<1>12. FreedWhenSent'
  <2> SUFFICES ASSUME NEW i \in DOMAIN freed, freed[i][2] = "sent"
               PROVE  Cardinality(BytesOf(freed[i][1]))' = sizes'[freed[i][1]]
    BY <1>1 DEF FreedWhenSent
  <2>1. freed[i][1] = i /\ i \in 1..Len(sizes)
    BY <1>7, NatLens DEF IInv, FreedInv
  <2> QED
    BY <1>1, <1>5, <1>11, <2>1 DEF IInv, FreedWhenSent
<1>13. WireInv' /\ WireInOrder'
  <2>1. WireInOrder'
    BY <1>1 DEF IInv, WireInOrder
  <2>2. \A j \in DOMAIN wire : \/ wire[j][1] <= Gone
                               \/ wire[j][1] = Gone + 1 /\ wire[j][2] < sendbufs'[1].off
    BY <1>6, NatLens, HeadTyped DEF IInv, WireInv
  <2>3. CASE sendbufs # <<>>
    <3>1. sendbufs'[1] = sendbufs[1]
      BY <1>6, <2>3, HeadTyped
    <3> QED
      BY <1>1, <1>6, <1>7, <1>11, <2>1, <2>2, <2>3, <3>1 DEF IInv, WireInv
  <2>4. CASE sendbufs = <<>>
    <3>1. sendbufs'[1].off = 0
      BY <1>4, <1>6, <2>4
    <3>2. \A j \in DOMAIN wire : wire[j][1] <= Gone
      BY <2>4 DEF IInv, WireInv
    <3>3. BytesOf(Gone + 1) = {}
      BY <3>2, NatLens DEF BytesOf
    <3>4. Cardinality(BytesOf(Gone + 1)) = 0
      BY <3>3, FS_EmptySet
    <3> QED
      BY <1>1, <1>6, <1>7, <1>11, <2>1, <2>2, <3>1, <3>4 DEF IInv, WireInv
  <2> QED
    BY <2>3, <2>4
<1> QED
  BY <1>8, <1>9, <1>10, <1>12, <1>13 DEF IInv

(* What freeing the head adds to freed, by the flush or by the close.      *)
LEMMA FreeHead ==
  ASSUME IInv, UNCHANGED <<sendbufs, sizes, wire>>, sendbufs # <<>>, ~Freeing, Freeing',
         NEW where \in {"sent", "closed"},
         freed' = Append(freed, <<sendbufs[1].id, where>>),
         where = "sent" => sendbufs[1].len = 0
  PROVE  /\ freed' \in Seq((1..MaxSends) \X {"sent", "closed"})
         /\ FreedInv' /\ FreedWhenSent'
<1> DEFINE e == <<sendbufs[1].id, where>>
<1>1. e \in (1..MaxSends) \X {"sent", "closed"} /\ e[1] = Gone + 1 /\ e[2] = where
  BY HeadTyped
<1> HIDE DEF e
<1>2. /\ freed' \in Seq((1..MaxSends) \X {"sent", "closed"})
      /\ Len(freed') = Len(freed) + 1 /\ freed'[Len(freed) + 1] = e
      /\ \A i \in 1..Len(freed) : freed'[i] = freed[i]
      /\ DOMAIN freed' = 1..(Len(freed) + 1)
  <2>1. freed \in Seq((1..MaxSends) \X {"sent", "closed"}) /\ freed' = Append(freed, e)
    BY DEF IInv, TypeOK, e
  <2> QED
    BY <1>1, <2>1
<1>3. Gone' = Gone /\ Len(freed) = Gone
  BY NatLens DEF IInv, FreedInv, Gone
<1>4. FreedInv'
  BY <1>1, <1>2, <1>3, NatLens DEF IInv, FreedInv
<1>5. FreedWhenSent'
  <2> SUFFICES ASSUME NEW i \in DOMAIN freed', freed'[i][2] = "sent"
               PROVE  Cardinality(BytesOf(freed'[i][1])) = sizes[freed'[i][1]]
    BY DEF FreedWhenSent, BytesOf
  <2>2. CASE i = Len(freed) + 1
    <3>1. freed'[i][1] = Gone + 1 /\ where = "sent"
      BY <1>1, <1>2, <2>2
    <3>2. Cardinality(BytesOf(Gone + 1)) = sizes[Gone + 1]
      BY <3>1, HeadTyped DEF IInv, WireInv
    <3> QED
      BY <3>1, <3>2
  <2>3. CASE i \in 1..Len(freed)
    <3>1. freed'[i] = freed[i] /\ i \in DOMAIN freed
      BY <1>2, <2>3, NatLens
    <3>2. freed[i][2] = "sent" /\ freed'[i][1] = freed[i][1]
      BY <3>1
    <3>3. Cardinality(BytesOf(freed[i][1])) = sizes[freed[i][1]]
      BY <3>1, <3>2 DEF IInv, FreedWhenSent
    <3> QED
      BY <3>2, <3>3
  <2>4. i = Len(freed) + 1 \/ i \in 1..Len(freed)
    BY <1>2, NatLens
  <2> QED
    BY <2>2, <2>3, <2>4
<1> QED
  BY <1>2, <1>4, <1>5

(* A shutdown at the head has no bytes, so those written are of sendbufs   *)
(* before it.                                                              *)
LEMMA ShutdownIInv ==
  ASSUME IInv, FlushShutdown
  PROVE  IInv'
<1>1. /\ UNCHANGED <<sendbufs, selected, err, sizes, wire, drained, broken>>
      /\ Top = "flush" /\ sendbufs # <<>> /\ sendbufs[1].kind = "shutdown"
      /\ Replace("free") /\ freed' = Append(freed, <<sendbufs[1].id, "sent">>)
      /\ shut' = IF shut = 0 THEN sendbufs[1].id ELSE shut
  BY DEF FlushShutdown, sendlist_peek
<1>2. /\ stack' \in Seq(Frame) /\ Top' = "free"
      /\ \A i \in 2..Len(stack') : stack'[i] = "flushed"
  BY <1>1, StackReplace DEF IInv, Frame
<1>3. ~Freeing /\ Freeing'
  BY <1>1, <1>2 DEF Freeing
<1>4. sendbufs[1].off = 0 /\ sendbufs[1].len = 0
  <2>1. 1 \in DOMAIN sendbufs
    BY <1>1, HeadTyped, NatLens
  <2>2. sizes[Gone + 1] = 0
    BY <1>1, <2>1 DEF IInv, QueueInv
  <2> QED
    BY <1>1, <2>2, HeadTyped
<1>5. /\ freed' \in Seq((1..MaxSends) \X {"sent", "closed"})
      /\ FreedInv' /\ FreedWhenSent'
  BY <1>1, <1>3, <1>4, FreeHead
<1>6. shut' \in 0..MaxSends /\ (shut' # 0 => \A j \in DOMAIN wire : wire[j][1] < shut')
  <2>1. CASE shut = 0
    <3>1. shut' = Gone + 1 /\ Gone + 1 \in 1..MaxSends
      BY <1>1, <2>1, HeadTyped
    <3>2. \A j \in DOMAIN wire : wire[j][1] \in Nat /\ wire[j][2] \in Nat
      <4>1. wire \in Seq((1..MaxSends) \X Nat)
        BY DEF IInv, TypeOK
      <4> QED
        BY <4>1, NatLens, InSeq
    <3>3. \A j \in DOMAIN wire : wire[j][1] <= Gone
      BY <1>4, <3>2 DEF IInv, WireInv
    <3> QED
      BY <3>1, <3>2, <3>3, NatLens, SendListAssumption DEF SendListAssumption
  <2>2. CASE shut # 0
    BY <1>1, <2>2 DEF IInv, TypeOK, WireInOrder
  <2> QED
    BY <2>1, <2>2
<1>7. TypeOK'
  BY <1>1, <1>2, <1>5, <1>6 DEF IInv, TypeOK
<1>8. Gone' = Gone /\ BytesOf(Gone + 1)' = BytesOf(Gone + 1)
  BY <1>1 DEF Gone, BytesOf
<1>9. QueueInv' /\ FrameInv' /\ SettledInv'
  BY <1>1, <1>2, <1>8 DEF IInv, QueueInv, FrameInv, SettledInv
<1>10. WireInv' /\ WireInOrder'
  BY <1>1, <1>6, <1>8 DEF IInv, WireInv, WireInOrder
<1> QED
  BY <1>5, <1>7, <1>9, <1>10 DEF IInv

LEMMA CloseShiftIInv ==
  ASSUME IInv, CloseShift
  PROVE  IInv'
<1>1. /\ UNCHANGED <<sendbufs, selected, err, sizes, wire, shut, drained, broken>>
      /\ Top = "close" /\ sendbufs # <<>> /\ Replace("closefree")
      /\ freed' = Append(freed, <<sendbufs[1].id, "closed">>)
  BY DEF CloseShift, sendlist_peek
<1>2. /\ stack' \in Seq(Frame) /\ Top' = "closefree"
      /\ \A i \in 2..Len(stack') : stack'[i] = "flushed"
  BY <1>1, StackReplace DEF IInv, Frame
<1>3. ~Freeing /\ Freeing'
  BY <1>1, <1>2 DEF Freeing
<1>4. /\ freed' \in Seq((1..MaxSends) \X {"sent", "closed"})
      /\ FreedInv' /\ FreedWhenSent'
  BY <1>1, <1>3, FreeHead
<1>5. SettledInv'
  BY <1>2 DEF SettledInv
<1>6. broken' \in BOOLEAN /\ selected' \in BOOLEAN /\ err' \in {-1, 0, 1}
  BY <1>1 DEF IInv, TypeOK
<1> QED
  BY <1>1, <1>2, <1>4, <1>5, <1>6, QuietIInv

(* free_func returns: the head leaves, and what is next has not begun.     *)
LEMMA FreeReturnIInv ==
  ASSUME IInv, FreeReturn
  PROVE  IInv'
<1>1. /\ UNCHANGED <<selected, err, sizes, wire, shut, drained, broken, freed>>
      /\ Freeing /\ Top # "app" /\ sendbufs # <<>>
      /\ sendbufs' = RemoveAt(sendbufs, 1)
  BY DEF FreeReturn, Freeing, IInv, FrameInv
<1>2. PICK f \in {"flush", "close"} : Replace(f)
  BY DEF FreeReturn
<1>3. /\ stack' \in Seq(Frame) /\ Top' = f
      /\ \A i \in 2..Len(stack') : stack'[i] = "flushed"
  BY <1>1, <1>2, StackReplace DEF IInv, Frame
<1>4. sendbufs \in Seq(Sendbuf) /\ Len(sendbufs) \in Nat \ {0}
  <2>1. sendbufs \in Seq(Sendbuf)
    BY DEF IInv, TypeOK
  <2> HIDE DEF Sendbuf
  <2> QED
    BY <1>1, <2>1
<1>5. /\ sendbufs' = [j \in 1..(Len(sendbufs) - 1) |-> sendbufs[j + 1]]
  <2> DEFINE q == SubSeq(sendbufs, 2, Len(sendbufs))
  <2> HIDE DEF Sendbuf
  <2>1. /\ q \in Seq(Sendbuf)
        /\ q = [j \in 1..(Len(sendbufs) - 1) |-> sendbufs[j + 1]]
    BY <1>4
  <2>2. SubSeq(sendbufs, 1, 1 - 1) = <<>>
    BY <1>4
  <2> HIDE DEF q
  <2>3. <<>> \o q = q
    BY <2>1, ConcatEmptySeq, Zenon
  <2>4. RemoveAt(sendbufs, 1) = SubSeq(sendbufs, 1, 1 - 1) \o q
    BY DEF RemoveAt, q
  <2> QED
    BY <1>1, <2>1, <2>2, <2>3, <2>4, Zenon
<1>6. /\ sendbufs' \in Seq(Sendbuf) /\ Len(sendbufs') = Len(sendbufs) - 1
      /\ DOMAIN sendbufs' = 1..(Len(sendbufs) - 1)
      /\ \A j \in 1..(Len(sendbufs) - 1) : sendbufs'[j] = sendbufs[j + 1]
  <2> HIDE DEF Sendbuf
  <2> QED
    BY <1>4, <1>5
<1>7. Gone' = Gone + 1 /\ ~Freeing'
  <2>1. Gone' = Gone + 1
    <3>1. sizes' = sizes
      BY <1>1
    <3>2. Gone' = Len(sizes) - (Len(sendbufs) - 1)
      BY <1>6, <3>1 DEF Gone
    <3> QED
      BY <3>2, NatLens DEF Gone
  <2>2. ~Freeing'
    BY <1>3 DEF Freeing
  <2> QED
    BY <2>1, <2>2
<1>8. TypeOK'
  BY <1>1, <1>3, <1>6 DEF IInv, TypeOK
<1>9. QueueInv'
  <2>1. Len(sizes') <= MaxSends /\ Len(sendbufs') <= Len(sizes')
    BY <1>1, <1>6, NatLens DEF IInv, QueueInv
  <2>2. ASSUME NEW i \in DOMAIN sendbufs'
        PROVE  /\ sendbufs'[i].id = Gone' + i
               /\ sendbufs'[i].off + sendbufs'[i].len = sizes[Gone' + i]
               /\ sendbufs'[i].off = 0
               /\ sendbufs'[i].kind = "shutdown" => sizes[Gone' + i] = 0
    <3>1. /\ sendbufs'[i] = sendbufs[i + 1] /\ i + 1 \in DOMAIN sendbufs /\ i + 1 > 1
          /\ Gone + (i + 1) = Gone' + i
      <4>1. i \in 1..(Len(sendbufs) - 1)
        BY <1>6
      <4>2. i + 1 \in 1..Len(sendbufs) /\ i + 1 > 1 /\ Gone + (i + 1) = Gone' + i
        <5>1. Gone' = Gone + 1 /\ Gone \in Nat /\ Len(sendbufs) \in Nat
          BY <1>7, NatLens
        <5> QED
          BY <4>1, <5>1
      <4> QED
        BY <1>6, <4>1, <4>2, NatLens
    <3> QED
      BY <3>1 DEF IInv, QueueInv
  <2> QED
    BY <1>1, <2>1, <2>2 DEF QueueInv
<1>10. FrameInv' /\ FreedInv' /\ SettledInv'
  BY <1>1, <1>3, <1>7, NatLens DEF IInv, FrameInv, FreedInv, SettledInv
<1>11. FreedWhenSent' /\ WireInOrder'
  BY <1>1 DEF IInv, FreedWhenSent, WireInOrder, BytesOf
<1>12. WireInv'
  <2>1. \A j \in DOMAIN wire : wire[j][1] \in Nat
    <3>1. wire \in Seq((1..MaxSends) \X Nat)
      BY DEF IInv, TypeOK
    <3> QED
      BY <3>1, NatLens, InSeq
  <2>2. \A j \in DOMAIN wire : wire[j][1] <= Gone'
    BY <1>7, <2>1, NatLens DEF IInv, WireInv
  <2>3. BytesOf(Gone + 1)' = {}
    BY <1>1, <1>7, <2>1, <2>2, NatLens DEF BytesOf
  <2>4. Cardinality(BytesOf(Gone + 1))' = 0
    BY <2>3, FS_EmptySet
  <2>5. sendbufs' # <<>> => sendbufs'[1].off = 0
    <3> SUFFICES ASSUME sendbufs' # <<>> PROVE sendbufs'[1].off = 0
      OBVIOUS
    <3>1. 1 \in DOMAIN sendbufs' /\ sendbufs'[1] = sendbufs[2] /\ 2 \in DOMAIN sendbufs
      BY <1>4, <1>6, NatLens
    <3> QED
      BY <3>1 DEF IInv, QueueInv
  <2> QED
    BY <1>1, <2>2, <2>4, <2>5 DEF IInv, WireInv
<1> QED
  BY <1>8, <1>9, <1>10, <1>11, <1>12 DEF IInv

(* A write moves no more than there is, and no more than there is room.    *)
LEMMA MovedBounds ==
  ASSUME IInv, sendbufs # <<>>
  PROVE  /\ Moved(sendbufs[1]) \in 0..sendbufs[1].len
         /\ Moved(sendbufs[1]) <= TxMax - (Len(wire) - drained)
<1>1. sendbufs[1].off \in Nat /\ sendbufs[1].len \in Nat
  BY HeadTyped
<1>2. Room \in Nat /\ Room = TxMax - (Len(wire) - drained)
  BY NatLens, SendListAssumption DEF IInv, WireInv, Room, SendListAssumption
<1>3. FileEnd \in Nat
  BY SendListAssumption DEF SendListAssumption
<1> DEFINE held == IF sendbufs[1].kind = "fd" THEN FileEnd - sendbufs[1].off
                                              ELSE sendbufs[1].len
           n == IF sendbufs[1].len < Room THEN sendbufs[1].len ELSE Room
<1>4. held \in Int /\ n \in 0..sendbufs[1].len /\ n <= Room
  BY <1>1, <1>2, <1>3
<1>5. Moved(sendbufs[1]) = IF held < 0 THEN 0 ELSE IF held < n THEN held ELSE n
  BY DEF Moved
<1> HIDE DEF held, n
<1> QED
  BY <1>1, <1>2, <1>4, <1>5

(* n more bytes of the head are written: it keeps its place, its offset is *)
(* that much further, and the wire that much longer.                       *)
Wrote(n) ==
  /\ sendbufs' \in Seq(Sendbuf) /\ Len(sendbufs') = Len(sendbufs)
  /\ sendbufs'[1].id = Gone + 1 /\ sendbufs'[1].kind = sendbufs[1].kind
  /\ sendbufs'[1].off = sendbufs[1].off + n
  /\ sendbufs'[1].len = sendbufs[1].len - n
  /\ \A i \in 2..Len(sendbufs) : sendbufs'[i] = sendbufs[i]
  /\ wire' \in Seq((1..MaxSends) \X Nat) /\ Len(wire') = Len(wire) + n
  /\ \A j \in 1..Len(wire) : wire'[j] = wire[j]
  /\ \A j \in (Len(wire) + 1)..(Len(wire) + n) :
       wire'[j] = <<Gone + 1, sendbufs[1].off + (j - Len(wire)) - 1>>

LEMMA AdvancedTyped ==
  ASSUME NEW b \in Sendbuf, NEW n \in 0..b.len
  PROVE  /\ Advanced(b, n) \in Sendbuf
         /\ Advanced(b, n).id = b.id /\ Advanced(b, n).kind = b.kind
         /\ Advanced(b, n).off = b.off + n /\ Advanced(b, n).len = b.len - n
<1> DEFINE a == Advanced(b, n)
<1>1. a.off = b.off + n /\ a.len = b.len - n
  BY DEF Sendbuf, Advanced
<1>2. a.id = b.id /\ a.kind = b.kind
  BY DEF Sendbuf, Advanced
<1>3. a.off \in Nat /\ a.len \in Nat
  BY <1>1 DEF Sendbuf
<1>4. ASSUME NEW c, c = Advanced(b, n), c.off \in Nat, c.len \in Nat
      PROVE  c \in Sendbuf
  BY <1>4 DEF Sendbuf, Advanced
<1>5. a \in Sendbuf
  BY <1>3, <1>4
<1> QED
  BY <1>1, <1>2, <1>5

LEMMA Joined ==
  ASSUME NEW S, NEW s \in Seq(S), NEW t \in Seq(S)
  PROVE  /\ s \o t \in Seq(S) /\ Len(s \o t) = Len(s) + Len(t)
         /\ \A j \in 1..Len(s) : (s \o t)[j] = s[j]
         /\ \A j \in (Len(s) + 1)..(Len(s) + Len(t)) : (s \o t)[j] = t[j - Len(s)]
  OBVIOUS

LEMMA WriteWrote ==
  ASSUME IInv, FlushWrite
  PROVE  Wrote(Moved(sendbufs[1]))
<1> DEFINE b == sendbufs[1]
           n == Moved(b)
           new == [i \in 1..n |-> <<b.id, b.off + i - 1>>]
<1>1. /\ sendbufs # <<>>
      /\ wire' = wire \o new /\ sendbufs' = [sendbufs EXCEPT ![1] = Advanced(b, n)]
  BY DEF FlushWrite, sendlist_peek
<1>2. /\ b \in Sendbuf /\ b.id = Gone + 1 /\ b.off \in Nat /\ b.len \in Nat
      /\ Gone + 1 \in 1..MaxSends /\ 1 \in 1..Len(sendbufs)
      /\ n \in 0..b.len /\ n \in Nat /\ b.len - n \in Nat
  BY <1>1, HeadTyped, MovedBounds
<1> HIDE DEF n
<1>3. DEFINE a == Advanced(b, n)
<1>4. /\ a \in Sendbuf /\ a.id = b.id /\ a.kind = b.kind
      /\ a.off = b.off + n /\ a.len = b.len - n
  <2> HIDE DEF b
  <2> QED
    BY <1>2, AdvancedTyped
<1> HIDE DEF a
<1>5. /\ sendbufs' \in Seq(Sendbuf) /\ Len(sendbufs') = Len(sendbufs) /\ sendbufs'[1] = a
      /\ \A i \in 2..Len(sendbufs) : sendbufs'[i] = sendbufs[i]
  <2>1. sendbufs \in Seq(Sendbuf) /\ sendbufs' = [sendbufs EXCEPT ![1] = a]
    BY <1>1 DEF IInv, TypeOK, a
  <2> HIDE DEF Sendbuf, b
  <2> QED
    BY <1>2, <1>4, <2>1
<1>6. /\ new \in Seq((1..MaxSends) \X Nat) /\ Len(new) = n
      /\ \A i \in 1..n : new[i] = <<Gone + 1, b.off + i - 1>>
  <2>1. \A i \in 1..n : /\ <<b.id, b.off + i - 1>> = <<Gone + 1, b.off + i - 1>>
                        /\ <<b.id, b.off + i - 1>> \in (1..MaxSends) \X Nat
    BY <1>2
  <2> HIDE DEF b
  <2> QED
    BY <1>2, <2>1
<1> HIDE DEF new
<1>7. /\ wire' \in Seq((1..MaxSends) \X Nat) /\ Len(wire') = Len(wire) + n
      /\ \A j \in 1..Len(wire) : wire'[j] = wire[j]
      /\ \A j \in (Len(wire) + 1)..(Len(wire) + n) : wire'[j] = new[j - Len(wire)]
  <2>1. wire \in Seq((1..MaxSends) \X Nat)
    BY DEF IInv, TypeOK
  <2> QED
    BY <1>1, <1>6, <2>1, Joined
<1>8. ASSUME NEW j \in (Len(wire) + 1)..(Len(wire) + n)
      PROVE  wire'[j] = <<Gone + 1, b.off + (j - Len(wire)) - 1>>
  <2>1. j - Len(wire) \in 1..n
    BY <1>2, NatLens
  <2> QED
    BY <1>6, <1>7, <2>1
<1> QED
  BY <1>2, <1>4, <1>5, <1>7, <1>8 DEF Wrote, n

(* What a write leaves of the invariant, whether the head is done or not.  *)
LEMMA WroteKeeps ==
  ASSUME IInv, sendbufs # <<>>, NEW n \in Nat, Wrote(n), n <= sendbufs[1].len,
         Len(wire) + n - drained <= TxMax, UNCHANGED <<sizes, shut, drained>>, shut = 0
  PROVE  /\ Gone' = Gone /\ QueueInv' /\ WireInv' /\ WireInOrder' /\ sendbufs' # <<>>
         /\ \A i \in 1..Gone : BytesOf(i)' = BytesOf(i)
<1> DEFINE b == sendbufs[1]
<1>1. /\ b.id = Gone + 1 /\ b.off \in Nat /\ b.len \in Nat /\ Gone \in Nat
      /\ b.off + b.len = sizes[Gone + 1] /\ 1 \in 1..Len(sendbufs)
      /\ Len(wire) \in Nat /\ drained \in Nat /\ Len(sendbufs) \in Nat
  BY HeadTyped, NatLens
<1>2. /\ DOMAIN sendbufs' = 1..Len(sendbufs) /\ DOMAIN wire' = 1..(Len(wire) + n)
      /\ sendbufs' # <<>> /\ Len(sendbufs') = Len(sendbufs) /\ Len(wire') = Len(wire) + n
  BY <1>1 DEF Wrote
<1>3. Gone' = Gone
  BY <1>2 DEF Gone
<1>4. /\ \A j \in 1..Len(wire) : wire'[j] = wire[j]
      /\ \A j \in (Len(wire) + 1)..(Len(wire) + n) :
            wire'[j] = <<Gone + 1, b.off + (j - Len(wire)) - 1>>
      /\ sendbufs'[1].off = b.off + n /\ sendbufs'[1].len = b.len - n
      /\ sendbufs'[1].id = Gone + 1 /\ sendbufs'[1].kind = b.kind
      /\ \A i \in 2..Len(sendbufs) : sendbufs'[i] = sendbufs[i]
  BY DEF Wrote
<1>5. \A j \in (Len(wire) + 1)..(Len(wire) + n) :
         wire'[j][1] = Gone + 1 /\ wire'[j][2] = b.off + (j - Len(wire)) - 1
  BY <1>4
<1>6. \A j \in 1..Len(wire) : wire[j][1] \in Nat /\ wire[j][2] \in Nat
  <2>1. wire \in Seq((1..MaxSends) \X Nat)
    BY DEF IInv, TypeOK
  <2> QED
    BY <2>1, InSeq
<1>7. QueueInv'
  <2>1. ASSUME NEW i \in DOMAIN sendbufs'
        PROVE  /\ sendbufs'[i].id = Gone + i
               /\ sendbufs'[i].off + sendbufs'[i].len = sizes[Gone + i]
               /\ i > 1 => sendbufs'[i].off = 0
               /\ sendbufs'[i].kind = "shutdown" => sizes[Gone + i] = 0
    <3>1. CASE i = 1
      <4>1. b.kind = "shutdown" => sizes[Gone + 1] = 0
        BY <1>1, NatLens DEF IInv, QueueInv
      <4> HIDE DEF b
      <4> QED
        BY <1>1, <1>4, <3>1, <4>1
    <3>2. CASE i \in 2..Len(sendbufs)
      <4>1. sendbufs'[i] = sendbufs[i] /\ i \in DOMAIN sendbufs
        BY <1>4, <3>2, NatLens
      <4> QED
        BY <4>1 DEF IInv, QueueInv
    <3>3. i = 1 \/ i \in 2..Len(sendbufs)
      BY <1>1, <1>2
    <3> QED
      BY <3>1, <3>2, <3>3
  <2> QED
    BY <1>2, <1>3, <2>1 DEF IInv, QueueInv
<1>8. /\ \A i \in 1..Gone : BytesOf(i)' = BytesOf(i)
      /\ BytesOf(Gone + 1)' = BytesOf(Gone + 1) \cup ((Len(wire) + 1)..(Len(wire) + n))
  <2>1. \A i : BytesOf(i)' = {j \in 1..(Len(wire) + n) : wire'[j][1] = i}
    BY <1>2 DEF BytesOf
  <2>2. \A i : BytesOf(i) = {j \in 1..Len(wire) : wire[j][1] = i}
    BY NatLens DEF BytesOf
  <2>3. ASSUME NEW j \in 1..(Len(wire) + n)
        PROVE  j \in 1..Len(wire) \/ j \in (Len(wire) + 1)..(Len(wire) + n)
    BY <1>1
  <2>4. /\ \A j \in 1..Len(wire) : j \in 1..(Len(wire) + n)
        /\ \A j \in (Len(wire) + 1)..(Len(wire) + n) : j \in 1..(Len(wire) + n)
        /\ \A i \in 1..Gone : i # Gone + 1
    BY <1>1
  <2> HIDE DEF b
  <2>5. \A i \in 1..Gone : BytesOf(i)' = BytesOf(i)
    BY <1>4, <1>5, <2>1, <2>2, <2>3, <2>4
  <2>6. BytesOf(Gone + 1)' = {j \in 1..(Len(wire) + n) : wire'[j][1] = Gone + 1}
    BY <1>2, <1>3 DEF BytesOf
  <2>7. BytesOf(Gone + 1) = {j \in 1..Len(wire) : wire[j][1] = Gone + 1}
    BY <2>2
  <2>8. BytesOf(Gone + 1)' = BytesOf(Gone + 1) \cup ((Len(wire) + 1)..(Len(wire) + n))
    BY <1>4, <1>5, <2>3, <2>4, <2>6, <2>7
  <2> QED
    BY <2>5, <2>8
<1>9. Cardinality(BytesOf(Gone + 1))' = sendbufs'[1].off
  <2> DEFINE old == BytesOf(Gone + 1)
             new == (Len(wire) + 1)..(Len(wire) + n)
  <2>1. IsFiniteSet(old) /\ Cardinality(old) = b.off /\ old \subseteq 1..Len(wire)
    <3>1. old \subseteq 1..Len(wire)
      BY NatLens DEF BytesOf
    <3>2. IsFiniteSet(1..Len(wire))
      <4>1. 1 \in Int /\ Len(wire) \in Int
        BY <1>1
      <4> QED
        BY <4>1, FS_Interval
    <3>3. IsFiniteSet(old)
      BY <3>1, <3>2, FS_Subset
    <3> QED
      BY <3>1, <3>3 DEF IInv, WireInv
  <2>2. IsFiniteSet(new) /\ Cardinality(new) = n
    <3>1. Len(wire) + 1 \in Int /\ Len(wire) + n \in Int
      BY <1>1
    <3>2. IsFiniteSet(new) /\ Cardinality(new) =
            IF Len(wire) + 1 > Len(wire) + n THEN 0 ELSE (Len(wire) + n) - (Len(wire) + 1) + 1
      BY <3>1, FS_Interval
    <3>3. Len(wire) \in Nat
      BY <1>1
    <3> HIDE DEF new, b
    <3> QED
      BY <3>2, <3>3
  <2>3. old \cap new = {}
    BY <1>1, <2>1
  <2>4. BytesOf(Gone + 1)' = old \cup new
    BY <1>8
  <2> HIDE DEF old, new
  <2>5. Cardinality(old \cap new) = 0
    BY <2>3, FS_EmptySet
  <2>6. Cardinality(old \cup new) = b.off + n - 0
    BY <2>1, <2>2, <2>5, FS_Union
  <2>7. Cardinality(old \cup new) = sendbufs'[1].off
    BY <1>1, <1>4, <2>6
  <2> QED
    BY <2>4, <2>7
<1>10. WireInv'
  <2>1. ASSUME NEW j \in DOMAIN wire'
        PROVE  \/ wire'[j][1] <= Gone
               \/ wire'[j][1] = Gone + 1 /\ wire'[j][2] < sendbufs'[1].off
    <3>1. CASE j \in 1..Len(wire)
      <4>1. \/ wire[j][1] <= Gone
            \/ wire[j][1] = Gone + 1 /\ wire[j][2] < b.off
        BY <3>1, NatLens DEF IInv, WireInv
      <4> HIDE DEF b
      <4> QED
        BY <1>1, <1>4, <1>6, <3>1, <4>1
    <3>2. CASE j \in (Len(wire) + 1)..(Len(wire) + n)
      <4> HIDE DEF b
      <4>1. wire'[j][1] = Gone + 1 /\ wire'[j][2] = b.off + (j - Len(wire)) - 1
        BY <1>5, <3>2
      <4>2. b.off + (j - Len(wire)) - 1 < b.off + n
        BY <1>1, <3>2
      <4> QED
        BY <1>4, <4>1, <4>2
    <3> QED
      BY <1>1, <1>2, <3>1, <3>2
  <2>2. Len(wire') - drained <= TxMax
    BY <1>1, <1>2, SendListAssumption DEF SendListAssumption
  <2>3. sendbufs'[1].off > 0 =>
          wire' # <<>> /\ wire'[Len(wire')] = <<Gone + 1, sendbufs'[1].off - 1>>
    <3> SUFFICES ASSUME sendbufs'[1].off > 0
                 PROVE  wire' # <<>> /\ wire'[Len(wire')] = <<Gone + 1, sendbufs'[1].off - 1>>
      OBVIOUS
    <3> DEFINE LastPiece == Len(wire) + n > 0 /\ wire'[Len(wire) + n] = <<Gone + 1, b.off + n - 1>>
    <3>1. ASSUME n = 0 PROVE LastPiece
      <4>1. b.off > 0
        BY <1>1, <1>4, <3>1
      <4>2. wire # <<>> /\ wire[Len(wire)] = <<Gone + 1, b.off - 1>>
        BY <4>1 DEF IInv, WireInv
      <4>3. Len(wire) > 0
        <5>1. wire \in Seq((1..MaxSends) \X Nat)
          BY DEF IInv, TypeOK
        <5> QED
          BY <4>2, <5>1
      <4> HIDE DEF b
      <4> QED
        BY <1>1, <1>4, <3>1, <4>2, <4>3
    <3>2. ASSUME n > 0 PROVE LastPiece
      <4>1. Len(wire) + n \in (Len(wire) + 1)..(Len(wire) + n)
        BY <1>1, <3>2
      <4>2. wire'[Len(wire) + n] = <<Gone + 1, b.off + ((Len(wire) + n) - Len(wire)) - 1>>
        BY <1>4, <4>1
      <4>3. /\ b.off + ((Len(wire) + n) - Len(wire)) - 1 = b.off + n - 1
            /\ Len(wire) + n > 0
        BY <1>1, <3>2
      <4> QED
        BY <4>2, <4>3
    <3>3. LastPiece
      BY <3>1, <3>2
    <3>4. wire' # <<>>
      BY <1>2, <3>3
    <3>5. sendbufs'[1].off = b.off + n /\ Len(wire') = Len(wire) + n
      BY <1>2, <1>4
    <3>6. wire'[Len(wire')] = wire'[Len(wire) + n] /\ sendbufs'[1].off - 1 = b.off + n - 1
      BY <1>1, <3>5
    <3> QED
      BY <3>3, <3>4, <3>6, Zenon
  <2> QED
    BY <1>2, <1>3, <1>9, <2>1, <2>2, <2>3 DEF WireInv
<1>11. WireInOrder'
  <2>1. 1..(Len(wire') - 1) = 1..(Len(wire) + n - 1) /\ shut' = 0
    BY <1>1, <1>2
  <2> SUFFICES ASSUME NEW i \in 1..(Len(wire) + n - 1)
               PROVE  \/ wire'[i + 1] = <<wire'[i][1], wire'[i][2] + 1>>
                      \/ wire'[i + 1][1] > wire'[i][1] /\ wire'[i + 1][2] = 0
    BY <2>1 DEF WireInOrder
  <2>2. CASE i + 1 \in 1..Len(wire)
    <3>1. i \in 1..(Len(wire) - 1) /\ i \in 1..Len(wire)
      BY <1>1, <2>2
    <3>2. wire'[i] = wire[i] /\ wire'[i + 1] = wire[i + 1]
      BY <1>4, <2>2, <3>1
    <3> QED
      BY <3>1, <3>2 DEF IInv, WireInOrder
  <2>3. CASE i = Len(wire)
    <3>1. /\ i \in 1..Len(wire) /\ wire'[i] = wire[i] /\ wire[i][1] \in Nat /\ wire[i][2] \in Nat
          /\ i + 1 \in (Len(wire) + 1)..(Len(wire) + n) /\ (i + 1) - Len(wire) = 1
      BY <1>1, <1>4, <1>6, <2>3
    <3>2. wire'[i + 1] = <<Gone + 1, b.off>> /\ wire'[i + 1][1] = Gone + 1 /\ wire'[i + 1][2] = b.off
      <4>1. wire'[i + 1] = <<Gone + 1, b.off + ((i + 1) - Len(wire)) - 1>>
        BY <1>4, <3>1
      <4>2. b.off + ((i + 1) - Len(wire)) - 1 = b.off
        BY <1>1, <2>3
      <4> QED
        BY <4>1, <4>2
    <3>3. CASE b.off = 0
      <4>1. \/ wire[i][1] <= Gone
            \/ wire[i][1] = Gone + 1 /\ wire[i][2] < b.off
        BY <3>1, NatLens DEF IInv, WireInv
      <4> HIDE DEF b
      <4> QED
        BY <1>1, <3>1, <3>2, <3>3, <4>1
    <3>4. CASE b.off > 0
      <4>1. wire[i] = <<Gone + 1, b.off - 1>>
        BY <2>3, <3>4 DEF IInv, WireInv
      <4> HIDE DEF b
      <4>2. wire'[i][1] = Gone + 1 /\ wire'[i][2] + 1 = b.off
        BY <1>1, <3>1, <4>1
      <4> QED
        BY <3>2, <4>2
    <3> QED
      BY <1>1, <3>3, <3>4
  <2>4. CASE i \in (Len(wire) + 1)..(Len(wire) + n - 1)
    <3>1. /\ i \in (Len(wire) + 1)..(Len(wire) + n)
          /\ i + 1 \in (Len(wire) + 1)..(Len(wire) + n)
          /\ b.off + ((i + 1) - Len(wire)) - 1 = (b.off + (i - Len(wire)) - 1) + 1
      BY <1>1, <2>4
    <3> HIDE DEF b
    <3> QED
      BY <1>4, <1>5, <3>1
  <2>5. i + 1 \in 1..Len(wire) \/ i = Len(wire) \/ i \in (Len(wire) + 1)..(Len(wire) + n - 1)
    <3>1. Len(wire) \in Nat
      BY <1>1
    <3> HIDE DEF b
    <3> QED
      BY <3>1
  <2> QED
    BY <2>2, <2>3, <2>4, <2>5
<1> QED
  BY <1>2, <1>3, <1>7, <1>8, <1>10, <1>11

(* One turn of the loop in sendlist_flush.                                 *)
LEMMA WriteIInv ==
  ASSUME IInv, FlushWrite
  PROVE  IInv'
<1> DEFINE n == Moved(sendbufs[1])
<1>1. /\ Top = "flush" /\ sendbufs # <<>> /\ shut = 0
      /\ UNCHANGED <<sizes, shut, drained, broken>>
  BY DEF FlushWrite, WriteFails
<1>2. /\ n \in Nat /\ n <= sendbufs[1].len /\ Len(wire) + n - drained <= TxMax
      /\ Wrote(n)
  <2>1. n \in 0..sendbufs[1].len /\ n <= TxMax - (Len(wire) - drained)
    BY <1>1, MovedBounds
  <2>2. Wrote(n)
    BY WriteWrote
  <2> HIDE DEF n
  <2>3. TxMax \in Nat /\ Len(wire) \in Nat /\ drained \in Nat /\ sendbufs[1].len \in Nat
    BY <1>1, NatLens, HeadTyped, SendListAssumption DEF SendListAssumption
  <2> QED
    BY <2>1, <2>2, <2>3
<1>3. \/ /\ sendbufs'[1].len > 0 /\ FlushEnd(1) /\ UNCHANGED freed
      \/ /\ ~(sendbufs'[1].len > 0) /\ Replace("free") /\ UNCHANGED <<selected, err>>
         /\ freed' = Append(freed, <<sendbufs[1].id, "sent">>)
  <2>1. sendbufs' = [sendbufs EXCEPT ![1] = Advanced(sendbufs[1], n)]
    BY DEF FlushWrite, sendlist_peek
  <2>2. sendbufs'[1] = Advanced(sendbufs[1], n)
    <3>1. sendbufs \in Seq(Sendbuf) /\ 1 \in 1..Len(sendbufs)
      BY <1>1, HeadTyped DEF IInv, TypeOK
    <3> HIDE DEF n, Sendbuf
    <3> QED
      BY <2>1, <3>1
  <2> QED
    BY <2>2 DEF FlushWrite, sendlist_peek
<1> HIDE DEF n
<1>4. /\ Gone' = Gone /\ QueueInv' /\ WireInv' /\ WireInOrder' /\ sendbufs' # <<>>
      /\ \A i \in 1..Gone : BytesOf(i)' = BytesOf(i)
  BY <1>1, <1>2, WroteKeeps
<1>5. /\ sendbufs' \in Seq(Sendbuf) /\ wire' \in Seq((1..MaxSends) \X Nat)
      /\ drained' \in 0..Len(wire')
  BY <1>1, <1>2, NatLens DEF Wrote
<1>6. /\ ~Freeing /\ Len(freed) = Gone /\ DOMAIN freed = 1..Gone
      /\ \A i \in 1..Gone : freed[i][1] = i
      /\ \A i \in 1..Gone : freed[i][2] = "sent" => Cardinality(BytesOf(i)) = sizes[i]
  <2>1. ~Freeing
    BY <1>1 DEF Freeing
  <2>2. Len(freed) = Gone /\ DOMAIN freed = 1..Gone
    BY <2>1, NatLens DEF IInv, FreedInv
  <2>3. \A i \in 1..Gone : freed[i][1] = i
    BY <2>2 DEF IInv, FreedInv
  <2> QED
    BY <2>1, <2>2, <2>3 DEF IInv, FreedWhenSent
<1>7. ASSUME NEW i \in 1..Gone, freed[i][2] = "sent"
      PROVE  Cardinality(BytesOf(i))' = sizes'[i]
  BY <1>1, <1>4, <1>6, <1>7
<1>8. CASE /\ sendbufs'[1].len > 0 /\ FlushEnd(1) /\ UNCHANGED freed
  <2>1. (1 > 0) = TRUE
    OBVIOUS
  <2>2. selected' = TRUE /\ err' = 1 /\ Replace("flushed") /\ UNCHANGED freed
    BY <1>8, <2>1 DEF FlushEnd
  <2>3. /\ stack' \in Seq(Frame) /\ Top' = "flushed"
        /\ \A i \in 2..Len(stack') : stack'[i] = "flushed"
    BY <1>1, <2>2, StackReplace DEF IInv, Frame
  <2>4. ~Freeing'
    BY <2>3 DEF Freeing
  <2>5. TypeOK'
    BY <1>1, <1>5, <2>2, <2>3 DEF IInv, TypeOK
  <2>6. FrameInv' /\ SettledInv'
    BY <1>4, <2>2, <2>3, <2>4 DEF FrameInv, SettledInv
  <2>7. FreedInv'
    BY <1>4, <1>6, <2>2, <2>4, NatLens DEF FreedInv
  <2>8. FreedWhenSent'
    <3> SUFFICES ASSUME NEW i \in DOMAIN freed', freed'[i][2] = "sent"
                 PROVE  Cardinality({j \in DOMAIN wire' : wire'[j][1] = freed'[i][1]})
                          = sizes'[freed'[i][1]]
      BY DEF FreedWhenSent, BytesOf
    <3>1. i \in 1..Gone /\ freed[i][2] = "sent" /\ freed'[i][1] = i
      BY <1>6, <2>2
    <3>2. Cardinality(BytesOf(i))' = sizes'[i]
      BY <1>7, <3>1
    <3> QED
      BY <3>1, <3>2 DEF BytesOf
  <2> QED
    BY <1>4, <2>5, <2>6, <2>7, <2>8 DEF IInv
<1>9. CASE /\ ~(sendbufs'[1].len > 0) /\ Replace("free") /\ UNCHANGED <<selected, err>>
           /\ freed' = Append(freed, <<sendbufs[1].id, "sent">>)
  <2> DEFINE e == <<sendbufs[1].id, "sent">>
  <2>1. e \in (1..MaxSends) \X {"sent", "closed"} /\ e[1] = Gone + 1 /\ e[2] = "sent"
    BY <1>1, HeadTyped
  <2>2. freed' = Append(freed, e)
    BY <1>9
  <2> HIDE DEF e
  <2>3. /\ freed' \in Seq((1..MaxSends) \X {"sent", "closed"})
        /\ Len(freed') = Gone + 1 /\ freed'[Gone + 1] = e
        /\ DOMAIN freed' = 1..(Gone + 1)
        /\ \A i \in 1..Gone : freed'[i] = freed[i]
    <3>1. freed \in Seq((1..MaxSends) \X {"sent", "closed"})
      BY DEF IInv, TypeOK
    <3> QED
      BY <1>6, <2>1, <2>2, <3>1, NatLens
  <2>4. /\ stack' \in Seq(Frame) /\ Top' = "free"
        /\ \A i \in 2..Len(stack') : stack'[i] = "flushed"
    BY <1>1, <1>9, StackReplace DEF IInv, Frame
  <2>5. Freeing'
    BY <2>4 DEF Freeing
  <2>6. TypeOK'
    BY <1>1, <1>5, <1>9, <2>3, <2>4 DEF IInv, TypeOK
  <2>7. FrameInv' /\ SettledInv'
    BY <1>4, <2>4 DEF FrameInv, SettledInv
  <2>8. FreedInv'
    <3>1. \A i \in 1..(Gone + 1) : freed'[i][1] = i
      <4> TAKE i \in 1..(Gone + 1)
      <4>1. CASE i = Gone + 1
        BY <2>1, <2>3, <4>1
      <4>2. CASE i \in 1..Gone
        BY <1>6, <2>3, <4>2
      <4> QED
        BY <4>1, <4>2, NatLens
    <3> QED
      BY <1>4, <2>3, <2>5, <3>1 DEF FreedInv
  <2>9. FreedWhenSent'
    <3> SUFFICES ASSUME NEW i \in 1..(Gone + 1), freed'[i][2] = "sent"
                 PROVE  Cardinality({j \in DOMAIN wire' : wire'[j][1] = freed'[i][1]})
                          = sizes'[freed'[i][1]]
      BY <2>3 DEF FreedWhenSent, BytesOf
    <3>1. CASE i = Gone + 1
      <4>1. freed'[i][1] = Gone + 1
        BY <2>1, <2>3, <3>1
      <4>2. Cardinality({j \in DOMAIN wire' : wire'[j][1] = Gone + 1}) = sendbufs'[1].off
        BY <1>4 DEF WireInv, BytesOf
      <4>3. sendbufs'[1].off = sizes'[Gone + 1]
        <5>1. /\ sendbufs'[1].off = sendbufs[1].off + n /\ sendbufs'[1].len = sendbufs[1].len - n
          BY <1>2 DEF Wrote
        <5>2. /\ sendbufs[1].off \in Nat /\ sendbufs[1].len \in Nat
              /\ sendbufs[1].off + sendbufs[1].len = sizes[Gone + 1]
          BY <1>1, HeadTyped
        <5>3. sendbufs[1].len - n = 0
          BY <1>2, <1>9, <5>1, <5>2
        <5>4. sendbufs[1].off + n = sizes[Gone + 1]
          BY <1>2, <5>2, <5>3
        <5> QED
          BY <1>1, <5>1, <5>4
      <4> QED
        BY <4>1, <4>2, <4>3
    <3>2. CASE i \in 1..Gone
      <4>1. freed[i][2] = "sent" /\ freed'[i][1] = i
        BY <1>6, <2>3, <3>2
      <4>2. Cardinality(BytesOf(i))' = sizes'[i]
        BY <1>7, <3>2, <4>1
      <4> QED
        BY <4>1, <4>2 DEF BytesOf
    <3>3. i = Gone + 1 \/ i \in 1..Gone
      BY NatLens
    <3> QED
      BY <3>1, <3>2, <3>3
  <2> QED
    BY <1>4, <2>6, <2>7, <2>8, <2>9 DEF IInv
<1> QED
  BY <1>3, <1>8, <1>9

LEMMA NextIInv ==
  ASSUME IInv, FreeMaySend = FALSE, [Next]_vars
  PROVE  IInv'
<1>1. CASE \E kind \in {"buf", "fd"}, n \in Sizes : sendlist_send(kind, n)
  BY <1>1, SendIInv
<1>2. CASE sendlist_send("shutdown", 0)
  BY <1>2, SendIInv
<1>3. CASE sendlist_close \/ sendlist_select_write \/ FlushedReturn
  BY <1>3, CallIInv
<1>4. CASE Thread
  BY <1>3, <1>4, FlushEndIInv, WriteIInv, ShutdownIInv, FreeReturnIInv, CloseShiftIInv,
     CloseDoneIInv DEF Thread
<1>5. CASE Kernel
  BY <1>5, KernelIInv
<1>6. CASE UNCHANGED vars
  <2>1. UNCHANGED <<sendbufs, stack, selected, err, sizes, wire, shut, drained, broken, freed>>
    BY <1>6 DEF vars
  <2>2. Top' = Top /\ (Freeing' <=> Freeing)
    BY <2>1 DEF Top, Freeing
  <2>3. FreedInv' /\ FreedWhenSent'
    BY <2>1, <2>2, QuietFreed
  <2>4. SettledInv' /\ (Freeing' => sendbufs # <<>>)
    BY <2>1, <2>2 DEF IInv, SettledInv, FrameInv
  <2>5. /\ broken' \in BOOLEAN /\ selected' \in BOOLEAN /\ err' \in {-1, 0, 1}
        /\ stack' \in Seq(Frame)
    BY <2>1 DEF IInv, TypeOK
  <2>6. freed' \in Seq((1..MaxSends) \X {"sent", "closed"})
    BY <2>1 DEF IInv, TypeOK
  <2>7. \A i \in 2..Len(stack') : stack'[i] = "flushed"
    BY <2>1 DEF IInv, FrameInv
  <2> QED
    BY <2>1, <2>3, <2>4, <2>5, <2>6, <2>7, QuietIInv
<1> QED
  BY <1>1, <1>2, <1>3, <1>4, <1>5, <1>6 DEF Next

(* Every sendbuf is queued or was freed, and none is freed twice: those    *)
(* that were are the first.                                                *)
LEMMA AllAccounted ==
  ASSUME IInv
  PROVE  Accounted
<1>1. FreedIds = 1..Len(freed)
  BY NatLens DEF IInv, FreedInv, FreedIds
<1>2. QueuedIds = (Gone + 1)..Len(sizes)
  <2>1. \A i \in 1..Len(sendbufs) : sendbufs[i].id = Gone + i
    BY NatLens DEF IInv, QueueInv
  <2>2. ASSUME NEW id \in (Gone + 1)..Len(sizes)
        PROVE  id - Gone \in 1..Len(sendbufs) /\ id = Gone + (id - Gone)
    BY NatLens
  <2>3. \A i \in 1..Len(sendbufs) : Gone + i \in (Gone + 1)..Len(sizes)
    BY NatLens
  <2>4. \A id \in (Gone + 1)..Len(sizes) : id \in QueuedIds
    <3> TAKE id \in (Gone + 1)..Len(sizes)
    <3>1. sendbufs[id - Gone].id = id /\ id - Gone \in DOMAIN sendbufs
      BY <2>1, <2>2, NatLens
    <3> QED
      BY <3>1 DEF QueuedIds
  <2>5. \A id \in QueuedIds : id \in (Gone + 1)..Len(sizes)
    BY <2>1, <2>3, NatLens DEF QueuedIds
  <2> QED
    BY <2>4, <2>5
<1>3. FreedOnce
  <2>1. Cardinality(1..Len(freed)) = IF 1 > Len(freed) THEN 0 ELSE Len(freed) - 1 + 1
    <3>1. 1 \in Int /\ Len(freed) \in Int
      BY NatLens
    <3> QED
      BY <3>1, FS_Interval
  <2> QED
    BY <1>1, <2>1, NatLens DEF FreedOnce
<1>4. DOMAIN sizes = FreedIds \cup QueuedIds
  <2>1. Len(freed) = Gone \/ (Len(freed) = Gone + 1 /\ sendbufs # <<>>)
    <3>1. CASE Freeing
      BY <3>1, NatLens DEF IInv, FreedInv, FrameInv
    <3>2. CASE ~Freeing
      BY <3>2, NatLens DEF IInv, FreedInv
    <3> QED
      BY <3>1, <3>2
  <2>2. Len(freed) <= Len(sizes) /\ Gone <= Len(freed)
    BY <2>1, NatLens, HeadTyped
  <2> QED
    BY <1>1, <1>2, <2>2, NatLens
<1>5. Top \notin {"free", "closefree"} => FreedIds \cap QueuedIds = {}
  <2> SUFFICES ASSUME ~Freeing PROVE FreedIds \cap QueuedIds = {}
    BY DEF Freeing
  <2>1. Len(freed) = Gone
    BY NatLens DEF IInv, FreedInv
  <2> QED
    BY <1>1, <1>2, <2>1, NatLens
<1> QED
  BY <1>3, <1>4, <1>5 DEF Accounted

(* As long as no free_func sends: for any lengths and numbers of sendbufs, *)
(* any room in the kernel and any depth of calls, what is written is what  *)
(* was queued, in order and up to the shutdown; free_func is called once   *)
(* for each, when it is sent or the list closes; and the descriptor is     *)
(* selected for exactly while something is pending.                        *)
THEOREM SendsInOrder ==
  ASSUME FreeMaySend = FALSE
  PROVE  Spec => []SentInOrder
<1>1. IInv => SentInOrder
  <2>1. IInv => PendingSelected
    BY DEF IInv, SettledInv, PendingSelected
  <2> QED
    BY <2>1, AllAccounted DEF IInv, SentInOrder
<1>2. IInv /\ [Next]_vars => IInv'
  BY NextIInv
<1> QED
  BY <1>1, <1>2, InitIInv, PTL DEF Spec
=============================================================================
