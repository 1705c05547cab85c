---------------------------- MODULE FilesProofs ----------------------------
(***************************************************************************)
(* Proofs about what Library keeps in files, for any names, sizes and      *)
(* numbers of them: the directories of dir.c, the mappings of mmap.c, the  *)
(* namespaces of ns.c and the logs of debug_stdio.c.  Each part has an     *)
(* inductive invariant in its own module: D!IInv, M!IInv, N!IInv and       *)
(* B!LogIInv.                                                              *)
(***************************************************************************)
EXTENDS Library, FiniteSetTheorems, SequenceTheorems, WellFoundedInduction, TLAPS

-----------------------------------------------------------------------------
LEMMA LeastNumber ==
  ASSUME NEW T \in SUBSET Nat, T # {}
  PROVE  \E m \in T : \A l \in T : m <= l
<1> DEFINE R == OpToRel(<, Nat)
<1>1. PICK m \in T : \A l \in T : ~(<<l, m>> \in R)
  <2>1. IsWellFoundedOn(R, Nat)
    BY NatLessThanWellFounded
  <2> HIDE DEF R
  <2> QED
    BY <2>1, WFMin
<1>2. \A l \in T : ~(l < m)
  BY <1>1 DEF OpToRel
<1> QED
  BY <1>2

(* dir.c.  The directories on the way to a directory.                      *)
LEMMA OnTheWay ==
  ASSUME NEW dir \in Seq(STRING), NEW n \in 0..Len(dir)
  PROVE  /\ D!Prefix(dir, n) \in Seq(STRING) /\ Len(D!Prefix(dir, n)) = n
         /\ \A m \in 0..n : D!Prefix(D!Prefix(dir, n), m) = D!Prefix(dir, m)
         /\ n >= 1 => D!Parent(D!Prefix(dir, n)) = D!Prefix(dir, n - 1)
<1> DEFINE part(m) == [i \in 1..m |-> dir[i]]
<1>1. \A m \in 0..Len(dir) : D!Prefix(dir, m) = part(m)
  BY DEF D!Prefix
<1>2. part(n) \in Seq(STRING) /\ Len(part(n)) = n
  OBVIOUS
<1>3. \A m \in 0..n : D!Prefix(part(n), m) = part(m)
  <2> TAKE m \in 0..n
  <2>1. m \in Nat /\ m <= n /\ 1 + m - 1 = m
    OBVIOUS
  <2>2. \A i \in 1..m : part(n)[i] = dir[i]
    BY <2>1
  <2>3. D!Prefix(part(n), m) = [i \in 1..m |-> part(n)[i]]
    BY <1>2, <2>1 DEF D!Prefix
  <2> QED
    BY <2>2, <2>3
<1> HIDE DEF part
<1>4. n >= 1 => n - 1 \in 0..n
  OBVIOUS
<1> QED
  BY <1>1, <1>2, <1>3, <1>4 DEF D!Parent

(* The paths, and what has to be made.                                     *)
LEMMA PathsAre ==
  /\ \A path \in Path : path \in Seq(STRING) /\ path # <<>> /\ Len(path) \in Nat /\ Len(path) >= 1
  /\ \A dir \in D!Dirs : dir \in Seq(STRING) /\ Len(dir) >= 1 /\ dir # <<>>
  /\ \A path \in Path, n \in Nat : n >= 1 /\ n <= Len(path) => D!Prefix(path, n) \in D!Dirs
  /\ \A path \in Path : D!Prefix(path, 1) \in D!First
<1>1. \A path \in Path : path \in Seq(STRING) /\ path # <<>> /\ Len(path) \in Nat /\ Len(path) >= 1
  BY LibraryAssumption DEF D!DirAssumption
<1>2. ASSUME NEW dir \in D!Dirs
      PROVE  dir \in Seq(STRING) /\ Len(dir) >= 1 /\ dir # <<>>
  <2>1. PICK path \in Path : \E n \in 1..Len(path) : dir = D!Prefix(path, n)
    BY DEF D!Dirs
  <2>2. PICK n \in 1..Len(path) : dir = D!Prefix(path, n)
    BY <2>1
  <2>3. dir \in Seq(STRING) /\ Len(dir) = n
    BY <1>1, <2>2, OnTheWay
  <2> QED
    BY <2>3
<1>3. \A path \in Path, n \in Nat : n >= 1 /\ n <= Len(path) => D!Prefix(path, n) \in D!Dirs
  BY <1>1 DEF D!Dirs
<1> QED
  BY <1>1, <1>2, <1>3 DEF D!First

LEMMA DirInitIInv == FirstExists /\ D!Init => D!IInv
<1> SUFFICES ASSUME FirstExists, D!Init PROVE D!IInv
  OBVIOUS
<1>1. v1 = D!First /\ v2 \subseteq D!Dirs
  BY DEF D!Init
<1>2. v3 \in [Proc -> [dir : Path, last : BOOLEAN, p : {0}, errno : {"other"}, ret : {1}]]
  BY DEF D!Init
<1>3. \A dir \in D!First : dir \in D!Dirs /\ \A n \in 1..Len(dir) : D!Prefix(dir, n) \in D!First
  <2> TAKE dir \in D!First
  <2>1. PICK path \in Path : dir = D!Prefix(path, 1)
    BY DEF D!First
  <2>2. path \in Seq(STRING) /\ 1 \in 0..Len(path)
    BY PathsAre
  <2>3. Len(dir) = 1 /\ D!Prefix(dir, 1) = dir
    <3>1. 1 \in 0..1
      OBVIOUS
    <3> QED
      BY <2>1, <2>2, <3>1, OnTheWay
  <2>4. dir \in D!Dirs
    BY <2>1, <2>2, PathsAre
  <2> QED
    BY <2>3, <2>4
<1>4. D!TypeOK
  BY <1>1, <1>2, <1>3 DEF D!TypeOK
<1>5. D!Closed
  BY <1>1, <1>3 DEF D!Closed
<1>6. \A p \in Proc : v3[p].p < Len(v3[p].dir) /\ D!Running(p) /\ D!OnItsWay(p)
  BY <1>2, PathsAre DEF D!Running, D!OnItsWay
<1> QED
  BY <1>4, <1>5, <1>6 DEF D!IInv

(* A directory before which one cannot be made is not there.               *)
LEMMA BlockedIs ==
  ASSUME D!Closed, NEW dir \in Seq(STRING), NEW n \in 0..Len(dir), D!Blocked(D!Prefix(dir, n))
  PROVE  /\ D!Prefix(dir, n) \notin v1
         /\ \A m \in n..Len(dir) : D!Blocked(D!Prefix(dir, m))
<1>1. PICK k \in 2..n : D!Prefix(dir, k - 1) \in v2 /\ D!Prefix(dir, k) \notin v1
  <2>1. PICK k \in 2..Len(D!Prefix(dir, n)) :
          /\ D!Prefix(D!Prefix(dir, n), k - 1) \in v2
          /\ D!Prefix(D!Prefix(dir, n), k) \notin v1
    BY DEF D!Blocked
  <2>2. k \in 2..n /\ k \in 0..n /\ k - 1 \in 0..n
    BY <2>1, OnTheWay
  <2> QED
    BY <2>1, <2>2, OnTheWay
<1>2. D!Prefix(dir, n) \notin v1
  <2>1. k \in 1..Len(D!Prefix(dir, n)) /\ D!Prefix(D!Prefix(dir, n), k) = D!Prefix(dir, k)
    BY OnTheWay
  <2> QED
    BY <1>1, <2>1 DEF D!Closed
<1>3. ASSUME NEW m \in n..Len(dir)
      PROVE  D!Blocked(D!Prefix(dir, m))
  <2>1. m \in 0..Len(dir) /\ k \in 0..m /\ k - 1 \in 0..m /\ k \in 2..m
    OBVIOUS
  <2>2. /\ Len(D!Prefix(dir, m)) = m /\ D!Prefix(D!Prefix(dir, m), k) = D!Prefix(dir, k)
        /\ D!Prefix(D!Prefix(dir, m), k - 1) = D!Prefix(dir, k - 1)
    BY <2>1, OnTheWay
  <2> QED
    BY <1>1, <2>1, <2>2 DEF D!Blocked
<1> QED
  BY <1>2, <1>3

(* What mkdir does, and what its error means.                              *)
LEMMA Mkdir ==
  ASSUME D!TypeOK, D!Closed, NEW path \in Path, NEW n \in Nat, n >= 1, n <= Len(path),
         D!dir_mkdir(D!Prefix(path, n)), v2' = v2
  PROVE  /\ v1 \subseteq v1' /\ v1' \subseteq D!Dirs /\ D!Closed'
         /\ \A dir \in Seq(STRING) : D!Blocked(dir) => D!Blocked(dir)'
         /\ \/ D!Outcome(D!Prefix(path, n)) = "0" /\ D!Prefix(path, n) \in v1'
               /\ n > 1 /\ D!Prefix(path, n - 1) \in v1
            \/ D!Outcome(D!Prefix(path, n)) = "EEXIST" /\ D!Prefix(path, n) \in v1
            \/ D!Outcome(D!Prefix(path, n)) = "ENOENT" /\ n > 1 /\ D!Prefix(path, n - 1) \notin v1
            \/ D!Outcome(D!Prefix(path, n)) = "EACCES" /\ n > 1 /\ D!Blocked(D!Prefix(path, n))
<1> DEFINE d == D!Prefix(path, n)
           up == D!Prefix(path, n - 1)
<1>1. path \in Seq(STRING) /\ n \in 0..Len(path) /\ n - 1 \in 0..n
  BY PathsAre
<1>2. /\ d \in Seq(STRING) /\ Len(d) = n /\ D!Parent(d) = up
      /\ \A m \in 0..n : D!Prefix(d, m) = D!Prefix(path, m)
  BY <1>1, OnTheWay
<1>3. d \in D!Dirs /\ v2 \subseteq D!Dirs /\ v1 \subseteq D!Dirs /\ D!First \subseteq v1
  BY <1>1, PathsAre DEF D!TypeOK, D!Closed
<1>4. n = 1 => d \in v1
  BY <1>3, PathsAre DEF D!Closed
<1>5. up \in v2 => n > 1
  <2>1. n = 1 => Len(up) = 0
    BY <1>1, OnTheWay
  <2> QED
    BY <1>3, <2>1, PathsAre
<1>6. \/ D!Outcome(d) = "0" /\ d \notin v1 /\ (n > 1 => up \in v1) /\ up \notin v2
      \/ D!Outcome(d) = "EEXIST" /\ d \in v1
      \/ D!Outcome(d) = "ENOENT" /\ n > 1 /\ up \notin v1
      \/ D!Outcome(d) = "EACCES" /\ up \in v2 /\ d \notin v1
  BY <1>2 DEF D!Outcome
<1>7. up \in v2 /\ d \notin v1 => D!Blocked(d)
  <2>1. n > 1 => n \in 2..Len(d) /\ D!Prefix(d, n) = d /\ D!Prefix(d, n - 1) = up
    BY <1>1, <1>2
  <2> QED
    BY <1>5, <2>1 DEF D!Blocked
<1>8. v1' = IF D!Outcome(d) = "0" THEN v1 \cup {d} ELSE v1
  BY DEF D!dir_mkdir
<1>9. D!Closed'
  <2>1. \A m \in 1..Len(d) : D!Outcome(d) = "0" => D!Prefix(d, m) \in v1 \cup {d}
    <3> SUFFICES ASSUME NEW m \in 1..n, D!Outcome(d) = "0" PROVE D!Prefix(d, m) \in v1 \cup {d}
      BY <1>2
    <3>1. n > 1 /\ up \in v1
      BY <1>4, <1>6
    <3>2. CASE m = n
      BY <1>2, <3>2
    <3>3. CASE m < n
      <4>1. m \in 0..(n - 1) /\ m \in 0..n /\ n - 1 \in 0..Len(path)
        BY <1>1, <3>3
      <4>2. /\ Len(up) = n - 1 /\ D!Prefix(up, m) = D!Prefix(path, m)
            /\ D!Prefix(d, m) = D!Prefix(path, m)
        BY <1>1, <1>2, <4>1, OnTheWay
      <4> QED
        BY <3>1, <4>1, <4>2 DEF D!Closed
    <3> QED
      BY <3>2, <3>3
  <2> HIDE DEF d
  <2> QED
    BY <1>8, <2>1 DEF D!Closed
<1>10. ASSUME NEW dir \in Seq(STRING), D!Blocked(dir)
       PROVE  D!Blocked(dir)'
  <2>1. PICK k \in 2..Len(dir) : D!Prefix(dir, k - 1) \in v2 /\ D!Prefix(dir, k) \notin v1
    BY <1>10 DEF D!Blocked
  <2>2. D!Parent(D!Prefix(dir, k)) = D!Prefix(dir, k - 1)
    <3>1. k \in 0..Len(dir) /\ k >= 1
      OBVIOUS
    <3> QED
      BY <3>1, OnTheWay
  <2>3. D!Prefix(dir, k) \notin v1'
    BY <1>2, <1>6, <1>8, <2>1, <2>2
  <2> QED
    BY <2>1, <2>3 DEF D!Blocked
<1> QED
  BY <1>3, <1>4, <1>5, <1>6, <1>7, <1>8, <1>9, <1>10

(* What is kept of a call.                                                 *)
Runs ==
  [dir : Path, last : BOOLEAN, p : Nat, errno : {"other", "EEXIST", "ENOENT", "EACCES"},
   ret : {1, 0, -1}]

(* What IInv says of one process.                                          *)
OneRun(p) ==
  /\ v3[p].p < Len(v3[p].dir)
  /\ IF D!Running(p) THEN D!OnItsWay(p) ELSE D!Answered(p)

(* A step of process p that makes a directory, or none.                    *)
LEMMA OneRuns ==
  ASSUME D!IInv, NEW p \in Proc, NEW c \in Runs, v3' = [v3 EXCEPT ![p] = c], v2' = v2,
         v1 \subseteq v1', v1' \subseteq D!Dirs, D!Closed',
         \A dir \in Seq(STRING) : D!Blocked(dir) => D!Blocked(dir)',
         OneRun(p)'
  PROVE  D!IInv'
<1>1. v3 \in [Proc -> Runs] /\ v2 \subseteq D!Dirs
  BY DEF D!IInv, D!TypeOK, Runs
<1>2. D!TypeOK'
  BY <1>1 DEF D!TypeOK, Runs
<1>3. ASSUME NEW q \in Proc, q # p
      PROVE  OneRun(q)'
  <2>1. /\ v3'[q] = v3[q] /\ v3[q].dir \in Path /\ v3[q].p \in Nat /\ v3[q].p < Len(v3[q].dir)
        /\ OneRun(q)
    BY <1>1, <1>3 DEF D!IInv, OneRun, Runs
  <2>2. /\ v3[q].dir \in Seq(STRING) /\ Len(v3[q].dir) \in Nat
        /\ D!Prefix(v3[q].dir, v3[q].p) \in Seq(STRING) /\ D!Wanted(q) \in Seq(STRING)
    <3> DEFINE d == v3[q].dir
               k == v3[q].p
    <3>1. d \in Seq(STRING) /\ Len(d) \in Nat /\ Len(d) >= 1
      BY <2>1, PathsAre
    <3>2. k \in 0..Len(d) /\ Len(d) - 1 \in 0..Len(d)
      BY <2>1, <3>1
    <3>3. D!Wanted(q) \in {d, D!Prefix(d, Len(d) - 1)}
      BY DEF D!Wanted, D!Parent
    <3> HIDE DEF d, k
    <3>4. D!Prefix(d, k) \in Seq(STRING) /\ D!Prefix(d, Len(d) - 1) \in Seq(STRING)
      BY <3>1, <3>2, OnTheWay
    <3> QED
      BY <3>1, <3>3, <3>4 DEF d, k
  <2>3. D!Wanted(q)' = D!Wanted(q) /\ (D!Running(q)' <=> D!Running(q))
    BY <2>1 DEF D!Wanted, D!Running
  <2>4. D!Running(q) => D!OnItsWay(q)'
    BY <2>1, <2>2 DEF OneRun, D!OnItsWay
  <2>5. ~D!Running(q) => D!Answered(q)'
    BY <2>1, <2>2, <2>3 DEF OneRun, D!Answered
  <2> QED
    BY <2>1, <2>3, <2>4, <2>5 DEF OneRun
<1> QED
  BY <1>2, <1>3 DEF D!IInv, OneRun

(* A process on its way tries the next directory.                          *)
LEMMA Tried ==
  ASSUME D!IInv, NEW p \in Proc, D!Running(p), NEW path, path = v3[p].dir,
         NEW n, n = v3[p].p + 1, n <= Len(path), D!dir_mkdir(D!Prefix(path, n)), v2' = v2
  PROVE  /\ v1 \subseteq v1' /\ v1' \subseteq D!Dirs /\ D!Closed'
         /\ \A dir \in Seq(STRING) : D!Blocked(dir) => D!Blocked(dir)'
         /\ \/ D!Outcome(D!Prefix(path, n)) = "0" /\ v3[p].errno = "EEXIST"
               /\ D!Prefix(path, n) \in v1'
            \/ D!Outcome(D!Prefix(path, n)) = "EEXIST" /\ D!Prefix(path, n) \in v1'
            \/ /\ D!Outcome(D!Prefix(path, n)) \in {"ENOENT", "EACCES"}
               /\ D!Blocked(D!Prefix(path, n))'
<1>1. PICK k : k = v3[p].p
  OBVIOUS
<1>2. /\ path \in Path /\ k \in Nat /\ D!OnItsWay(p) /\ D!TypeOK /\ D!Closed
      /\ v3[p].errno \in {"other", "EEXIST", "ENOENT", "EACCES"}
  BY <1>1 DEF D!IInv, D!TypeOK
<1>3. n \in Nat /\ n >= 1 /\ n - 1 = k /\ (n > 1 => k # 0)
  BY <1>1, <1>2
<1>4. path \in Seq(STRING) /\ Len(path) \in Nat
  BY <1>2, PathsAre
<1>5. /\ k # 0 /\ D!Prefix(path, k) \in v1 => v3[p].errno = "EEXIST"
      /\ k # 0 /\ D!Prefix(path, k) \notin v1 => D!Blocked(D!Prefix(path, n))
  <2> SUFFICES ASSUME k # 0
               PROVE  /\ D!Prefix(path, k) \in v1 => v3[p].errno = "EEXIST"
                      /\ D!Prefix(path, k) \notin v1 => D!Blocked(D!Prefix(path, n))
    OBVIOUS
  <2>1. \/ v3[p].errno = "EEXIST" /\ D!Prefix(path, k) \in v1
        \/ D!Blocked(D!Prefix(path, k))
    BY <1>1, <1>2 DEF D!OnItsWay
  <2>2. k \in 0..Len(path) /\ n \in k..Len(path)
    BY <1>2, <1>3, <1>4
  <2>3. D!Blocked(D!Prefix(path, k)) =>
          D!Prefix(path, k) \notin v1 /\ D!Blocked(D!Prefix(path, n))
    BY <1>2, <1>4, <2>2, BlockedIs
  <2> QED
    BY <2>1, <2>3
<1>6. D!Prefix(path, n) \in Seq(STRING)
  BY <1>3, <1>4, OnTheWay
<1>7. /\ v1 \subseteq v1' /\ v1' \subseteq D!Dirs /\ D!Closed'
      /\ \A dir \in Seq(STRING) : D!Blocked(dir) => D!Blocked(dir)'
      /\ \/ D!Outcome(D!Prefix(path, n)) = "0" /\ D!Prefix(path, n) \in v1'
            /\ n > 1 /\ D!Prefix(path, n - 1) \in v1
         \/ D!Outcome(D!Prefix(path, n)) = "EEXIST" /\ D!Prefix(path, n) \in v1
         \/ D!Outcome(D!Prefix(path, n)) = "ENOENT" /\ n > 1 /\ D!Prefix(path, n - 1) \notin v1
         \/ D!Outcome(D!Prefix(path, n)) = "EACCES" /\ n > 1 /\ D!Blocked(D!Prefix(path, n))
  BY <1>2, <1>3, Mkdir
<1>8. D!Blocked(D!Prefix(path, n)) => D!Blocked(D!Prefix(path, n))'
  BY <1>6, <1>7
<1> QED
  BY <1>3, <1>5, <1>7, <1>8

LEMMA DirNextIInv == D!IInv /\ [D!Next]_(D!vars) => D!IInv'
<1> SUFFICES ASSUME D!IInv, [D!Next]_(D!vars) PROVE D!IInv'
  OBVIOUS
<1>1. v3 \in [Proc -> Runs] /\ D!Closed /\ v1 \subseteq D!Dirs
  BY DEF D!IInv, D!TypeOK, Runs
<1>2. ASSUME NEW p \in Proc
      PROVE  \E run \in Runs :
               /\ run = v3[p] /\ run.dir \in Path /\ run.p \in Nat /\ OneRun(p)
               /\ run.errno \in {"other", "EEXIST", "ENOENT", "EACCES"}
               /\ run.dir \in Seq(STRING) /\ Len(run.dir) \in Nat
  <2>1. v3[p] \in Runs /\ OneRun(p)
    BY <1>1 DEF D!IInv, OneRun
  <2>2. v3[p].dir \in Path
    BY <2>1 DEF Runs
  <2>3. v3[p].dir \in Seq(STRING) /\ Len(v3[p].dir) \in Nat
    BY <2>2, PathsAre
  <2> QED
    BY <2>1, <2>2, <2>3 DEF Runs
<1>3. ASSUME NEW p \in Proc, D!MakeParent(p)
      PROVE  D!IInv'
  <2>1. PICK s \in Runs :
          /\ s = v3[p] /\ s.dir \in Path /\ s.p \in Nat /\ OneRun(p)
          /\ s.errno \in {"other", "EEXIST", "ENOENT", "EACCES"}
          /\ s.dir \in Seq(STRING) /\ Len(s.dir) \in Nat
    BY <1>2
  <2>2. PICK n, d, e : n = s.p + 1 /\ d = D!Prefix(s.dir, n) /\ e = D!errno(p, d)
    OBVIOUS
  <2>3. n \in Nat /\ n # 0 /\ n < Len(s.dir)
    BY <2>1, <2>2, <1>3 DEF D!MakeParent
  <2>4. D!Running(p) /\ D!dir_mkdir(d) /\ v2' = v2
    BY <2>1, <2>2, <1>3 DEF D!MakeParent
  <2>5. v3' = [v3 EXCEPT ![p].p = n, ![p].errno = e]
    BY <2>1, <2>2, <1>3 DEF D!MakeParent
  <2>6. PICK c : c = [s EXCEPT !.p = n, !.errno = e]
    OBVIOUS
  <2>7. v3' = [v3 EXCEPT ![p] = c]
    BY <1>1, <2>1, <2>5, <2>6
  <2>8. /\ v1 \subseteq v1' /\ v1' \subseteq D!Dirs /\ D!Closed'
        /\ \A dir \in Seq(STRING) : D!Blocked(dir) => D!Blocked(dir)'
        /\ \/ D!Outcome(d) = "0" /\ s.errno = "EEXIST" /\ d \in v1'
           \/ D!Outcome(d) = "EEXIST" /\ d \in v1'
           \/ D!Outcome(d) \in {"ENOENT", "EACCES"} /\ D!Blocked(d)'
    BY <2>1, <2>2, <2>3, <2>4, Tried
  <2>9. /\ e \in {"EEXIST", "ENOENT", "EACCES"} /\ (e = "EEXIST" => d \in v1')
        /\ (e # "EEXIST" => D!Blocked(d)')
    BY <2>1, <2>2, <2>8 DEF D!errno
  <2>10. /\ c \in Runs /\ c.p = n /\ c.errno = e /\ c.ret = s.ret /\ c.dir = s.dir
    <3>1. e \in {"EEXIST", "ENOENT", "EACCES"}
      BY <2>9
    <3> QED
      BY <2>3, <2>6, <3>1 DEF Runs
  <2>11. v3'[p] = c
    BY <1>1, <2>7
  <2>12. OneRun(p)'
    <3>1. c.p < Len(c.dir) /\ c.p # 0 /\ c.ret = 1
      BY <2>1, <2>3, <2>4, <2>10 DEF D!Running
    <3>2. D!OnItsWay(p)'
      BY <2>2, <2>9, <2>10, <2>11, <3>1 DEF D!OnItsWay
    <3> QED
      BY <2>11, <3>1, <3>2 DEF OneRun, D!Running
  <2> QED
    BY <2>4, <2>7, <2>8, <2>10, <2>12, OneRuns
<1>4. ASSUME NEW p \in Proc, D!MakeLast(p)
      PROVE  D!IInv'
  <2>1. PICK s \in Runs :
          /\ s = v3[p] /\ s.dir \in Path /\ s.p \in Nat /\ OneRun(p)
          /\ s.errno \in {"other", "EEXIST", "ENOENT", "EACCES"}
          /\ s.dir \in Seq(STRING) /\ Len(s.dir) \in Nat
    BY <1>2
  <2>2. PICK n, d, e, err, r :
          /\ n = s.p + 1 /\ d = s.dir /\ e = D!errno(p, d)
          /\ err = (IF D!Outcome(d) = "0" THEN 0 ELSE -1) /\ r = D!Returned(err, e)
    OBVIOUS
  <2>3. n = Len(d) /\ s.last
    BY <2>1, <2>2, <1>4 DEF D!MakeLast
  <2>4. D!Running(p) /\ D!dir_mkdir(d) /\ v2' = v2
    BY <2>1, <2>2, <1>4 DEF D!MakeLast
  <2>5. v3' = [v3 EXCEPT ![p].errno = e, ![p].ret = r]
    BY <2>1, <2>2, <1>4 DEF D!MakeLast
  <2>6. PICK c : c = [s EXCEPT !.errno = e, !.ret = r]
    OBVIOUS
  <2>7. v3' = [v3 EXCEPT ![p] = c]
    BY <1>1, <2>1, <2>5, <2>6
  <2>8. D!Prefix(d, n) = d
    BY <2>1, <2>2, <2>3 DEF D!Prefix
  <2>9. /\ v1 \subseteq v1' /\ v1' \subseteq D!Dirs /\ D!Closed'
        /\ \A dir \in Seq(STRING) : D!Blocked(dir) => D!Blocked(dir)'
        /\ \/ D!Outcome(d) = "0" /\ s.errno = "EEXIST" /\ d \in v1'
           \/ D!Outcome(d) = "EEXIST" /\ d \in v1'
           \/ D!Outcome(d) \in {"ENOENT", "EACCES"} /\ D!Blocked(d)'
    <3>1. n <= Len(d) /\ D!dir_mkdir(D!Prefix(d, n))
      BY <2>1, <2>2, <2>3, <2>4, <2>8
    <3>2. /\ v1 \subseteq v1' /\ v1' \subseteq D!Dirs /\ D!Closed'
          /\ \A dir \in Seq(STRING) : D!Blocked(dir) => D!Blocked(dir)'
          /\ \/ D!Outcome(D!Prefix(d, n)) = "0" /\ s.errno = "EEXIST" /\ D!Prefix(d, n) \in v1'
             \/ D!Outcome(D!Prefix(d, n)) = "EEXIST" /\ D!Prefix(d, n) \in v1'
             \/ D!Outcome(D!Prefix(d, n)) \in {"ENOENT", "EACCES"} /\ D!Blocked(D!Prefix(d, n))'
      BY <2>1, <2>2, <2>4, <3>1, Tried
    <3> QED
      BY <2>8, <3>2
  <2>10. e \in {"EEXIST", "ENOENT", "EACCES"} /\ r \in {0, -1}
    BY <2>1, <2>2, <2>9 DEF D!errno, D!Returned
  <2>11. (r = 0 => d \in v1') /\ (r = -1 => D!Blocked(d)')
    BY <2>1, <2>2, <2>9 DEF D!errno, D!Returned
  <2>12. c \in Runs /\ c.p = s.p /\ c.ret = r /\ c.dir = d /\ c.last = s.last
    <3>1. e \in {"other", "EEXIST", "ENOENT", "EACCES"} /\ r \in {1, 0, -1}
      BY <2>10
    <3>2. c \in Runs /\ c.p = s.p /\ c.ret = r /\ c.dir = s.dir /\ c.last = s.last
      BY <2>6, <3>1 DEF Runs
    <3> QED
      BY <2>2, <3>2
  <2>13. v3'[p] = c
    BY <1>1, <2>7
  <2>14. OneRun(p)'
    <3>1. c.p < Len(c.dir) /\ c.ret # 1 /\ c.last
      BY <2>1, <2>2, <2>3, <2>10, <2>12
    <3>2. D!Wanted(p)' = d
      BY <2>12, <2>13, <3>1 DEF D!Wanted
    <3>3. D!Answered(p)'
      BY <2>10, <2>11, <2>12, <2>13, <3>2 DEF D!Answered
    <3> QED
      BY <2>13, <3>1, <3>3 DEF OneRun, D!Running
  <2> QED
    BY <2>4, <2>7, <2>9, <2>12, <2>14, OneRuns
<1>5. ASSUME NEW p \in Proc, D!LeaveLast(p)
      PROVE  D!IInv'
  <2>1. PICK s \in Runs :
          /\ s = v3[p] /\ s.dir \in Path /\ s.p \in Nat /\ OneRun(p)
          /\ s.errno \in {"other", "EEXIST", "ENOENT", "EACCES"}
          /\ s.dir \in Seq(STRING) /\ Len(s.dir) \in Nat
    BY <1>2
  <2>2. PICK d, r, up : d = s.dir /\ r = D!Returned(-1, s.errno) /\ up = D!Prefix(d, s.p)
    OBVIOUS
  <2>3. D!Running(p) /\ s.p + 1 = Len(d) /\ ~s.last /\ v1' = v1 /\ v2' = v2
    BY <2>1, <2>2, <1>5 DEF D!LeaveLast
  <2>4. v3' = [v3 EXCEPT ![p].ret = r]
    BY <2>1, <2>2, <1>5 DEF D!LeaveLast
  <2>5. PICK c : c = [s EXCEPT !.ret = r]
    OBVIOUS
  <2>6. v3' = [v3 EXCEPT ![p] = c]
    BY <1>1, <2>1, <2>4, <2>5
  <2>7. r = IF s.errno = "EEXIST" THEN 0 ELSE -1
    BY <2>2 DEF D!Returned
  <2>8. c \in Runs /\ c.p = s.p /\ c.ret = r /\ c.dir = d /\ c.last = s.last
    <3>1. r \in {1, 0, -1}
      BY <2>7
    <3>2. c \in Runs /\ c.p = s.p /\ c.ret = r /\ c.dir = s.dir /\ c.last = s.last
      BY <2>5, <3>1 DEF Runs
    <3> QED
      BY <2>2, <3>2
  <2>9. v3'[p] = c
    BY <1>1, <2>6
  <2>10. D!Wanted(p)' = up
    BY <2>1, <2>2, <2>3, <2>8, <2>9 DEF D!Wanted, D!Parent
  <2>11. D!Closed' /\ \A dir \in Seq(STRING) : D!Blocked(dir) => D!Blocked(dir)'
    BY <1>1, <2>3 DEF D!Closed, D!Blocked
  <2>12. \/ r = 0 /\ up \in v1
         \/ r = -1 /\ (up = <<>> \/ D!Blocked(up))
    <3>1. D!OnItsWay(p)
      BY <2>1, <2>3 DEF OneRun
    <3>2. CASE s.p = 0
      <4>1. up = <<>>
        BY <2>1, <2>2, <3>2 DEF D!Prefix
      <4> QED
        BY <2>1, <2>7, <3>1, <3>2, <4>1 DEF D!OnItsWay
    <3>3. CASE s.p # 0
      <4>1. IF s.errno = "EEXIST" THEN up \in v1 ELSE D!Blocked(up)
        <5>1. D!Prefix(v3[p].dir, v3[p].p) = up /\ v3[p].p # 0 /\ v3[p].errno = s.errno
          BY <2>1, <2>2, <3>3
        <5> QED
          BY <3>1, <5>1, Zenon DEF D!OnItsWay
      <4>2. CASE s.errno = "EEXIST"
        <5>1. up \in v1
          BY <4>1, <4>2, Zenon
        <5>2. r = 0
          BY <2>7, <4>2
        <5> QED
          BY <5>1, <5>2, Zenon
      <4>3. CASE s.errno # "EEXIST"
        <5>1. D!Blocked(up)
          BY <4>1, <4>3, Zenon
        <5>2. r = -1
          BY <2>7, <4>3
        <5> QED
          BY <5>1, <5>2, Zenon
      <4> QED
        BY <4>2, <4>3
    <3> QED
      BY <3>2, <3>3
  <2>13. up \in Seq(STRING)
    <3>1. s.p \in 0..Len(d)
      BY <2>1, <2>2, <2>3
    <3> QED
      BY <2>1, <2>2, <3>1, OnTheWay
  <2>14. OneRun(p)'
    <3>1. c.p < Len(c.dir) /\ c.ret # 1
      BY <2>1, <2>2, <2>3, <2>7, <2>8
    <3>2. D!Answered(p)'
      BY <2>3, <2>8, <2>9, <2>10, <2>11, <2>12, <2>13 DEF D!Answered
    <3> QED
      BY <2>9, <3>1, <3>2 DEF OneRun, D!Running
  <2> QED
    BY <1>1, <2>3, <2>6, <2>8, <2>11, <2>14, OneRuns
<1>6. CASE UNCHANGED D!vars
  BY <1>6 DEF D!vars, D!IInv, D!TypeOK, D!Closed, D!Running, D!OnItsWay, D!Answered, D!Wanted,
     D!Blocked
<1> QED
  BY <1>3, <1>4, <1>5, <1>6 DEF D!Next

(* dir_mkpath tells the truth.                                             *)
LEMMA DirIInvImplies == D!IInv => D!MadeOrTold
<1> SUFFICES ASSUME D!IInv, NEW p \in Proc, ~D!Running(p)
             PROVE  v3[p].ret = 0 <=> D!Wanted(p) \in v1
  BY DEF D!MadeOrTold
<1> DEFINE d == D!Wanted(p)
<1>1. v3[p].dir \in Path /\ v1 \subseteq D!Dirs /\ D!Closed /\ D!Answered(p)
  BY DEF D!IInv, D!TypeOK
<1>2. (v3[p].ret = 0 /\ d \in v1) \/ (v3[p].ret = -1 /\ (d = <<>> \/ D!Blocked(d)))
  BY <1>1 DEF D!Answered
<1>3. <<>> \notin v1
  BY <1>1, PathsAre
<1>4. d \in Seq(STRING)
  <2>1. PICK path \in Path : path = v3[p].dir
    BY <1>1
  <2>2. path \in Seq(STRING) /\ Len(path) - 1 \in 0..Len(path)
    BY <2>1, PathsAre
  <2>3. D!Prefix(path, Len(path) - 1) \in Seq(STRING)
    BY <2>2, OnTheWay
  <2> QED
    BY <2>1, <2>2, <2>3 DEF D!Wanted, D!Parent
<1> HIDE DEF d
<1>5. D!Blocked(d) => d \notin v1
  <2>1. PICK e : e = d
    OBVIOUS
  <2>2. Len(e) \in 0..Len(e) /\ D!Prefix(e, Len(e)) = e
    BY <1>4, <2>1 DEF D!Prefix
  <2> QED
    BY <1>1, <1>4, <2>1, <2>2, BlockedIs
<1> QED
  BY <1>2, <1>3, <1>5 DEF d

(* The greatest of numbers that do not pass a bound.                       *)
LEMMA GreatestNumber ==
  ASSUME NEW T \in SUBSET Nat, T # {}, NEW b \in Nat, \A x \in T : x <= b
  PROVE  D!Max(T) \in T /\ D!Max(T) \in Nat /\ \A x \in T : x <= D!Max(T)
<1> DEFINE R == {b - x : x \in T}
<1>1. R \in SUBSET Nat /\ R # {}
  <2>1. \A x \in T : b - x \in Nat
    OBVIOUS
  <2> QED
    BY <2>1
<1>2. PICK m \in R : \A l \in R : m <= l
  BY <1>1, LeastNumber
<1>3. PICK y \in T : m = b - y
  BY <1>2
<1>4. \A x \in T : b - x \in R /\ x \in Nat
  OBVIOUS
<1>5. \A x \in T : y >= x
  BY <1>2, <1>3, <1>4
<1>6. D!Max(T) \in T /\ \A x \in T : D!Max(T) >= x
  BY <1>5 DEF D!Max
<1> QED
  BY <1>6

(* The last separator.                                                     *)
LEMMA LastSepIs ==
  ASSUME NEW text \in Seq(Chars), NEW i \in {1, 2}, NEW s, s = D!LastSep(text, i)
  PROVE  /\ s \in Nat /\ s <= Len(text)
         /\ s # 0 => s >= i /\ D!IsSep(text[s])
         /\ \A k \in i..Len(text) : D!IsSep(text[k]) => k <= s
<1> DEFINE T == {k \in i..Len(text) : D!IsSep(text[k])} \cup {0}
<1>1. T \in SUBSET Nat /\ T # {} /\ Len(text) \in Nat /\ \A x \in T : x <= Len(text)
  OBVIOUS
<1>2. s = D!Max(T)
  BY DEF D!LastSep
<1> HIDE DEF T
<1>3. s \in T /\ s \in Nat /\ \A x \in T : x <= s
  BY <1>1, <1>2, GreatestNumber
<1> QED
  BY <1>1, <1>3 DEF T

(* What is left of a name without its extension, and the extension.        *)
LEMMA WithoutExtension ==
  ASSUME NEW path \in Seq(Chars), NEW name \in Seq(Chars),
         name = D!From(path, D!LastSep(path, 1) + 1)
  PROVE  /\ D!IsPrefix(D!path2name(path), name)
         /\ LET rest == D!From(name, Len(D!path2name(path)) + 1)
            IN  rest # <<>> => rest[1] = "." /\ \A k \in 2..Len(rest) : rest[k] # "."
<1> DEFINE dots == {k \in DOMAIN name : name[k] = "."}
           last == D!Max(dots)
           rest == D!From(name, Len(D!path2name(path)) + 1)
<1>1. D!path2name(path) = IF dots = {} THEN name ELSE SubSeq(name, 1, last - 1)
  BY DEF D!path2name
<1>2. CASE dots = {}
  <2>1. rest = <<>>
    BY <1>1, <1>2 DEF D!From
  <2>2. D!IsPrefix(name, name)
    BY DEF D!IsPrefix
  <2> QED
    BY <1>1, <1>2, <2>1, <2>2
<1>3. CASE dots # {}
  <2>1. last \in dots /\ \A k \in dots : k <= last
    <3>1. dots \in SUBSET Nat /\ Len(name) \in Nat /\ \A k \in dots : k <= Len(name)
      OBVIOUS
    <3> HIDE DEF dots
    <3> QED
      BY <1>3, <3>1, GreatestNumber
  <2> HIDE DEF last
  <2>2. last \in 1..Len(name) /\ name[last] = "."
    BY <2>1
  <2>3. \A k \in (last + 1)..Len(name) : name[k] # "."
    BY <2>1, <2>2
  <2> HIDE DEF dots
  <2>4. PICK base : base = SubSeq(name, 1, last - 1)
    OBVIOUS
  <2>5. base = [i \in 1..(last - 1) |-> name[i]]
    BY <2>2, <2>4
  <2>6. Len(base) = last - 1 /\ D!IsPrefix(base, name)
    BY <2>2, <2>5 DEF D!IsPrefix
  <2>7. D!path2name(path) = base
    BY <1>1, <1>3, <2>4
  <2>8. rest = SubSeq(name, last, Len(name))
    <3>1. Len(base) + 1 = last
      BY <2>2, <2>6
    <3> QED
      BY <2>7, <3>1, Zenon DEF D!From
  <2>9. rest = [i \in 1..(Len(name) - last + 1) |-> name[i + last - 1]]
    <3> HIDE DEF rest
    <3> QED
      BY <2>2, <2>8
  <2> HIDE DEF rest
  <2>10. Len(rest) = Len(name) - last + 1 /\ rest[1] = name[last]
    BY <2>2, <2>9
  <2>11. \A k \in 2..Len(rest) : rest[k] = name[k + last - 1] /\ k + last - 1 \in (last + 1)..Len(name)
    BY <2>2, <2>9, <2>10
  <2> QED
    BY <2>2, <2>3, <2>6, <2>7, <2>10, <2>11 DEF rest
<1> QED
  BY <1>2, <1>3

(* The three ways to find the last component agree.                        *)
LEMMA NamesDoAgree == D!NamesAgree
<1> SUFFICES ASSUME NEW path \in D!BoundedSeq(Chars, MaxText) \ {<<>>}, ~D!IsSep(D!Last(path)),
                    D!IsSep(path[1]) => D!LastSep(path, 2) # 0
             PROVE  /\ D!IsSplit(path, IF D!LastSep(path, 2) = 0 THEN <<>> ELSE D!Chopped(path),
                                 D!dir_filename(path))
                    /\ D!dir_basename(path) = D!dir_filename(path)
                    /\ D!IsPrefix(D!path2name(path), D!dir_filename(path))
                    /\ LET rest == D!From(D!dir_filename(path), Len(D!path2name(path)) + 1)
                       IN  rest # <<>> => rest[1] = "." /\ \A k \in 2..Len(rest) : rest[k] # "."
  BY DEF D!NamesAgree
<1>1. path \in Seq(Chars) /\ Len(path) \in Nat /\ Len(path) >= 1
  <2>1. MaxText \in Nat
    BY LibraryAssumption DEF D!DirAssumption
  <2>2. PICK m \in 0..MaxText : path \in [1..m -> Chars]
    BY DEF D!BoundedSeq, D!SeqOf
  <2>3. m \in Nat
    BY <2>1
  <2>4. path \in Seq(Chars)
    BY <2>2, <2>3, SeqDef
  <2> QED
    BY <2>4
<1>2. PICK s, t : s = D!LastSep(path, 2) /\ t = D!LastSep(path, 1)
  OBVIOUS
<1>3. /\ s \in Nat /\ s <= Len(path) /\ (s # 0 => s >= 2 /\ D!IsSep(path[s]))
      /\ \A k \in 2..Len(path) : D!IsSep(path[k]) => k <= s
  BY <1>1, <1>2, LastSepIs
<1>4. /\ t \in Nat /\ t <= Len(path) /\ (t # 0 => t >= 1 /\ D!IsSep(path[t]))
      /\ \A k \in 1..Len(path) : D!IsSep(path[k]) => k <= t
  BY <1>1, <1>2, LastSepIs
<1>5. t = s
  <2>1. s # 0 => s <= t
    BY <1>3, <1>4
  <2>2. t > 1 => t <= s
    BY <1>3, <1>4
  <2>3. t = 1 => s # 0
    BY <1>2, <1>4
  <2> QED
    BY <1>3, <1>4, <2>1, <2>2, <2>3
<1>6. s < Len(path)
  BY <1>1, <1>3 DEF D!Last
<1>7. PICK name : name = D!From(path, s + 1)
  OBVIOUS
<1>8. name = [i \in 1..(Len(path) - s) |-> path[i + s]]
  BY <1>1, <1>3, <1>6, <1>7 DEF D!From
<1>9. name \in Seq(Chars) /\ Len(name) = Len(path) - s
  BY <1>1, <1>3, <1>6, <1>8
<1>10. D!dir_filename(path) = name
  BY <1>2, <1>7 DEF D!dir_filename
<1>11. D!dir_basename(path) = name
  <2> DEFINE T == {k \in 1..Len(path) : ~D!IsSep(path[k])} \cup {1}
  <2>1. T \in SUBSET Nat /\ T # {} /\ (\A x \in T : x <= Len(path)) /\ Len(path) \in T
    BY <1>1 DEF D!Last
  <2> HIDE DEF T
  <2>2. D!Max(T) \in T /\ D!Max(T) \in Nat /\ \A x \in T : x <= D!Max(T)
    BY <1>1, <2>1, GreatestNumber
  <2>3. D!Max(T) = Len(path)
    BY <1>1, <2>1, <2>2
  <2>4. SubSeq(path, 1, Len(path)) = path
    BY <1>1
  <2> QED
    <3>1. D!dir_basename(path) = D!From(path, D!LastSep(SubSeq(path, 1, D!Max(T)), 1) + 1)
      BY DEF T, D!dir_basename
    <3> QED
      BY <1>2, <1>5, <1>7, <2>3, <2>4, <3>1, Zenon
<1>12. D!IsSplit(path, IF s = 0 THEN <<>> ELSE D!Chopped(path), name)
  <2>1. \A k \in DOMAIN name : ~D!IsSep(name[k])
    <3> SUFFICES ASSUME NEW k \in 1..Len(name), D!IsSep(name[k]) PROVE FALSE
      BY <1>9
    <3>1. name[k] = path[k + s] /\ k + s \in 1..Len(path) /\ k + s > s
      BY <1>1, <1>3, <1>8, <1>9
    <3> QED
      BY <1>4, <1>5, <3>1
  <2>2. CASE s = 0
    <3>1. name = path
      BY <1>1, <1>8, <2>2
    <3> QED
      BY <2>1, <2>2, <3>1 DEF D!IsSplit
  <2>3. CASE s # 0
    <3>1. PICK up : up = D!Chopped(path)
      OBVIOUS
    <3>2. up = [i \in 1..(s - 1) |-> path[i]]
      BY <1>1, <1>2, <1>3, <2>3, <3>1 DEF D!Chopped
    <3>3. up \in Seq(Chars) /\ Len(up) = s - 1 /\ path[s] \in Chars
      BY <1>1, <1>3, <1>6, <2>3, <3>2
    <3>4. up \o <<path[s]>> \o name = path
      <4>1. PICK mid : mid = up \o <<path[s]>>
        OBVIOUS
      <4>2. mid \in Seq(Chars) /\ Len(mid) = s
        BY <1>3, <2>3, <3>3, <4>1
      <4>3. \A i \in 1..s : mid[i] = path[i]
        BY <1>3, <2>3, <3>2, <3>3, <4>1
      <4>4. PICK all : all = mid \o name
        OBVIOUS
      <4>5. all \in Seq(Chars) /\ Len(all) = Len(path)
        <5>1. all \in Seq(Chars) /\ Len(all) = Len(mid) + Len(name)
          BY <1>9, <4>2, <4>4, ConcatProperties
        <5> QED
          BY <1>1, <1>3, <1>9, <4>2, <5>1
      <4>6. \A i \in 1..Len(path) : all[i] = path[i]
        BY <1>1, <1>3, <1>8, <1>9, <4>2, <4>3, <4>4
      <4> QED
        BY <1>1, <4>1, <4>4, <4>5, <4>6, SeqEqual
    <3>5. path[s] \in D!Seps
      BY <1>3, <2>3 DEF D!IsSep
    <3> QED
      BY <2>1, <2>3, <3>1, <3>4, <3>5 DEF D!IsSplit
  <2> QED
    BY <2>2, <2>3
<1>13. /\ D!IsPrefix(D!path2name(path), name)
       /\ LET rest == D!From(name, Len(D!path2name(path)) + 1)
          IN  rest # <<>> => rest[1] = "." /\ \A k \in 2..Len(rest) : rest[k] # "."
  <2>1. name = D!From(path, D!LastSep(path, 1) + 1)
    BY <1>2, <1>5, <1>7
  <2> QED
    BY <1>1, <1>9, <2>1, WithoutExtension
<1> QED
  BY <1>2, <1>10, <1>11, <1>12, <1>13, Zenon

-----------------------------------------------------------------------------
(* mmap.c.  What is kept of a handle.                                      *)
Mappings ==
  [open : BOOLEAN, write : BOOLEAN, mapped : Nat, max : Nat, len : Nat, gaveUp : BOOLEAN]

(* Whole blocks hold what was asked for.                                   *)
LEMMA RoundUpHolds ==
  ASSUME NEW n \in Nat
  PROVE  M!RoundUp(n) \in Nat /\ M!RoundUp(n) >= n
<1>1. PICK q : q = ((n + blocksz) - 1) \div blocksz
  OBVIOUS
<1>2. blocksz \in Nat \ {0}
  BY LibraryAssumption DEF M!MmapAssumption
<1>3. n + blocksz - 1 \in Nat
  BY <1>2
<1>4. /\ q \in Nat
      /\ n + blocksz - 1 = blocksz * q + ((n + blocksz - 1) % blocksz)
      /\ (n + blocksz - 1) % blocksz \in 0..(blocksz - 1)
  BY <1>1, <1>2, <1>3
<1>5. q * blocksz \in Nat /\ q * blocksz = blocksz * q
  BY <1>2, <1>4
<1>6. q * blocksz >= n
  BY <1>2, <1>4, <1>5
<1> QED
  <2>1. M!RoundUp(n) = q * blocksz
    BY <1>1, Zenon DEF M!RoundUp
  <2> QED
    BY <1>5, <1>6, <2>1

(* A text with zeros behind it, and one with a range overwritten.          *)
LEMMA PaddedIs ==
  ASSUME NEW text \in Seq(M!Byte), NEW n \in Nat
  PROVE  /\ M!Padded(text, n) \in Seq(M!Byte)
         /\ Len(M!Padded(text, n)) = IF n > Len(text) THEN n ELSE Len(text)
         /\ \A i \in 1..Len(M!Padded(text, n)) :
              M!Padded(text, n)[i] = IF i <= Len(text) THEN text[i] ELSE 0
<1>1. PICK z : z = M!Zeros(n - Len(text))
  OBVIOUS
<1>2. z = [i \in 1..(n - Len(text)) |-> 0]
  BY <1>1 DEF M!Zeros
<1>3. PICK m : m = IF n > Len(text) THEN n - Len(text) ELSE 0
  OBVIOUS
<1>4. z \in Seq(M!Byte) /\ Len(z) = m /\ \A i \in 1..Len(z) : z[i] = 0
  <2>1. m \in Nat /\ 1..m = 1..(n - Len(text)) /\ 0 \in M!Byte
    BY <1>3 DEF M!Byte
  <2>2. z = [i \in 1..m |-> 0]
    BY <1>2, <2>1
  <2> QED
    BY <2>1, <2>2
<1>5. PICK p : p = text \o z
  OBVIOUS
<1>6. /\ p \in Seq(M!Byte) /\ Len(p) = Len(text) + Len(z)
      /\ \A i \in 1..(Len(text) + Len(z)) : p[i] = IF i <= Len(text) THEN text[i] ELSE z[i - Len(text)]
  BY <1>4, <1>5, ConcatProperties
<1>7. \A i \in 1..Len(p) : p[i] = IF i <= Len(text) THEN text[i] ELSE 0
  BY <1>4, <1>6
<1>8. Len(p) = IF n > Len(text) THEN n ELSE Len(text)
  BY <1>3, <1>4, <1>6
<1> QED
  BY <1>1, <1>5, <1>6, <1>7, <1>8 DEF M!Padded

LEMMA StoredIs ==
  ASSUME NEW text \in Seq(M!Byte), NEW off \in Nat, NEW n \in Nat, NEW b \in M!Byte
  PROVE  /\ M!Stored(text, off, n, b) \in Seq(M!Byte)
         /\ Len(M!Stored(text, off, n, b)) = Len(text)
         /\ \A i \in 1..Len(text) :
              M!Stored(text, off, n, b)[i] = IF i > off /\ i <= off + n THEN b ELSE text[i]
<1>1. PICK t : t = M!Stored(text, off, n, b)
  OBVIOUS
<1>2. t = [i \in 1..Len(text) |-> IF i \in (off + 1)..(off + n) THEN b ELSE text[i]]
  BY <1>1 DEF M!Stored
<1>3. \A i \in 1..Len(text) : t[i] = (IF i > off /\ i <= off + n THEN b ELSE text[i]) /\ t[i] \in M!Byte
  BY <1>2
<1>4. t \in Seq(M!Byte) /\ Len(t) = Len(text)
  BY <1>2, <1>3
<1> QED
  BY <1>1, <1>3, <1>4

LEMMA MmapInitIInv == M!Init => M!IInv
<1> SUFFICES ASSUME M!Init PROVE M!IInv
  OBVIOUS
<1>1. PICK n \in 0..2 : v1 = M!Zeros(n)
  BY DEF M!Init
<1>2. v1 \in Seq(M!Byte) /\ v3 = v1
  BY <1>1 DEF M!Init, M!Zeros, M!Byte
<1>3. v2 = [h \in Handle |-> M!Closed]
  BY DEF M!Init
<1>4. M!Closed \in Mappings /\ M!Closed.open = FALSE
  BY DEF M!Closed, Mappings
<1>5. v2 \in [Handle -> Mappings] /\ \A h \in Handle : ~v2[h].open
  BY <1>3, <1>4
<1>6. M!TypeOK
  BY <1>2, <1>5 DEF M!TypeOK, Mappings
<1> QED
  BY <1>2, <1>5, <1>6 DEF M!IInv, M!OneWriter, M!Writes

(* What IInv says of one handle.                                           *)
OneMapping(h) ==
  v2[h].open =>
    /\ IF v2[h].gaveUp THEN v2[h].write /\ v2[h].max > v2[h].len
       ELSE v2[h].mapped = Len(v1) /\ v2[h].max = Len(v1)
    /\ v2[h].write => M!WrittenAndZeros(v2[h].len)

(* A step of the one that writes: nobody else has the file open.           *)
LEMMA WriterSteps ==
  ASSUME M!IInv, NEW h \in Handle, M!Writes(h), NEW c \in Mappings, v2' = [v2 EXCEPT ![h] = c],
         v1' \in Seq(M!Byte), v3' \in Seq(M!Byte),
         c.open => c.write /\ OneMapping(h)',
         ~c.open => v1' = v3'
  PROVE  M!IInv'
<1>1. v2 \in [Handle -> Mappings]
  BY DEF M!IInv, M!TypeOK, Mappings
<1>2. v2' \in [Handle -> Mappings] /\ v2'[h] = c /\ \A g \in Handle \ {h} : v2'[g] = v2[g] /\ ~v2[g].open
  BY <1>1 DEF M!IInv, M!OneWriter, M!Writes
<1>3. M!TypeOK'
  BY <1>2 DEF M!TypeOK, Mappings
<1>4. M!OneWriter'
  BY <1>2 DEF M!OneWriter, M!Writes
<1>5. (\A g \in Handle : ~M!Writes(g))' => v1' = v3'
  BY <1>2 DEF M!Writes
<1>6. \A g \in Handle : OneMapping(g)'
  <2> TAKE g \in Handle
  <2>1. CASE g = h
    BY <1>2, <2>1 DEF OneMapping
  <2>2. CASE g # h
    BY <1>2, <2>2 DEF OneMapping
  <2> QED
    BY <2>1, <2>2
<1> QED
  BY <1>3, <1>4, <1>5, <1>6 DEF M!IInv, OneMapping

(* A write: the file grows, and what is written is in it and in content.   *)
LEMMA WriteKeeps ==
  ASSUME M!TypeOK, NEW len \in Nat, M!WrittenAndZeros(len),
         NEW off \in Nat, NEW n \in Nat \ {0}, NEW b \in M!Byte, NEW max \in Nat,
         off + n <= max, len <= max, NEW after, after = IF off + n > len THEN off + n ELSE len,
         v1' = M!Stored(IF max > Len(v1) THEN M!Padded(v1, max) ELSE v1, off, n, b),
         max >= Len(v1),
         v3' = M!Stored(IF off + n > Len(v3) THEN M!Padded(v3, off + n) ELSE v3, off, n, b)
  PROVE  v1' \in Seq(M!Byte) /\ v3' \in Seq(M!Byte) /\ Len(v1') = max /\ M!WrittenAndZeros(after)'
<1>0. \A text \in Seq(M!Byte) :
        /\ M!Stored(text, off, n, b) \in Seq(M!Byte)
        /\ Len(M!Stored(text, off, n, b)) = Len(text)
        /\ \A i \in 1..Len(text) :
             M!Stored(text, off, n, b)[i] = IF i > off /\ i <= off + n THEN b ELSE text[i]
  BY StoredIs
<1>1. v1 \in Seq(M!Byte) /\ v3 \in Seq(M!Byte) /\ Len(v3) = len /\ Len(v1) \in Nat /\ len <= Len(v1)
      /\ \A i \in 1..Len(v1) : v1[i] = IF i <= len THEN v3[i] ELSE 0
  BY DEF M!TypeOK, M!WrittenAndZeros
<1>2. PICK f, t : /\ f = (IF max > Len(v1) THEN M!Padded(v1, max) ELSE v1)
                  /\ t = (IF off + n > Len(v3) THEN M!Padded(v3, off + n) ELSE v3)
  OBVIOUS
<1>3. f \in Seq(M!Byte) /\ Len(f) = max /\ \A i \in 1..max : f[i] = IF i <= Len(v1) THEN v1[i] ELSE 0
  BY <1>1, <1>2, PaddedIs
<1>4. t \in Seq(M!Byte) /\ Len(t) = after /\ \A i \in 1..after : t[i] = IF i <= len THEN v3[i] ELSE 0
  <2>1. CASE off + n > Len(v3)
    <3>1. t = M!Padded(v3, off + n) /\ off + n \in Nat
      BY <1>2, <2>1
    <3>2. /\ t \in Seq(M!Byte) /\ Len(t) = IF off + n > Len(v3) THEN off + n ELSE Len(v3)
          /\ \A i \in 1..Len(t) : t[i] = IF i <= Len(v3) THEN v3[i] ELSE 0
      BY <1>1, <3>1, PaddedIs
    <3> QED
      BY <1>1, <2>1, <3>2
  <2>2. CASE off + n <= Len(v3)
    BY <1>1, <1>2, <2>2
  <2> QED
    BY <1>1, <2>1, <2>2
<1>5. PICK g, u : g = M!Stored(f, off, n, b) /\ u = M!Stored(t, off, n, b)
  OBVIOUS
<1>6. /\ g \in Seq(M!Byte) /\ Len(g) = max
      /\ \A i \in 1..max : g[i] = IF i > off /\ i <= off + n THEN b ELSE f[i]
  BY <1>0, <1>3, <1>5
<1>7. /\ u \in Seq(M!Byte) /\ Len(u) = after
      /\ \A i \in 1..after : u[i] = IF i > off /\ i <= off + n THEN b ELSE t[i]
  BY <1>0, <1>4, <1>5
<1>8. v1' = g /\ v3' = u
  BY <1>2, <1>5
<1>9. after \in Nat /\ after <= max /\ off + n <= after /\ len <= after
  OBVIOUS
<1>10. \A i \in 1..max : g[i] = IF i <= after THEN u[i] ELSE 0
  <2> SUFFICES ASSUME NEW i \in 1..max PROVE g[i] = IF i <= after THEN u[i] ELSE 0
    OBVIOUS
  <2>1. f[i] = IF i <= len THEN v3[i] ELSE 0
    <3>1. f[i] = IF i <= Len(v1) THEN v1[i] ELSE 0
      BY <1>3
    <3>2. CASE i <= Len(v1)
      <4>1. i \in 1..Len(v1)
        BY <1>1, <3>2
      <4> QED
        BY <1>1, <3>1, <3>2, <4>1
    <3>3. CASE i > Len(v1)
      BY <1>1, <3>1, <3>3
    <3> QED
      BY <1>1, <3>2, <3>3
  <2>2. CASE i <= after
    BY <1>4, <1>6, <1>7, <2>1, <2>2
  <2>3. CASE i > after
    BY <1>6, <1>9, <2>1, <2>3
  <2> QED
    BY <1>9, <2>2, <2>3
<1> QED
  BY <1>6, <1>7, <1>8, <1>9, <1>10 DEF M!WrittenAndZeros

LEMMA MmapNextIInv ==
  ASSUME ~Concurrent, ~GoesOn
  PROVE  M!IInv /\ [M!Next]_(M!vars) => M!IInv'
<1> SUFFICES ASSUME M!IInv, [M!Next]_(M!vars) PROVE M!IInv'
  OBVIOUS
<1>1. v2 \in [Handle -> Mappings] /\ v1 \in Seq(M!Byte) /\ v3 \in Seq(M!Byte) /\ Len(v1) \in Nat
  BY DEF M!IInv, M!TypeOK, Mappings
<1>2. \A h \in Handle : OneMapping(h)
  BY DEF M!IInv, OneMapping
<1>3. ASSUME NEW h \in Handle, NEW write \in BOOLEAN, M!mmap_open(h, write)
      PROVE  M!IInv'
  <2>1. PICK c : c = [open |-> TRUE, write |-> write, mapped |-> Len(v1),
                      max |-> Len(v1), len |-> Len(v1), gaveUp |-> FALSE]
    OBVIOUS
  <2>2. /\ c \in Mappings /\ c.open = TRUE /\ c.write = write /\ c.mapped = Len(v1)
        /\ c.max = Len(v1) /\ c.len = Len(v1) /\ c.gaveUp = FALSE
    BY <1>1, <2>1 DEF Mappings
  <2>3. v2' = [v2 EXCEPT ![h] = c] /\ v1' = v1 /\ v3' = v3 /\ ~v2[h].open
    BY <1>3, <2>1 DEF M!mmap_open
  <2>4. \A g \in Handle \ {h} : v2[g].open => ~v2[g].write /\ ~write
    BY <1>3 DEF M!mmap_open, M!MayOpen
  <2>5. v2' \in [Handle -> Mappings] /\ v2'[h] = c /\ \A g \in Handle \ {h} : v2'[g] = v2[g]
    BY <1>1, <2>2, <2>3
  <2>6. M!TypeOK'
    BY <1>1, <2>3, <2>5 DEF M!TypeOK, Mappings
  <2>7. M!OneWriter'
    BY <2>2, <2>4, <2>5 DEF M!OneWriter, M!Writes
  <2>8. v1 = v3
    BY <2>3, <2>4 DEF M!IInv, M!Writes
  <2>9. M!WrittenAndZeros(Len(v1))
    BY <1>1, <2>8 DEF M!WrittenAndZeros
  <2>10. \A g \in Handle : OneMapping(g)'
    <3> TAKE g \in Handle
    <3>1. CASE g = h
      BY <2>2, <2>3, <2>5, <2>9, <3>1 DEF OneMapping, M!WrittenAndZeros
    <3>2. CASE g # h
      BY <1>2, <2>3, <2>5, <3>2 DEF OneMapping, M!WrittenAndZeros
    <3> QED
      BY <3>1, <3>2
  <2> QED
    BY <2>3, <2>6, <2>7, <2>8, <2>10 DEF M!IInv, OneMapping
<1>4. ASSUME NEW h \in Handle, NEW off \in 0..MaxLen, NEW n \in 1..2, NEW b \in M!Byte,
             M!mmap_write(h, off, n, b)
      PROVE  M!IInv'
  <2>1. PICK s \in Mappings : s = v2[h]
    BY <1>1
  <2>2. off \in Nat /\ n \in Nat \ {0} /\ off + n \in Nat
    BY LibraryAssumption DEF M!MmapAssumption
  <2>3. PICK max, g : max = M!RoundUp(off + n) /\ g = M!Grown(s, off, n)
    OBVIOUS
  <2>4. max \in Nat /\ max >= off + n
    BY <2>2, <2>3, RoundUpHolds
  <2>5. M!Writes(h) /\ s.open = TRUE /\ s.write = TRUE /\ s.gaveUp = FALSE
    BY <1>4, <2>1 DEF M!mmap_write, M!Writes, Mappings
  <2>6. s.mapped = Len(v1) /\ s.max = Len(v1) /\ M!WrittenAndZeros(s.len)
    BY <1>2, <2>1, <2>5 DEF OneMapping
  <2>7. /\ g \in Mappings /\ g.open = TRUE /\ g.write = TRUE /\ g.gaveUp = FALSE
        /\ g.len = s.len /\ g.mapped = g.max /\ g.max >= off + n /\ g.max >= Len(v1)
    <3>1. CASE M!NoRoom(s, off, n)
      <4>1. g = [s EXCEPT !.max = max, !.mapped = max]
        BY <2>3, <3>1 DEF M!Grown
      <4>2. max >= Len(v1)
        BY <1>1, <2>2, <2>4, <2>6, <3>1 DEF M!NoRoom
      <4>3. /\ g \in Mappings /\ g.open = s.open /\ g.write = s.write /\ g.gaveUp = s.gaveUp
            /\ g.len = s.len /\ g.mapped = max /\ g.max = max
        BY <2>4, <4>1 DEF Mappings
      <4> QED
        BY <2>4, <2>5, <4>2, <4>3
    <3>2. CASE ~M!NoRoom(s, off, n)
      <4>1. g = s
        BY <2>3, <3>2 DEF M!Grown
      <4>2. off + n <= Len(v1)
        BY <1>1, <2>2, <2>6, <3>2 DEF M!NoRoom
      <4> QED
        BY <1>1, <2>5, <2>6, <4>1, <4>2
    <3> QED
      BY <3>1, <3>2
  <2>8. PICK after, c : /\ after = (IF off + n > s.len THEN off + n ELSE s.len)
                        /\ c = [g EXCEPT !.len = after]
    OBVIOUS
  <2>9. s.len \in Nat /\ after \in Nat /\ g.max \in Nat
    BY <2>1, <2>2, <2>7, <2>8 DEF Mappings
  <2>10. /\ c \in Mappings /\ c.open = TRUE /\ c.write = TRUE /\ c.gaveUp = FALSE
         /\ c.len = after /\ c.mapped = g.max /\ c.max = g.max
    BY <2>7, <2>8, <2>9 DEF Mappings
  <2>11. v2' = [v2 EXCEPT ![h] = c]
    BY <1>4, <2>1, <2>3, <2>7, <2>8 DEF M!mmap_write
  <2>12. /\ v1' = M!Stored(IF g.max > Len(v1) THEN M!Padded(v1, g.max) ELSE v1, off, n, b)
         /\ v3' = M!Stored(IF off + n > Len(v3) THEN M!Padded(v3, off + n) ELSE v3, off, n, b)
    BY <1>4, <2>1, <2>3 DEF M!mmap_write, M!FileFor
  <2>13. v1' \in Seq(M!Byte) /\ v3' \in Seq(M!Byte) /\ Len(v1') = g.max /\ M!WrittenAndZeros(after)'
    <3>1. M!TypeOK /\ s.len <= g.max
      BY <1>1, <2>6, <2>7, <2>9 DEF M!IInv, M!WrittenAndZeros
    <3> QED
      <4>1. PICK max1, len1 : max1 = g.max /\ len1 = s.len
        OBVIOUS
      <4>2. /\ max1 \in Nat /\ len1 \in Nat /\ off + n <= max1 /\ len1 <= max1 /\ max1 >= Len(v1)
            /\ after = (IF off + n > len1 THEN off + n ELSE len1) /\ M!WrittenAndZeros(len1)
        BY <1>1, <2>2, <2>6, <2>7, <2>8, <2>9, <3>1, <4>1
      <4>3. /\ v1' = M!Stored(IF max1 > Len(v1) THEN M!Padded(v1, max1) ELSE v1, off, n, b)
            /\ v3' = M!Stored(IF off + n > Len(v3) THEN M!Padded(v3, off + n) ELSE v3, off, n, b)
        BY <2>12, <4>1
      <4>4. v1' \in Seq(M!Byte) /\ v3' \in Seq(M!Byte) /\ Len(v1') = max1 /\ M!WrittenAndZeros(after)'
        BY <2>2, <3>1, <4>2, <4>3, WriteKeeps
      <4> QED
        BY <4>1, <4>4
  <2>14. v2'[h] = c
    BY <1>1, <2>11
  <2>15. OneMapping(h)'
    BY <2>10, <2>13, <2>14 DEF OneMapping, M!WrittenAndZeros
  <2> QED
    BY <2>5, <2>10, <2>11, <2>13, <2>15, WriterSteps
<1>5. ASSUME NEW h \in Handle, NEW off \in 0..MaxLen, NEW n \in 1..2, M!WriteFails(h, off, n)
      PROVE  M!IInv'
  <2>1. PICK s \in Mappings : s = v2[h]
    BY <1>1
  <2>2. off \in Nat /\ n \in Nat \ {0} /\ off + n \in Nat
    BY LibraryAssumption DEF M!MmapAssumption
  <2>3. PICK max : max = M!RoundUp(off + n)
    OBVIOUS
  <2>13. PICK c : c = [s EXCEPT !.max = max, !.gaveUp = TRUE]
    OBVIOUS
  <2>4. max \in Nat /\ max >= off + n
    BY <2>2, <2>3, RoundUpHolds
  <2>5. M!Writes(h) /\ s.open = TRUE /\ s.write = TRUE /\ s.gaveUp = FALSE /\ M!NoRoom(s, off, n)
    BY <1>5, <2>1 DEF M!WriteFails, M!Writes, Mappings
  <2>6. s.mapped = Len(v1) /\ s.max = Len(v1) /\ M!WrittenAndZeros(s.len) /\ s.len \in Nat
    BY <1>2, <2>1, <2>5 DEF OneMapping, Mappings
  <2>7. v1' = v1 /\ v3' = v3 /\ v2' = [v2 EXCEPT ![h].max = max, ![h].gaveUp = TRUE]
    BY <1>5, <2>3 DEF M!WriteFails
  <2>8. v2' = [v2 EXCEPT ![h] = c]
    BY <1>1, <2>1, <2>13, <2>7
  <2>9. /\ c \in Mappings /\ c.open = s.open /\ c.write = s.write /\ c.len = s.len
        /\ c.max = max /\ c.gaveUp = TRUE
    BY <2>13, <2>4 DEF Mappings
  <2>10. max > s.len
    <3>1. s.len <= Len(v1)
      BY <2>6 DEF M!WrittenAndZeros
    <3> QED
      BY <1>1, <2>2, <2>4, <2>5, <2>6, <3>1 DEF M!NoRoom
  <2>11. v2'[h] = c
    BY <1>1, <2>8
  <2>12. OneMapping(h)'
    BY <2>5, <2>6, <2>7, <2>9, <2>10, <2>11 DEF OneMapping, M!WrittenAndZeros
  <2> QED
    BY <1>1, <2>5, <2>7, <2>8, <2>9, <2>12, WriterSteps
<1>6. ASSUME NEW h \in Handle, M!mmap_close(h)
      PROVE  M!IInv'
  <2>1. PICK s \in Mappings : s = v2[h]
    BY <1>1
  <2>2. s.open = TRUE /\ v1' = M!Cut(s) /\ v3' = v3 /\ v2' = [v2 EXCEPT ![h] = M!Closed]
    BY <1>6, <2>1 DEF M!mmap_close, Mappings
  <2>3. M!Closed \in Mappings /\ M!Closed.open = FALSE
    BY DEF M!Closed, Mappings
  <2>4. CASE s.write
    <3>1. M!Writes(h) /\ M!WrittenAndZeros(s.len) /\ s.len \in Nat
      BY <1>2, <2>1, <2>2, <2>4 DEF OneMapping, M!Writes, Mappings
    <3>2. v1' = v3
      <4>1. /\ Len(v3) = s.len /\ s.len <= Len(v1)
            /\ \A i \in 1..Len(v1) : v1[i] = IF i <= s.len THEN v3[i] ELSE 0
        BY <3>1 DEF M!WrittenAndZeros
      <4>2. CASE s.len # s.max
        <5>1. PICK p : p = M!Padded(v1, s.len)
          OBVIOUS
        <5>2. /\ p \in Seq(M!Byte) /\ Len(p) = Len(v1)
              /\ \A i \in 1..Len(p) : p[i] = IF i <= Len(v1) THEN v1[i] ELSE 0
          BY <1>1, <3>1, <4>1, <5>1, PaddedIs
        <5>3. v1' = SubSeq(p, 1, s.len)
          BY <2>2, <2>4, <4>2, <5>1 DEF M!Cut, M!Prefix
        <5>4. v1' \in Seq(M!Byte) /\ Len(v1') = s.len /\ \A i \in 1..s.len : v1'[i] = p[i]
          BY <1>1, <3>1, <4>1, <5>2, <5>3
        <5>5. \A i \in 1..s.len : v1'[i] = v3[i]
          BY <1>1, <3>1, <4>1, <5>2, <5>4
        <5> QED
          BY <1>1, <4>1, <5>4, <5>5, SeqEqual
      <4>3. CASE s.len = s.max
        <5>1. v1' = v1
          BY <2>2, <4>3 DEF M!Cut
        <5>2. Len(v1) = s.len
          BY <1>2, <2>1, <2>2, <3>1, <4>3 DEF OneMapping
        <5>3. \A i \in 1..Len(v1) : v1[i] = v3[i]
          BY <1>1, <4>1, <5>2
        <5> QED
          BY <1>1, <4>1, <5>1, <5>2, <5>3, SeqEqual
      <4> QED
        BY <4>2, <4>3
    <3> QED
      BY <1>1, <2>2, <2>3, <3>1, <3>2, WriterSteps
  <2>5. CASE ~s.write
    <3>1. v1' = v1
      BY <2>2, <2>5 DEF M!Cut
    <3>2. v2' \in [Handle -> Mappings] /\ v2'[h] = M!Closed /\ \A g \in Handle \ {h} : v2'[g] = v2[g]
      BY <1>1, <2>2, <2>3
    <3>3. v1 = v3
      BY <2>1, <2>2, <2>5 DEF M!IInv, M!OneWriter, M!Writes
    <3>4. M!TypeOK'
      BY <1>1, <2>2, <3>1, <3>2 DEF M!TypeOK, Mappings
    <3>5. M!OneWriter'
      BY <2>3, <3>2 DEF M!IInv, M!OneWriter, M!Writes
    <3>6. \A g \in Handle : OneMapping(g)'
      <4> TAKE g \in Handle
      <4>1. CASE g = h
        BY <2>3, <3>2, <4>1 DEF OneMapping
      <4>2. CASE g # h
        BY <1>2, <2>2, <3>1, <3>2, <4>2 DEF OneMapping, M!WrittenAndZeros
      <4> QED
        BY <4>1, <4>2
    <3> QED
      BY <2>2, <3>1, <3>3, <3>4, <3>5, <3>6 DEF M!IInv, OneMapping
  <2> QED
    BY <2>4, <2>5
<1>7. CASE UNCHANGED M!vars
  BY <1>7 DEF M!vars, M!IInv, M!TypeOK, M!OneWriter, M!Writes, M!WrittenAndZeros
<1> QED
  BY <1>3, <1>4, <1>5, <1>6, <1>7 DEF M!Next

LEMMA MmapIInvImplies == M!IInv => M!FileHolds
<1> SUFFICES ASSUME M!IInv PROVE M!FileHolds
  OBVIOUS
<1>1. v2 \in [Handle -> Mappings] /\ Len(v1) \in Nat
  BY DEF M!IInv, M!TypeOK, Mappings
<1>2. (\A h \in Handle : ~v2[h].open) => v1 = v3
  BY DEF M!IInv, M!Writes
<1>3. \A h \in Handle : v2[h].open /\ ~v2[h].gaveUp => v2[h].max = v2[h].mapped /\ v2[h].max = Len(v1)
  BY DEF M!IInv
<1> QED
  BY <1>1, <1>2, <1>3 DEF M!FileHolds

-----------------------------------------------------------------------------
(* ns.c.  A command as it runs.                                            *)
Places == N!Adds \cup N!Deletes \cup {"idle", "died", "setns"}

Commands ==
  [do : {"none", "add", "delete", "exec"}, used : SUBSET (N!All \cup {"mnt"}), pc : Places,
   i : 1..(Len(Ns) + 1)]

(* What is known of command c that runs alone.                             *)
CommandAlone(c) ==
  /\ c.pc = "bind" => v2 = 0
  /\ c.pc \in N!Deletes => v1
  /\ c.used = {} =>
       /\ c.pc = "unlink" => \A j \in 1..(c.i - 1) : v3[Ns[j]] = "none"
       /\ c.pc \in {"umount", "rmdir"} => \A n \in N!All : v3[n] = "none"
       /\ c.pc = "rmdir" => v2 = 0

(* Of a command, whoever runs.                                             *)
CommandFits(c) ==
  /\ c.pc \in N!Adds => c.do = "add"
  /\ c.pc \in N!Deletes => c.do = "delete"
  /\ c.pc \in N!Adds \cup {"unlink", "setns"} => c.i <= Len(Ns)

Ended == {"idle", "died"}

(* The names.                                                              *)
LEMMA NamesAre ==
  /\ Len(Ns) \in Nat /\ Len(Ns) >= 1
  /\ \A i \in 1..Len(Ns) : Ns[i] \in N!All
  /\ \A n \in N!All : \E i \in 1..Len(Ns) : n = Ns[i]
  /\ \A i \in 1..Len(Ns) : Ns[i] \in STRING
<1>1. Ns \in Seq(STRING) /\ Ns # <<>>
  BY LibraryAssumption DEF N!NsAssumption
<1> QED
  BY <1>1 DEF N!All

LEMMA CommandsAre ==
  ASSUME N!IInv, NEW p \in Proc
  PROVE  /\ v4 \in [Proc -> Commands] /\ v4[p] \in Commands
         /\ v1 \in BOOLEAN /\ v5 \in BOOLEAN /\ v2 \in Nat
         /\ v3 \in [N!All -> {"none", "file", "bound"}]
         /\ ~v1 => v2 = 0
         /\ CommandFits(v4[p])
         /\ ~v5 /\ v4[p].pc \notin Ended =>
              /\ v2 <= 1 /\ CommandAlone(v4[p])
              /\ \A q \in Proc \ {p} : v4[q].pc \in Ended
<1>1. v4 \in [Proc -> Commands]
  BY DEF N!IInv, N!TypeOK, Commands, Places
<1>2. /\ v1 \in BOOLEAN /\ v5 \in BOOLEAN /\ v2 \in Nat
      /\ v3 \in [N!All -> {"none", "file", "bound"}]
  BY DEF N!IInv, N!TypeOK
<1>3. CommandFits(v4[p])
  BY DEF N!IInv, CommandFits
<1>4. ASSUME ~v5, v4[p].pc \notin Ended
      PROVE  /\ v2 <= 1 /\ CommandAlone(v4[p])
             /\ \A q \in Proc \ {p} : v4[q].pc \in Ended
  <2>1. p \in N!Running /\ \A q \in Proc : v4[q].pc \notin Ended => q \in N!Running
    BY <1>4 DEF N!Running, Ended
  <2>2. v2 <= 1 /\ N!Alone(p)
    BY <1>4, <2>1 DEF N!IInv
  <2>3. \A q \in Proc \ {p} : v4[q].pc \in Ended
    BY <2>1, <2>2 DEF N!Alone
  <2> QED
    BY <2>2, <2>3 DEF N!Alone, N!At, CommandAlone
<1>5. ~v1 => v2 = 0
  BY DEF N!IInv
<1> QED
  BY <1>1, <1>2, <1>3, <1>4, <1>5

(* A step of one command.                                                  *)
LEMMA CommandSteps ==
  ASSUME N!IInv, NEW p \in Proc, NEW c \in Commands, v4' = [v4 EXCEPT ![p] = c],
         v1' \in BOOLEAN, v5' \in BOOLEAN, v2' \in Nat,
         v3' \in [N!All -> {"none", "file", "bound"}],
         CommandFits(c),
         ~v1' => v2' = 0,
         c.pc = "died" /\ c.do = "delete" /\ c.used = {} => v5',
         v5 => v5' \/ \A q \in Proc \ {p} : v4[q].pc = "idle",
         ~v5' => /\ v2' <= 1
                 /\ \A q \in Proc \ {p} : v4[q].pc \in Ended
                 /\ c.pc \notin Ended => CommandAlone(c)'
  PROVE  N!IInv'
<1>1. v4 \in [Proc -> Commands]
  BY DEF N!IInv, N!TypeOK, Commands, Places
<1>2. v4' \in [Proc -> Commands] /\ v4'[p] = c /\ \A q \in Proc \ {p} : v4'[q] = v4[q]
  BY <1>1
<1>3. N!TypeOK'
  BY <1>2 DEF N!TypeOK, Commands, Places
<1>4. N!Deletable'
  <2> SUFFICES ASSUME NEW q \in Proc, v4'[q].pc = "died", v4'[q].do = "delete", v4'[q].used = {}
               PROVE  v5'
    BY DEF N!Deletable, N!At
  <2>1. CASE q = p
    BY <1>2, <2>1
  <2>2. CASE q # p
    <3>1. v4[q].pc = "died" /\ v4[q].do = "delete" /\ v4[q].used = {}
      BY <1>2, <2>2
    <3>2. v5
      BY <3>1 DEF N!IInv, N!Deletable, N!At
    <3> QED
      BY <2>2, <3>1, <3>2
  <2> QED
    BY <2>1, <2>2
<1>5. \A q \in Proc : CommandFits(v4[q])'
  <2> TAKE q \in Proc
  <2>1. CASE q = p
    BY <1>2, <2>1 DEF CommandFits
  <2>2. CASE q # p
    <3>1. CommandFits(v4[q])
      BY CommandsAre
    <3> QED
      BY <1>2, <2>2, <3>1 DEF CommandFits
  <2> QED
    BY <2>1, <2>2
<1>6. ASSUME ~v5'
      PROVE  (v2 <= 1 /\ \A q \in N!Running : N!Alone(q))'
  <2> SUFFICES ASSUME NEW q \in Proc, v4'[q].pc \notin Ended
               PROVE  N!Alone(q)'
    BY <1>6 DEF N!Running, Ended
  <2>1. q = p
    BY <1>2, <1>6
  <2>2. CommandAlone(c)'
    BY <1>2, <1>6, <2>1
  <2>3. \A r \in Proc : v4'[r].pc \notin Ended => r = p
    BY <1>2, <1>6
  <2>4. (\A r \in N!Running : r = p)'
    BY <2>3 DEF N!Running, Ended
  <2> QED
    BY <1>2, <2>1, <2>2, <2>4 DEF CommandAlone, N!Alone, N!At
<1> QED
  BY <1>3, <1>4, <1>5, <1>6 DEF N!IInv, CommandFits

(* A command goes to another place, or to the next name.                   *)
LEMMA GotoIs ==
  ASSUME v4 \in [Proc -> Commands], NEW p \in Proc, NEW pc \in Places, N!Goto(p, pc)
  PROVE  \E c \in Commands : /\ v4' = [v4 EXCEPT ![p] = c]
                             /\ c.do = v4[p].do /\ c.used = v4[p].used /\ c.i = v4[p].i
                             /\ c.pc = pc
<1>1. PICK s \in Commands : s = v4[p]
  OBVIOUS
<1>2. PICK c : c = [s EXCEPT !.pc = pc]
  OBVIOUS
<1>3. c \in Commands /\ c.do = s.do /\ c.used = s.used /\ c.i = s.i /\ c.pc = pc
  BY <1>2 DEF Commands
<1>4. v4' = [v4 EXCEPT ![p].pc = pc]
  BY DEF N!Goto
<1>5. v4' = [v4 EXCEPT ![p] = c]
  BY <1>1, <1>2, <1>4
<1> QED
  BY <1>1, <1>3, <1>5

Moves(p, after, stay) ==
  v4' = [v4 EXCEPT ![p].i = @ + 1, ![p].pc = IF v4[p].i = Len(Ns) THEN after ELSE stay]

LEMMA StepIs ==
  ASSUME v4 \in [Proc -> Commands], NEW p \in Proc, NEW after \in Places, NEW stay \in Places,
         v4[p].i <= Len(Ns), Moves(p, after, stay)
  PROVE  \E c \in Commands :
           /\ v4' = [v4 EXCEPT ![p] = c]
           /\ c.do = v4[p].do /\ c.used = v4[p].used /\ c.i = v4[p].i + 1
           /\ c.pc = IF v4[p].i = Len(Ns) THEN after ELSE stay
<1>1. PICK s \in Commands : s = v4[p]
  OBVIOUS
<1>2. s.i \in Nat /\ s.i + 1 \in 1..(Len(Ns) + 1)
  BY <1>1, NamesAre DEF Commands
<1>3. PICK k : k = s.i + 1
  OBVIOUS
<1>4. PICK pc \in Places : pc = IF s.i = Len(Ns) THEN after ELSE stay
  OBVIOUS
<1>5. PICK c : c = [s EXCEPT !.i = k, !.pc = pc]
  OBVIOUS
<1>6. c \in Commands /\ c.do = s.do /\ c.used = s.used /\ c.i = k /\ c.pc = pc
  BY <1>2, <1>3, <1>5 DEF Commands
<1>7. v4' = [v4 EXCEPT ![p].i = k, ![p].pc = pc]
  BY <1>1, <1>2, <1>3, <1>4 DEF Moves
<1>8. v4' = [v4 EXCEPT ![p] = c]
  BY <1>1, <1>5, <1>7
<1> QED
  BY <1>1, <1>3, <1>4, <1>6, <1>8

LEMMA LoopIs ==
  ASSUME N!IInv, NEW p \in Proc, NEW after \in Places, v4[p].i <= Len(Ns), N!Step(p, after)
  PROVE  \E c \in Commands :
           /\ v4' = [v4 EXCEPT ![p] = c]
           /\ c.do = v4[p].do /\ c.used = v4[p].used /\ c.i = v4[p].i + 1
           /\ c.pc = IF v4[p].i = Len(Ns) THEN after ELSE v4[p].pc
<1>1. v4 \in [Proc -> Commands] /\ v4[p] \in Commands
  BY CommandsAre
<1>2. v4[p].pc \in Places
  BY <1>1 DEF Commands
<1>3. PICK stay \in Places : stay = v4[p].pc
  BY <1>2
<1>4. Moves(p, after, stay)
  BY <1>1, <1>3 DEF N!Step, Moves
<1>5. \E c \in Commands :
        /\ v4' = [v4 EXCEPT ![p] = c]
        /\ c.do = v4[p].do /\ c.used = v4[p].used /\ c.i = v4[p].i + 1
        /\ c.pc = IF v4[p].i = Len(Ns) THEN after ELSE stay
  BY <1>1, <1>4, StepIs
<1> QED
  BY <1>3, <1>5

LEMMA NsInitIInv == N!Init => N!IInv
<1> SUFFICES ASSUME N!Init PROVE N!IInv
  OBVIOUS
<1>1. /\ v1 = FALSE /\ v2 = 0 /\ v3 = [n \in N!All |-> "none"] /\ v4 = [p \in Proc |-> N!Idle]
      /\ v5 = FALSE
  BY DEF N!Init
<1>2. N!Idle \in Commands /\ N!Idle.pc = "idle"
  BY NamesAre DEF N!Idle, Commands, Places
<1>3. v4 \in [Proc -> Commands] /\ \A p \in Proc : v4[p].pc = "idle"
  BY <1>1, <1>2
<1>4. N!TypeOK
  BY <1>1, <1>3 DEF N!TypeOK, Commands, Places
<1>5. N!Running = {}
  BY <1>3 DEF N!Running
<1> QED
  BY <1>1, <1>3, <1>4, <1>5 DEF N!IInv, N!Deletable, N!At, N!Adds, N!Deletes

(* A command begins.                                                       *)
LEMMA StartKeeps ==
  ASSUME N!IInv, NEW p \in Proc, NEW do \in {"add", "delete", "exec"},
         NEW used \in SUBSET (N!All \cup {"mnt"}), N!Start(p, do, used)
  PROVE  N!IInv'
<1>1. PICK pc : pc = CASE do = "add" -> "mkpath"
                       [] do = "delete" /\ v1 -> "unlink"
                       [] do = "exec" /\ v1 -> "setns"
                       [] OTHER -> "idle"
  OBVIOUS
<1>2. /\ pc \in {"mkpath", "unlink", "setns", "idle"}
      /\ pc = "mkpath" => do = "add"
      /\ pc = "unlink" => do = "delete" /\ v1
  BY <1>1
<1>3. PICK c : c = [do |-> do, used |-> used, i |-> 1, pc |-> pc]
  OBVIOUS
<1>4. c \in Commands /\ c.do = do /\ c.used = used /\ c.i = 1 /\ c.pc = pc
  BY <1>2, <1>3, NamesAre DEF Commands, Places, N!Adds, N!Deletes
<1>5. v4' = [v4 EXCEPT ![p] = c] /\ v1' = v1 /\ v2' = v2 /\ v3' = v3 /\ v4[p].pc \in Ended
  BY <1>1, <1>3 DEF N!Start, Ended
<1>6. v5' = (v5 \/ N!Running # {})
  BY DEF N!Start
<1>7. /\ v1 \in BOOLEAN /\ v5 \in BOOLEAN /\ v2 \in Nat
      /\ v3 \in [N!All -> {"none", "file", "bound"}]
      /\ ~v1 => v2 = 0
  BY CommandsAre
<1>8. v5' \in BOOLEAN /\ (v5 => v5')
  BY <1>6, <1>7
<1>9. ~v5' => v2 <= 1 /\ \A q \in Proc \ {p} : v4[q].pc \in Ended
  <2> SUFFICES ASSUME ~v5' PROVE v2 <= 1 /\ \A q \in Proc \ {p} : v4[q].pc \in Ended
    OBVIOUS
  <2>1. ~v5 /\ N!Running = {}
    BY <1>6
  <2> QED
    BY <2>1 DEF N!IInv, N!Running, Ended
<1>10. CommandFits(c)
  BY <1>2, <1>4, NamesAre DEF CommandFits, N!Adds, N!Deletes
<1>11. CommandAlone(c)'
  BY <1>2, <1>4, <1>5 DEF CommandAlone, N!Deletes
<1>12. c.pc # "died"
  BY <1>2, <1>4
<1> QED
  BY <1>4, <1>5, <1>7, <1>8, <1>9, <1>10, <1>11, <1>12, CommandSteps

(* A step that leaves all but the command as it was.                       *)
LEMMA OnlyCommand ==
  ASSUME N!IInv, NEW p \in Proc, NEW c \in Commands, v4' = [v4 EXCEPT ![p] = c],
         UNCHANGED <<v1, v2, v3, v5>>, CommandFits(c),
         v4[p].pc \notin Ended,
         c.pc # "died" \/ c.do # "delete",
         ~v5 /\ v2 <= 1 /\ CommandAlone(v4[p]) => CommandAlone(c)
  PROVE  N!IInv'
<1>1. /\ v1 \in BOOLEAN /\ v5 \in BOOLEAN /\ v2 \in Nat
      /\ v3 \in [N!All -> {"none", "file", "bound"}]
      /\ ~v1 => v2 = 0
      /\ ~v5 => /\ v2 <= 1 /\ CommandAlone(v4[p])
                /\ \A q \in Proc \ {p} : v4[q].pc \in Ended
  BY CommandsAre
<1>2. v1' = v1 /\ v2' = v2 /\ v3' = v3 /\ v5' = v5
  OBVIOUS
<1>3. ~v5 => CommandAlone(c)'
  BY <1>1, <1>2 DEF CommandAlone
<1>4. /\ v1' \in BOOLEAN /\ v5' \in BOOLEAN /\ v2' \in Nat
      /\ v3' \in [N!All -> {"none", "file", "bound"}]
      /\ ~v1' => v2' = 0
      /\ ~v5' => /\ v2' <= 1 /\ \A q \in Proc \ {p} : v4[q].pc \in Ended
                 /\ c.pc \notin Ended => CommandAlone(c)'
  BY <1>1, <1>2, <1>3
<1>5. v5 => v5'
  BY <1>2
<1> QED
  BY <1>4, <1>5, CommandSteps

(* It is killed, or goes on with the next name.                            *)
LEMMA KilledKeeps ==
  ASSUME N!IInv, NEW p \in Proc, N!Killed(p)
  PROVE  N!IInv'
<1>1. UNCHANGED <<v1, v2, v3, v5>> /\ N!Goto(p, "idle") /\ v4[p].pc \notin Ended
  BY DEF N!Killed, N!Running, Ended
<1>2. v4 \in [Proc -> Commands] /\ "idle" \in Places
  BY CommandsAre DEF Places
<1>3. PICK c \in Commands : v4' = [v4 EXCEPT ![p] = c] /\ c.pc = "idle"
  BY <1>1, <1>2, GotoIs
<1>4. CommandFits(c) /\ CommandAlone(c)
  BY <1>3 DEF CommandFits, CommandAlone, N!Adds, N!Deletes
<1> QED
  BY <1>1, <1>3, <1>4, OnlyCommand

LEMMA SkipKeeps ==
  ASSUME N!IInv, NEW p \in Proc, NEW pc, NEW after,
         <<pc, after>> \in {<<"open", "idle">>, <<"setns", "idle">>, <<"unlink", "umount">>},
         N!Skip(p, pc, after)
  PROVE  N!IInv'
<1>1. PICK s \in Commands : s = v4[p]
  BY CommandsAre
<1>2. /\ s.pc = pc /\ ~N!get_ns_used(s, s.i) /\ N!Step(p, after)
      /\ UNCHANGED <<v1, v2, v3, v5>>
  BY <1>1 DEF N!Skip, N!At
<1>3. CommandFits(s)
  BY <1>1, CommandsAre
<1>4. /\ pc \in {"open", "setns", "unlink"} /\ after \in {"idle", "umount"}
      /\ pc = "unlink" <=> after = "umount"
  OBVIOUS
<1>5. after \in Places /\ s.i <= Len(Ns) /\ s.i \in Nat /\ Len(Ns) \in Nat
  BY <1>2, <1>3, <1>4, NamesAre DEF Places, CommandFits, N!Adds, N!Deletes, Commands
<1>6. PICK c \in Commands :
        /\ v4' = [v4 EXCEPT ![p] = c]
        /\ c.do = s.do /\ c.used = s.used /\ c.i = s.i + 1
        /\ c.pc = IF s.i = Len(Ns) THEN after ELSE s.pc
  BY <1>1, <1>2, <1>5, LoopIs
<1>7. c.used # {}
  BY <1>2, <1>6 DEF N!get_ns_used
<1>8. c.pc = after \/ (c.pc = pc /\ c.i <= Len(Ns))
  <2>1. CASE s.i = Len(Ns)
    BY <1>6, <2>1
  <2>2. CASE s.i # Len(Ns)
    <3>1. s.i + 1 <= Len(Ns)
      BY <1>5, <2>2
    <3> QED
      BY <1>2, <1>6, <2>2, <3>1
  <2> QED
    BY <2>1, <2>2
<1>9. CommandFits(c)
  BY <1>2, <1>3, <1>4, <1>6, <1>8 DEF CommandFits, N!Adds, N!Deletes
<1>10. CommandAlone(s) => CommandAlone(c)
  BY <1>2, <1>4, <1>7, <1>8 DEF CommandAlone, N!Deletes
<1> QED
  BY <1>1, <1>2, <1>4, <1>6, <1>8, <1>9, <1>10, OnlyCommand DEF Ended

(* The directory is made.                                                  *)
LEMMA MkpathKeeps ==
  ASSUME N!IInv, NEW p \in Proc, N!mkpath(p)
  PROVE  N!IInv'
<1>1. PICK s \in Commands : s = v4[p]
  BY CommandsAre
<1>2. /\ s.pc = "mkpath" /\ v1' = TRUE /\ N!Goto(p, "share") /\ v2' = v2 /\ v3' = v3
      /\ v5' = (IF v1 THEN v5 ELSE \E q \in Proc \ {p} : v4[q].pc # "idle")
  BY <1>1 DEF N!mkpath, N!At
<1>3. v4 \in [Proc -> Commands] /\ "share" \in Places
  BY CommandsAre DEF Places, N!Adds
<1>4. PICK c \in Commands : /\ v4' = [v4 EXCEPT ![p] = c]
                            /\ c.do = s.do /\ c.used = s.used /\ c.i = s.i /\ c.pc = "share"
  BY <1>1, <1>2, <1>3, GotoIs
<1>5. /\ v1 \in BOOLEAN /\ v5 \in BOOLEAN /\ v2 \in Nat
      /\ v3 \in [N!All -> {"none", "file", "bound"}]
      /\ ~v1 => v2 = 0
      /\ ~v5 => v2 <= 1 /\ \A q \in Proc \ {p} : v4[q].pc \in Ended
  BY <1>1, <1>2, CommandsAre DEF Ended
<1>6. CommandFits(c)
  <2>1. CommandFits(s)
    BY <1>1, CommandsAre
  <2> QED
    BY <1>2, <1>4, <2>1 DEF CommandFits, N!Adds, N!Deletes
<1>7. CommandAlone(c)'
  BY <1>4 DEF CommandAlone, N!Deletes
<1>8. CASE v1
  <2>1. v5' = v5
    BY <1>2, <1>8
  <2>2. v1' \in BOOLEAN /\ (~v1' => v2' = 0) /\ v5' \in BOOLEAN /\ (v5 => v5') /\ c.pc # "died"
    <3>1. v1' = TRUE /\ v2' = v2
      BY <1>2
    <3> QED
      BY <1>4, <1>5, <2>1, <3>1
  <2>3. v2' \in Nat /\ v3' \in [N!All -> {"none", "file", "bound"}]
    BY <1>2, <1>5
  <2>4. ~v5' => v2' <= 1 /\ \A q \in Proc \ {p} : v4[q].pc \in Ended
    <3>1. v2' = v2
      BY <1>2
    <3> QED
      BY <1>5, <2>1, <3>1
  <2> QED
    BY <1>4, <1>6, <1>7, <2>2, <2>3, <2>4, CommandSteps
<1>9. CASE ~v1
  <2>1. /\ v5' \in BOOLEAN /\ v2' <= 1
        /\ ~v5' => \A q \in Proc \ {p} : v4[q].pc = "idle"
    BY <1>2, <1>5, <1>9
  <2>2. v5 => v5' \/ \A q \in Proc \ {p} : v4[q].pc = "idle"
    BY <2>1
  <2>3. ~v5' => \A q \in Proc \ {p} : v4[q].pc \in Ended
    BY <2>1 DEF Ended
  <2>4. c.pc # "died" /\ v1' \in BOOLEAN /\ (~v1' => v2' = 0) /\ v2' \in Nat
        /\ v3' \in [N!All -> {"none", "file", "bound"}]
    BY <1>2, <1>4, <1>5
  <2> QED
    BY <1>4, <1>6, <1>7, <2>1, <2>2, <2>3, <2>4, CommandSteps
<1> QED
  BY <1>8, <1>9

(* It is shared, or mounted over itself.                                   *)
LEMMA ShareKeeps ==
  ASSUME N!IInv, NEW p \in Proc, NEW pc, NEW otherwise,
         <<pc, otherwise>> \in {<<"share", "bind">>, <<"reshare", "died">>},
         N!Share(p, pc, otherwise)
  PROVE  N!IInv'
<1>1. PICK s \in Commands : s = v4[p]
  BY CommandsAre
<1>2. /\ s.pc = pc /\ UNCHANGED <<v1, v2, v3, v5>>
      /\ IF v2 > 0 /\ v1 THEN N!Goto(p, "open")
         ELSE IF v1 THEN N!Goto(p, otherwise) ELSE N!Goto(p, "died")
  BY <1>1 DEF N!Share, N!At, N!die
<1>3. v4 \in [Proc -> Commands] /\ {"open", "bind", "died"} \subseteq Places /\ v2 \in Nat
  BY CommandsAre DEF Places, N!Adds
<1>4. pc \in {"share", "reshare"} /\ otherwise \in {"bind", "died"}
  OBVIOUS
<1>5. PICK to \in {"open", "bind", "died"} : N!Goto(p, to) /\ (to = "bind" => v2 = 0)
  BY <1>2, <1>3, <1>4
<1>6. PICK c \in Commands : /\ v4' = [v4 EXCEPT ![p] = c]
                            /\ c.do = s.do /\ c.used = s.used /\ c.i = s.i /\ c.pc = to
  BY <1>1, <1>3, <1>5, GotoIs
<1>7. CommandFits(s)
  BY <1>1, CommandsAre
<1>8. CommandFits(c) /\ c.do = "add"
  BY <1>2, <1>4, <1>6, <1>7 DEF CommandFits, N!Adds, N!Deletes
<1>9. CommandAlone(c)
  BY <1>5, <1>6 DEF CommandAlone, N!Deletes
<1> QED
  BY <1>1, <1>2, <1>4, <1>6, <1>8, <1>9, OnlyCommand DEF Ended

LEMMA MountKeeps ==
  ASSUME N!IInv, NEW p \in Proc, N!MountOverItself(p)
  PROVE  N!IInv'
<1>1. PICK s \in Commands : s = v4[p]
  BY CommandsAre
<1>2. /\ s.pc = "bind" /\ UNCHANGED <<v1, v3, v5>>
      /\ IF v1 THEN v2' = v2 + 1 /\ N!Goto(p, "reshare") ELSE N!Goto(p, "died") /\ v2' = v2
  BY <1>1 DEF N!MountOverItself, N!At, N!die
<1>3. v4 \in [Proc -> Commands] /\ {"reshare", "died"} \subseteq Places
  BY CommandsAre DEF Places, N!Adds
<1>4. PICK to \in {"reshare", "died"} :
        N!Goto(p, to) /\ v2' = IF v1 THEN v2 + 1 ELSE v2
  BY <1>2
<1>5. PICK c \in Commands : /\ v4' = [v4 EXCEPT ![p] = c]
                            /\ c.do = s.do /\ c.used = s.used /\ c.i = s.i /\ c.pc = to
  BY <1>1, <1>3, <1>4, GotoIs
<1>6. CommandFits(s)
  BY <1>1, CommandsAre
<1>7. CommandFits(c) /\ c.do = "add"
  BY <1>2, <1>5, <1>6 DEF CommandFits, N!Adds, N!Deletes
<1>8. CommandAlone(c)'
  BY <1>5 DEF CommandAlone, N!Deletes
<1>9. /\ v1 \in BOOLEAN /\ v5 \in BOOLEAN /\ v2 \in Nat
      /\ v3 \in [N!All -> {"none", "file", "bound"}]
      /\ ~v1 => v2 = 0
      /\ ~v5 => v2 = 0 /\ \A q \in Proc \ {p} : v4[q].pc \in Ended
  <2>1. CommandAlone(s) => v2 = 0
    BY <1>2 DEF CommandAlone
  <2> QED
    BY <1>1, <1>2, <2>1, CommandsAre DEF Ended
<1>10. /\ v1' \in BOOLEAN /\ v5' \in BOOLEAN /\ v2' \in Nat
       /\ v3' \in [N!All -> {"none", "file", "bound"}]
       /\ ~v1' => v2' = 0
       /\ ~v5' => v2' <= 1 /\ \A q \in Proc \ {p} : v4[q].pc \in Ended
       /\ v5 => v5'
  BY <1>2, <1>4, <1>9
<1>11. CommandFits(c) /\ ~(c.pc = "died" /\ c.do = "delete")
  BY <1>7
<1> QED
  BY <1>5, <1>8, <1>10, <1>11, CommandSteps

(* A file is made, and bound.                                              *)
LEMMA FilesChange ==
  ASSUME N!IInv, NEW p \in Proc, NEW c \in Commands, v4' = [v4 EXCEPT ![p] = c],
         UNCHANGED <<v1, v2, v5>>, CommandFits(c), v4[p].pc \notin Ended,
         v3' \in [N!All -> {"none", "file", "bound"}],
         c.pc # "died" \/ c.do # "delete",
         ~v5 /\ v2 <= 1 /\ CommandAlone(v4[p]) /\ c.pc \notin Ended => CommandAlone(c)'
  PROVE  N!IInv'
<1>1. /\ v1 \in BOOLEAN /\ v5 \in BOOLEAN /\ v2 \in Nat
      /\ ~v1 => v2 = 0
      /\ ~v5 => /\ v2 <= 1 /\ CommandAlone(v4[p])
                /\ \A q \in Proc \ {p} : v4[q].pc \in Ended
  BY CommandsAre
<1>2. v1' = v1 /\ v2' = v2 /\ v5' = v5
  OBVIOUS
<1>3. /\ v1' \in BOOLEAN /\ v5' \in BOOLEAN /\ v2' \in Nat
      /\ ~v1' => v2' = 0
      /\ ~v5' => /\ v2' <= 1 /\ \A q \in Proc \ {p} : v4[q].pc \in Ended
                 /\ c.pc \notin Ended => CommandAlone(c)'
      /\ v5 => v5'
  BY <1>1, <1>2
<1> QED
  BY <1>3, CommandSteps

LEMMA CreateKeeps ==
  ASSUME N!IInv, NEW p \in Proc, N!Create(p)
  PROVE  N!IInv'
<1>1. PICK s \in Commands : s = v4[p]
  BY CommandsAre
<1>2. PICK n : n = Ns[s.i]
  OBVIOUS
<1>3. /\ s.pc = "open" /\ UNCHANGED <<v1, v2, v5>>
      /\ IF v1 /\ v3[n] = "none" THEN v3' = [v3 EXCEPT ![n] = "file"] /\ N!Goto(p, "mount")
         ELSE N!Goto(p, "died") /\ v3' = v3
  BY <1>1, <1>2 DEF N!Create, N!Here, N!At, N!die
<1>4. v4 \in [Proc -> Commands] /\ {"mount", "died"} \subseteq Places
  BY CommandsAre DEF Places, N!Adds
<1>5. PICK to \in {"mount", "died"} : N!Goto(p, to)
  BY <1>3
<1>6. PICK c \in Commands : /\ v4' = [v4 EXCEPT ![p] = c]
                            /\ c.do = s.do /\ c.used = s.used /\ c.i = s.i /\ c.pc = to
  BY <1>1, <1>4, <1>5, GotoIs
<1>7. CommandFits(s) /\ v3 \in [N!All -> {"none", "file", "bound"}]
  BY <1>1, CommandsAre
<1>8. CommandFits(c) /\ c.do = "add"
  BY <1>3, <1>6, <1>7 DEF CommandFits, N!Adds, N!Deletes
<1>9. CommandAlone(c)'
  BY <1>6 DEF CommandAlone, N!Deletes
<1>10. v3' \in [N!All -> {"none", "file", "bound"}]
  BY <1>3, <1>7
<1> QED
  BY <1>1, <1>3, <1>6, <1>8, <1>9, <1>10, FilesChange DEF Ended

LEMMA BindFileKeeps ==
  ASSUME N!IInv, NEW p \in Proc, N!BindFile(p)
  PROVE  N!IInv'
<1>1. PICK s \in Commands : s = v4[p]
  BY CommandsAre
<1>2. PICK n : n = Ns[s.i]
  OBVIOUS
<1>3. /\ s.pc = "mount" /\ UNCHANGED <<v1, v2, v5>>
      /\ \/ v3' = [v3 EXCEPT ![n] = IF n = "mnt" THEN "none" ELSE "bound"] /\ Moves(p, "idle", "open")
         \/ v3' = v3 /\ N!Goto(p, "died")
  BY <1>1, <1>2 DEF N!BindFile, N!At, N!die, Moves
<1>4. v4 \in [Proc -> Commands] /\ {"open", "idle", "died"} \subseteq Places
  BY CommandsAre DEF Places, N!Adds
<1>5. CommandFits(s) /\ v3 \in [N!All -> {"none", "file", "bound"}]
  BY <1>1, CommandsAre
<1>6. s.do = "add" /\ s.i <= Len(Ns) /\ s.i \in Nat /\ Len(Ns) \in Nat
  BY <1>3, <1>5, NamesAre DEF CommandFits, N!Adds, Commands
<1>7. \E c \in Commands : /\ v4' = [v4 EXCEPT ![p] = c]
                          /\ c.do = s.do /\ c.pc \in {"open", "idle", "died"}
                          /\ c.pc = "open" => c.i <= Len(Ns)
  <2>1. CASE N!Goto(p, "died")
    <3>1. PICK c \in Commands : /\ v4' = [v4 EXCEPT ![p] = c] /\ c.do = s.do /\ c.pc = "died"
      BY <1>1, <1>4, <2>1, GotoIs
    <3> QED
      BY <3>1
  <2>2. CASE Moves(p, "idle", "open")
    <3>1. PICK c \in Commands : /\ v4' = [v4 EXCEPT ![p] = c] /\ c.do = s.do /\ c.i = s.i + 1
                                /\ c.pc = IF s.i = Len(Ns) THEN "idle" ELSE "open"
      BY <1>1, <1>4, <1>6, <2>2, StepIs
    <3>2. c.pc \in {"open", "idle", "died"} /\ (c.pc = "open" => c.i <= Len(Ns))
      BY <1>6, <3>1
    <3> QED
      BY <3>1, <3>2
  <2> QED
    BY <1>3, <2>1, <2>2
<1>8. PICK c \in Commands : /\ v4' = [v4 EXCEPT ![p] = c]
                            /\ c.do = s.do /\ c.pc \in {"open", "idle", "died"}
                            /\ c.pc = "open" => c.i <= Len(Ns)
  BY <1>7
<1>9. CommandFits(c)
  BY <1>6, <1>8 DEF CommandFits, N!Adds, N!Deletes
<1>10. CommandAlone(c)'
  BY <1>8 DEF CommandAlone, N!Deletes
<1>11. v3' \in [N!All -> {"none", "file", "bound"}]
  BY <1>3, <1>5
<1> QED
  BY <1>1, <1>3, <1>6, <1>8, <1>9, <1>10, <1>11, FilesChange DEF Ended

(* The namespaces of a command that enters them.                           *)
LEMMA SetnsKeeps ==
  ASSUME N!IInv, NEW p \in Proc, N!setns(p)
  PROVE  N!IInv'
<1>1. PICK s \in Commands : s = v4[p]
  BY CommandsAre
<1>2. s.pc = "setns" /\ N!Step(p, "idle") /\ UNCHANGED <<v1, v2, v3, v5>>
  BY <1>1 DEF N!setns, N!Here, N!At
<1>3. CommandFits(s)
  BY <1>1, CommandsAre
<1>4. "idle" \in Places /\ s.i <= Len(Ns) /\ s.i \in Nat /\ Len(Ns) \in Nat
  BY <1>2, <1>3, NamesAre DEF Places, CommandFits, Commands
<1>5. PICK c \in Commands :
        /\ v4' = [v4 EXCEPT ![p] = c]
        /\ c.i = s.i + 1 /\ c.pc = IF s.i = Len(Ns) THEN "idle" ELSE s.pc
  BY <1>1, <1>2, <1>4, LoopIs
<1>6. c.pc \in {"idle", "setns"} /\ (c.pc = "setns" => c.i <= Len(Ns))
  BY <1>2, <1>4, <1>5
<1>7. CommandFits(c) /\ CommandAlone(c)
  BY <1>6 DEF CommandFits, CommandAlone, N!Adds, N!Deletes
<1> QED
  BY <1>1, <1>2, <1>5, <1>6, <1>7, OnlyCommand DEF Ended

(* A file is unbound and removed.                                          *)
LEMMA RemoveKeeps ==
  ASSUME N!IInv, NEW p \in Proc, N!Remove(p)
  PROVE  N!IInv'
<1>1. PICK s \in Commands : s = v4[p]
  BY CommandsAre
<1>2. PICK n : n = Ns[s.i]
  OBVIOUS
<1>3. /\ s.pc = "unlink" /\ v3' = [v3 EXCEPT ![n] = "none"] /\ N!Step(p, "umount")
      /\ UNCHANGED <<v1, v2, v5>>
  BY <1>1, <1>2 DEF N!Remove, N!Here, N!At, N!UnlinkOk
<1>4. CommandFits(s) /\ v3 \in [N!All -> {"none", "file", "bound"}]
  BY <1>1, CommandsAre
<1>5. /\ "umount" \in Places /\ s.i <= Len(Ns) /\ s.i \in Nat /\ s.i >= 1 /\ Len(Ns) \in Nat
      /\ s.do = "delete"
  BY <1>3, <1>4, NamesAre DEF Places, CommandFits, Commands, N!Deletes
<1>6. PICK c \in Commands :
        /\ v4' = [v4 EXCEPT ![p] = c]
        /\ c.do = s.do /\ c.used = s.used /\ c.i = s.i + 1
        /\ c.pc = IF s.i = Len(Ns) THEN "umount" ELSE s.pc
  BY <1>1, <1>3, <1>5, LoopIs
<1>7. /\ c.pc \in {"unlink", "umount"} /\ (c.pc = "unlink" => c.i <= Len(Ns))
      /\ (c.pc = "umount" => s.i = Len(Ns))
  BY <1>3, <1>5, <1>6
<1>8. CommandFits(c)
  BY <1>5, <1>6, <1>7 DEF CommandFits, N!Adds, N!Deletes
<1>9. v3' \in [N!All -> {"none", "file", "bound"}]
  BY <1>3, <1>4
<1>10. ASSUME CommandAlone(s)
       PROVE  CommandAlone(c)'
  <2>1. v1
    BY <1>3, <1>10 DEF CommandAlone, N!Deletes
  <2>2. ASSUME s.used = {}
        PROVE  \A j \in 1..s.i : v3'[Ns[j]] = "none"
    <3> TAKE j \in 1..s.i
    <3>1. Ns[j] \in N!All /\ (j # s.i => j \in 1..(s.i - 1))
      BY <1>5, NamesAre
    <3>2. j # s.i => v3[Ns[j]] = "none"
      BY <1>3, <1>10, <2>2, <3>1 DEF CommandAlone
    <3> QED
      BY <1>2, <1>3, <1>4, <3>1, <3>2
  <2>3. s.used = {} /\ c.pc = "unlink" => \A j \in 1..(c.i - 1) : v3'[Ns[j]] = "none"
    BY <1>5, <1>6, <2>2
  <2>4. s.used = {} /\ c.pc = "umount" => \A m \in N!All : v3'[m] = "none"
    BY <1>7, <2>2, NamesAre
  <2> QED
    BY <1>3, <1>6, <1>7, <2>1, <2>3, <2>4 DEF CommandAlone
<1>11. c.pc # "died" /\ v4[p].pc \notin Ended
  BY <1>1, <1>3, <1>7 DEF Ended
<1> QED
  BY <1>1, <1>3, <1>6, <1>8, <1>9, <1>10, <1>11, FilesChange

(* The directory is unmounted, and removed.                                *)
LEMMA UmountKeeps ==
  ASSUME N!IInv, NEW p \in Proc, N!UmountDir(p)
  PROVE  N!IInv'
<1>1. PICK s \in Commands : s = v4[p]
  BY CommandsAre
<1>2. PICK bound \in BOOLEAN : bound <=> "bound" \in {v3[n] : n \in N!All}
  OBVIOUS
<1>3. /\ s.pc = "umount" /\ v2' = (IF v2 > 0 /\ ~bound THEN v2 - 1 ELSE v2) /\ N!Goto(p, "rmdir")
      /\ UNCHANGED <<v1, v3, v5>>
  BY <1>1, <1>2 DEF N!UmountDir, N!At
<1>4. v4 \in [Proc -> Commands] /\ "rmdir" \in Places
  BY CommandsAre DEF Places, N!Deletes
<1>5. PICK c \in Commands : /\ v4' = [v4 EXCEPT ![p] = c]
                            /\ c.do = s.do /\ c.used = s.used /\ c.i = s.i /\ c.pc = "rmdir"
  BY <1>1, <1>3, <1>4, GotoIs
<1>6. CommandFits(s)
  BY <1>1, CommandsAre
<1>7. CommandFits(c)
  BY <1>3, <1>5, <1>6 DEF CommandFits, N!Adds, N!Deletes
<1>8. /\ v1 \in BOOLEAN /\ v5 \in BOOLEAN /\ v2 \in Nat
      /\ v3 \in [N!All -> {"none", "file", "bound"}]
      /\ ~v1 => v2 = 0
      /\ ~v5 => /\ v2 <= 1 /\ CommandAlone(s)
                /\ \A q \in Proc \ {p} : v4[q].pc \in Ended
  BY <1>1, <1>3, CommandsAre DEF Ended
<1>9. ASSUME ~v5
      PROVE  CommandAlone(c)'
  <2>1. v1 /\ v2 <= 1 /\ (s.used = {} => \A n \in N!All : v3[n] = "none")
    BY <1>3, <1>8, <1>9 DEF CommandAlone, N!Deletes
  <2>2. s.used = {} => ~bound
    BY <1>2, <2>1
  <2>3. s.used = {} => v2' = 0
    BY <1>3, <1>8, <2>1, <2>2
  <2> QED
    BY <1>3, <1>5, <2>1, <2>3 DEF CommandAlone
<1>10. v2' \in Nat /\ v2' <= v2
  BY <1>3, <1>8
<1>11. /\ v1' \in BOOLEAN /\ v5' \in BOOLEAN /\ (v5 => v5') /\ (~v1' => v2' = 0)
       /\ v3' \in [N!All -> {"none", "file", "bound"}]
  BY <1>3, <1>8, <1>10
<1>12. ~v5' => v2' <= 1 /\ CommandAlone(c)' /\ \A q \in Proc \ {p} : v4[q].pc \in Ended
  BY <1>3, <1>8, <1>9, <1>10
<1>13. c.pc # "died"
  BY <1>5
<1> QED
  BY <1>5, <1>7, <1>10, <1>11, <1>12, <1>13, CommandSteps

LEMMA RmdirKeeps ==
  ASSUME N!IInv, NEW p \in Proc, N!rmdir(p)
  PROVE  N!IInv'
<1>1. PICK s \in Commands : s = v4[p]
  BY CommandsAre
<1>2. PICK empty \in BOOLEAN : empty <=> (v1 /\ v2 = 0 /\ \A n \in N!All : v3[n] = "none")
  OBVIOUS
<1>3. /\ s.pc = "rmdir" /\ UNCHANGED <<v2, v3, v5>>
      /\ IF empty THEN v1' = FALSE /\ N!Goto(p, "idle") ELSE N!Goto(p, "died") /\ v1' = v1
  BY <1>1, <1>2 DEF N!rmdir, N!At, N!die
<1>4. v4 \in [Proc -> Commands] /\ {"idle", "died"} \subseteq Places
  BY CommandsAre DEF Places
<1>5. /\ v1 \in BOOLEAN /\ v5 \in BOOLEAN /\ v2 \in Nat
      /\ v3 \in [N!All -> {"none", "file", "bound"}]
      /\ ~v1 => v2 = 0
      /\ ~v5 => /\ v2 <= 1 /\ CommandAlone(s)
                /\ \A q \in Proc \ {p} : v4[q].pc \in Ended
  BY <1>1, <1>3, CommandsAre DEF Ended
<1>6. /\ v5' \in BOOLEAN /\ v2' \in Nat /\ (v5 => v5') /\ (~v5' => v2' <= 1)
      /\ v3' \in [N!All -> {"none", "file", "bound"}]
      /\ ~v5' => \A q \in Proc \ {p} : v4[q].pc \in Ended
  BY <1>3, <1>5
<1>7. CASE empty
  <2>1. PICK c \in Commands : v4' = [v4 EXCEPT ![p] = c] /\ c.pc = "idle"
    BY <1>3, <1>4, <1>7, GotoIs
  <2>2. CommandFits(c) /\ c.pc \in Ended
    BY <2>1 DEF CommandFits, N!Adds, N!Deletes, Ended
  <2>3. v1' \in BOOLEAN /\ (~v1' => v2' = 0)
    BY <1>2, <1>3, <1>7
  <2> QED
    BY <1>6, <2>1, <2>2, <2>3, CommandSteps
<1>8. CASE ~empty
  <2>1. PICK c \in Commands : v4' = [v4 EXCEPT ![p] = c] /\ c.used = s.used /\ c.pc = "died"
    BY <1>1, <1>3, <1>4, <1>8, GotoIs
  <2>2. CommandFits(c) /\ c.pc \in Ended
    BY <2>1 DEF CommandFits, N!Adds, N!Deletes, Ended
  <2>3. v1' \in BOOLEAN /\ (~v1' => v2' = 0)
    BY <1>3, <1>5, <1>8
  <2>4. c.used = {} => v5'
    <3>1. CommandAlone(s) /\ s.used = {} => empty
      BY <1>2, <1>3 DEF CommandAlone, N!Deletes
    <3> QED
      BY <1>3, <1>5, <1>8, <2>1, <3>1
  <2> QED
    BY <1>6, <2>1, <2>2, <2>3, <2>4, CommandSteps
<1> QED
  BY <1>7, <1>8

LEMMA NsNextIInv == N!IInv /\ [N!Next]_(N!vars) => N!IInv'
<1> SUFFICES ASSUME N!IInv, [N!Next]_(N!vars) PROVE N!IInv'
  OBVIOUS
<1>1. CASE N!Next
  <2>1. PICK p \in Proc :
          \/ \E do \in {"add", "delete", "exec"}, used \in {{}, {Ns[1]}, {"mnt"}} : N!Start(p, do, used)
          \/ N!Killed(p)
          \/ N!Skip(p, "open", "idle") \/ N!Skip(p, "setns", "idle") \/ N!Skip(p, "unlink", "umount")
          \/ N!mkpath(p) \/ N!Share(p, "share", "bind") \/ N!MountOverItself(p)
          \/ N!Share(p, "reshare", "died")
          \/ N!Create(p) \/ N!BindFile(p) \/ N!setns(p)
          \/ N!Remove(p) \/ N!UmountDir(p) \/ N!rmdir(p)
    BY <1>1, Zenon DEF N!Next
  <2>2. ASSUME NEW do \in {"add", "delete", "exec"}, NEW used \in {{}, {Ns[1]}, {"mnt"}},
               N!Start(p, do, used)
        PROVE  N!IInv'
    <3>1. Ns[1] \in N!All
      BY NamesAre
    <3>2. used \in SUBSET (N!All \cup {"mnt"})
      <4>1. CASE used = {}
        BY <4>1
      <4>2. CASE used = {Ns[1]}
        BY <3>1, <4>2
      <4>3. CASE used = {"mnt"}
        BY <4>3
      <4> QED
        BY <4>1, <4>2, <4>3
    <3> QED
      BY <2>2, <3>2, StartKeeps
  <2>3. ASSUME \/ N!Skip(p, "open", "idle") \/ N!Skip(p, "setns", "idle")
               \/ N!Skip(p, "unlink", "umount")
        PROVE  N!IInv'
    BY <2>3, SkipKeeps
  <2>4. ASSUME N!Share(p, "share", "bind") \/ N!Share(p, "reshare", "died")
        PROVE  N!IInv'
    BY <2>4, ShareKeeps
  <2> QED
    BY <2>1, <2>2, <2>3, <2>4, KilledKeeps, MkpathKeeps, MountKeeps, CreateKeeps, BindFileKeeps,
       SetnsKeeps, RemoveKeeps, UmountKeeps, RmdirKeeps
<1>2. CASE UNCHANGED N!vars
  BY <1>2 DEF N!vars, N!IInv, N!TypeOK, N!Deletable, N!Running, N!Alone, N!At
<1> QED
  BY <1>1, <1>2

-----------------------------------------------------------------------------
(* debug_stdio.c.  The files named in m from the i-th on.                  *)
Logged(f, m, i) == {[prefix |-> f, at |-> m[j]] : j \in i..Len(m)}

LEMMA CountIs == ASSUME NEW T PROVE B!Cardinality(T) = Cardinality(T)
  BY DEF B!Cardinality, Cardinality

(* Each is there once.                                                     *)
LEMMA LoggedCount ==
  ASSUME NEW f, NEW m \in Seq(Nat), NEW i \in 1..Len(m),
         \A k \in 1..Len(m) : \A j \in 1..(k - 1) : m[j] < m[k]
  PROVE  IsFiniteSet(Logged(f, m, i)) /\ Cardinality(Logged(f, m, i)) = Len(m) - i + 1
<1> DEFINE I == i..Len(m)
           T == Logged(f, m, i)
           g == [j \in I |-> [prefix |-> f, at |-> m[j]]]
<1>1. IsFiniteSet(I) /\ Cardinality(I) = Len(m) - i + 1
  <2>1. i \in Int /\ Len(m) \in Int /\ ~(i > Len(m))
    OBVIOUS
  <2> QED
    BY <2>1, FS_Interval
<1>2. \A j, k \in I : m[j] \in Nat /\ (j < k => m[j] < m[k])
  <2> TAKE j, k \in I
  <2>1. j \in 1..Len(m) /\ k \in 1..Len(m) /\ (j < k => j \in 1..(k - 1))
    OBVIOUS
  <2> QED
    BY <2>1
<1>3. \A j, k \in I : g[j] = g[k] => j = k
  <2> TAKE j, k \in I
  <2>1. g[j].at = m[j] /\ g[k].at = m[k]
    OBVIOUS
  <2>2. j < k \/ k < j \/ j = k
    OBVIOUS
  <2> HIDE DEF g
  <2> QED
    BY <1>2, <2>1, <2>2
<1>4. g \in Injection(I, T)
  <2>1. g \in [I -> T]
    BY DEF Logged
  <2> QED
    BY <1>3, <2>1 DEF Injection, IsInjective
<1>5. g \in Surjection(I, T)
  BY <1>4 DEF Surjection, Injection, Logged
<1>6. ExistsBijection(I, T)
  BY <1>4, <1>5 DEF ExistsBijection, Bijection
<1> QED
  BY <1>1, <1>6, FS_Bijection

(* What is there of a program's files.                                     *)
LEMMA LogIs ==
  ASSUME B!LogIInv, NEW f \in Program
  PROVE  /\ v4[f] \in Seq(Nat) /\ Len(v4[f]) \in Nat /\ files_max \in Nat /\ files_max >= 1
         /\ v1 \in Nat /\ \A file \in v2 : file.at \in Nat /\ file = [prefix |-> file.prefix, at |-> file.at]
         /\ \A i \in 1..Len(v4[f]) :
              v4[f][i] \in Nat /\ v4[f][i] < v1 /\ \A j \in 1..(i - 1) : v4[f][j] < v4[f][i]
         /\ \A n \in Nat : \A file :
              file \in B!Newest(f, n) <=>
                \E i \in 1..Len(v4[f]) : i > Len(v4[f]) - n /\ file = [prefix |-> f, at |-> v4[f][i]]
         /\ \A file \in v2 : file.prefix = f => file \in B!Newest(f, files_max)
         /\ \A file \in B!Newest(f, files_max - 1) : file \in v2
<1>1. files_max \in Nat /\ files_max >= 1
  BY LibraryAssumption DEF B!LogAssumption
<1>2. v4[f] \in Seq(Nat) /\ Len(v4[f]) \in Nat /\ v1 \in Nat
  BY DEF B!LogIInv, B!LogTypeOK
<1>3. \A file \in v2 : file.at \in Nat /\ file = [prefix |-> file.prefix, at |-> file.at]
  BY DEF B!LogIInv, B!LogTypeOK
<1>4. \A i \in 1..Len(v4[f]) :
        v4[f][i] \in Nat /\ v4[f][i] < v1 /\ \A j \in 1..(i - 1) : v4[f][j] < v4[f][i]
  <2>1. \A i \in DOMAIN v4[f] : v4[f][i] < v1 /\ \A j \in 1..(i - 1) : v4[f][j] < v4[f][i]
    BY DEF B!LogIInv, B!InOrder
  <2>2. PICK m \in Seq(Nat) : m = v4[f]
    BY <1>2
  <2>3. \A i \in 1..Len(m) : i \in DOMAIN m /\ m[i] \in Nat
    OBVIOUS
  <2> QED
    BY <2>1, <2>2, <2>3
<1>5. \A n \in Nat : \A file :
        file \in B!Newest(f, n) <=>
          \E i \in 1..Len(v4[f]) : i > Len(v4[f]) - n /\ file = [prefix |-> f, at |-> v4[f][i]]
  BY <1>2 DEF B!Newest
<1>6. \A file \in v2 : file.prefix = f => file \in B!Newest(f, files_max)
  BY DEF B!LogIInv, B!NewestKept, B!Own
<1>7. \A file \in B!Newest(f, files_max - 1) : file \in v2
  BY DEF B!LogIInv, B!NewestKept, B!Own
<1> QED
  BY <1>1, <1>2, <1>3, <1>4, <1>5, <1>6, <1>7

(* Of the files that are there, all but the newest files_max - 1 go.       *)
LEMMA RotatedIs ==
  ASSUME B!LogIInv, Begins = {}, NEW f \in Program
  PROVE  /\ B!Rotated(f) \subseteq v2
         /\ \A file \in v2 : file.prefix # f => file \in B!Rotated(f)
         /\ \A i \in 1..Len(v4[f]) : [prefix |-> f, at |-> v4[f][i]] \in v2 =>
              ([prefix |-> f, at |-> v4[f][i]] \in B!Rotated(f) <=> i > Len(v4[f]) - (files_max - 1))
<1>1. \A file : B!Matches(f, file) <=> file.prefix = f
  BY DEF B!Matches
<1>2. B!Rotated(f) \subseteq v2 /\ \A file \in v2 : file.prefix # f => file \in B!Rotated(f)
  BY <1>1 DEF B!Rotated
<1>3. ASSUME NEW i \in 1..Len(v4[f]), [prefix |-> f, at |-> v4[f][i]] \in v2
      PROVE  [prefix |-> f, at |-> v4[f][i]] \in B!Rotated(f) <=> i > Len(v4[f]) - (files_max - 1)
  <2>1. PICK m, e, n : m = v4[f] /\ e = [prefix |-> f, at |-> m[i]] /\ n = Len(m)
    OBVIOUS
  <2>2. /\ m \in Seq(Nat) /\ n \in Nat /\ i \in 1..n /\ files_max \in Nat /\ files_max >= 1
        /\ \A k \in 1..n : m[k] \in Nat /\ \A j \in 1..(k - 1) : m[j] < m[k]
    BY <2>1, LogIs
  <2>3. PICK G : G = {g \in v2 : g.prefix = f /\ g.at >= m[i]}
    OBVIOUS
  <2>4. B!Count(f, e) = Cardinality(G)
    <3>1. {g \in v2 : B!Matches(f, g) /\ B!Behind(f, g, e)} = G
      BY <1>1, <2>1, <2>3 DEF B!Behind
    <3> QED
      BY <3>1, CountIs DEF B!Count
  <2>5. e \in B!Rotated(f) <=> ~(Cardinality(G) >= files_max)
    BY <1>1, <1>3, <2>1, <2>4 DEF B!Rotated
  <2>6. \A j, k \in 1..n : m[j] >= m[k] => j >= k
    <3> SUFFICES ASSUME NEW j \in 1..n, NEW k \in 1..n, j < k PROVE m[j] < m[k]
      BY <2>2
    <3>1. j \in 1..(k - 1)
      OBVIOUS
    <3> QED
      BY <2>2, <3>1
  <2>7. ASSUME NEW g \in G
        PROVE  \E j \in i..n : j > n - files_max /\ g = [prefix |-> f, at |-> m[j]]
    <3>1. g \in v2 /\ g.prefix = f /\ g.at >= m[i]
      BY <2>3
    <3>2. PICK j \in 1..n : j > n - files_max /\ g = [prefix |-> f, at |-> m[j]]
      BY <2>1, <3>1, LogIs
    <3>3. j >= i
      BY <2>6, <2>2, <3>1, <3>2
    <3> QED
      BY <3>2, <3>3
  <2>8. IsFiniteSet(Logged(f, m, i)) /\ Cardinality(Logged(f, m, i)) = n - i + 1
    BY <2>1, <2>2, LoggedCount
  <2>9. G \subseteq Logged(f, m, i)
    BY <2>1, <2>7 DEF Logged
  <2>10. IsFiniteSet(G) /\ Cardinality(G) <= n - i + 1 /\ Cardinality(G) \in Nat
    BY <2>8, <2>9, FS_Subset, FS_CardinalityType
  <2>11. CASE i > n - (files_max - 1)
    BY <2>1, <2>2, <2>5, <2>10, <2>11
  <2>12. CASE ~(i > n - (files_max - 1))
    <3>1. e \in G
      BY <1>3, <2>1, <2>2, <2>3
    <3>2. PICK k \in i..n : k > n - files_max /\ e = [prefix |-> f, at |-> m[k]]
      BY <2>7, <3>1
    <3>3. i = k
      <4>1. m[i] = m[k]
        BY <2>1, <3>2
      <4> QED
        BY <2>2, <2>6, <3>2, <4>1
    <3>4. ASSUME NEW j \in i..n
          PROVE  [prefix |-> f, at |-> m[j]] \in G
      <4>1. CASE j = i
        BY <2>1, <3>1, <4>1
      <4>2. CASE j > i
        <5>1. j \in 1..n /\ j > n - (files_max - 1) /\ files_max - 1 \in Nat
          BY <2>2, <3>2, <3>3, <4>2
        <5>2. [prefix |-> f, at |-> m[j]] \in v2
          BY <2>1, <5>1, LogIs
        <5>3. m[j] >= m[i]
          <6>1. i \in 1..(j - 1)
            BY <2>2, <4>2
          <6> QED
            BY <2>2, <5>1, <6>1
        <5> QED
          BY <2>3, <5>2, <5>3
      <4> QED
        BY <2>2, <4>1, <4>2
    <3>5. Logged(f, m, i) = G
      BY <2>1, <2>9, <3>4 DEF Logged
    <3> QED
      BY <2>1, <2>2, <2>5, <2>8, <2>12, <3>2, <3>3, <3>5
  <2> QED
    BY <2>11, <2>12
<1> QED
  BY <1>2, <1>3

LEMMA LogInitIInv == B!LogInit => B!LogIInv
<1> SUFFICES ASSUME B!LogInit PROVE B!LogIInv
  OBVIOUS
<1>1. v1 = 1 /\ v2 = {} /\ v4 = [f \in Program |-> <<>>]
  BY DEF B!LogInit
<1>2. v4 \in [Program -> Seq(Nat)] /\ \A f \in Program : v4[f] = <<>>
  BY <1>1
<1>3. B!LogTypeOK
  BY <1>1, <1>2 DEF B!LogTypeOK
<1>4. B!InOrder
  BY <1>2 DEF B!InOrder
<1>5. B!NewestKept
  BY <1>1, <1>2 DEF B!NewestKept, B!Newest, B!Own
<1> QED
  BY <1>3, <1>4, <1>5 DEF B!LogIInv

(* The old files go.                                                       *)
LEMMA NoFileKeeps ==
  ASSUME B!LogIInv, Begins = {}, NEW f \in Program, v2' = B!Rotated(f), v1' = v1, v4' = v4
  PROVE  B!LogIInv'
<1>1. v2' \subseteq v2 /\ \A file \in v2 : file.prefix # f => file \in v2'
  BY RotatedIs
<1>2. B!LogTypeOK'
  BY <1>1 DEF B!LogIInv, B!LogTypeOK
<1>3. B!InOrder'
  BY DEF B!LogIInv, B!InOrder
<1>4. ASSUME NEW q \in Program
      PROVE  B!Newest(q, files_max - 1)' \subseteq B!Own(q)' /\ B!Own(q)' \subseteq B!Newest(q, files_max)'
  <2>1. \A n : B!Newest(q, n)' = B!Newest(q, n)
    BY DEF B!Newest
  <2>2. B!Newest(q, files_max - 1) \subseteq B!Own(q) /\ B!Own(q) \subseteq B!Newest(q, files_max)
    BY DEF B!LogIInv, B!NewestKept
  <2>3. B!Own(q)' \subseteq B!Own(q)
    BY <1>1 DEF B!Own
  <2>4. ASSUME NEW file \in B!Newest(q, files_max - 1)
        PROVE  file \in B!Own(q)'
    <3>1. file \in v2 /\ file.prefix = q
      BY <2>2, <2>4 DEF B!Own
    <3>2. CASE q # f
      BY <1>1, <3>1, <3>2 DEF B!Own
    <3>3. CASE q = f
      <4>1. files_max - 1 \in Nat
        BY LogIs
      <4>2. PICK i \in 1..Len(v4[f]) : i > Len(v4[f]) - (files_max - 1) /\ file = [prefix |-> f, at |-> v4[f][i]]
        BY <2>4, <3>3, <4>1, LogIs
      <4>3. file \in B!Rotated(f)
        BY <3>1, <4>2, RotatedIs
      <4> QED
        BY <3>1, <4>3 DEF B!Own
    <3> QED
      BY <3>2, <3>3
  <2> QED
    BY <2>1, <2>2, <2>3, <2>4
<1> QED
  BY <1>2, <1>3, <1>4 DEF B!LogIInv, B!NewestKept

(* And a new one comes.                                                    *)
LEMMA NewFileKeeps ==
  ASSUME B!LogIInv, Begins = {}, NEW f \in Program, v1' = v1 + 1,
         v2' = B!Rotated(f) \cup {[prefix |-> f, at |-> v1]},
         v4' = [v4 EXCEPT ![f] = Append(@, v1)]
  PROVE  B!LogIInv'
<1>1. PICK now, m, n : now = v1 /\ m = v4[f] /\ n = Len(m)
  OBVIOUS
<1>2. /\ now \in Nat /\ m \in Seq(Nat) /\ n \in Nat /\ files_max \in Nat /\ files_max >= 1
      /\ v4 \in [Program -> Seq(Nat)]
  BY <1>1, LogIs DEF B!LogIInv, B!LogTypeOK
<1>3. PICK new : new = Append(m, now)
  OBVIOUS
<1>4. /\ new \in Seq(Nat) /\ Len(new) = n + 1 /\ new[n + 1] = now
      /\ \A i \in 1..n : new[i] = m[i]
  BY <1>1, <1>2, <1>3
<1>5. v4' \in [Program -> Seq(Nat)] /\ v4'[f] = new /\ \A q \in Program \ {f} : v4'[q] = v4[q]
  BY <1>1, <1>2, <1>3, <1>4
<1>6. B!Rotated(f) \subseteq v2 /\ \A file \in v2 : file.prefix # f => file \in v2'
  BY RotatedIs
<1>7. PICK e : e = [prefix |-> f, at |-> now]
  OBVIOUS
<1>8. e \in [prefix : Program, at : Nat] /\ e.prefix = f /\ v2' = B!Rotated(f) \cup {e}
  BY <1>1, <1>2, <1>7
<1>9. B!LogTypeOK'
  BY <1>1, <1>2, <1>5, <1>6, <1>8 DEF B!LogIInv, B!LogTypeOK
<1>13. ASSUME NEW i \in 1..(n + 1)
       PROVE  new[i] < now + 1 /\ \A j \in 1..(i - 1) : new[j] < new[i]
  <2>1. \A k \in 1..n : m[k] \in Nat /\ m[k] < now /\ \A j \in 1..(k - 1) : m[j] < m[k]
    BY <1>1, LogIs
  <2>2. CASE i = n + 1
    <3>1. \A j \in 1..(i - 1) : j \in 1..n
      BY <1>2, <2>2
    <3>2. new[i] = now
      BY <1>4, <2>2
    <3>3. \A j \in 1..(i - 1) : new[j] < now
      BY <1>4, <2>1, <3>1
    <3>4. now < now + 1
      BY <1>2
    <3> QED
      BY <3>2, <3>3, <3>4
  <2>3. CASE i # n + 1
    <3>1. i \in 1..n /\ m[i] \in Nat /\ m[i] < now
      BY <1>2, <2>1, <2>3
    <3>2. \A j \in 1..(i - 1) : j \in 1..n /\ m[j] < m[i]
      BY <1>2, <2>1, <3>1
    <3>3. new[i] < now + 1
      BY <1>2, <1>4, <3>1
    <3> QED
      BY <1>4, <3>1, <3>2, <3>3
  <2> QED
    BY <2>2, <2>3
<1>10. ASSUME NEW q \in Program, NEW i \in DOMAIN v4'[q]
       PROVE  v4'[q][i] < v1' /\ \A j \in 1..(i - 1) : v4'[q][j] < v4'[q][i]
  <2>1. CASE q # f
    <3>1. v4'[q] = v4[q] /\ v4[q] \in Seq(Nat) /\ Len(v4[q]) \in Nat
      BY <1>2, <1>5, <2>1
    <3>2. i \in 1..Len(v4[q])
      <4>1. PICK t \in Seq(Nat) : t = v4[q]
        BY <3>1
      <4>2. i \in DOMAIN t
        BY <1>10, <3>1, <4>1
      <4> QED
        BY <4>1, <4>2
    <3>3. v4[q][i] < now /\ v4[q][i] \in Nat /\ \A j \in 1..(i - 1) : v4[q][j] < v4[q][i]
      BY <1>1, <3>2, LogIs
    <3> QED
      BY <1>1, <1>2, <3>1, <3>3
  <2>2. CASE q = f
    <3>1. i \in 1..(n + 1)
      BY <1>4, <1>5, <1>10, <2>2
    <3>3. new[i] < now + 1 /\ \A j \in 1..(i - 1) : new[j] < new[i]
      BY <1>13, <3>1
    <3> QED
      BY <1>1, <1>5, <2>2, <3>3
  <2> QED
    BY <2>1, <2>2
<1>11. ASSUME NEW q \in Program
       PROVE  B!Newest(q, files_max - 1)' \subseteq B!Own(q)' /\ B!Own(q)' \subseteq B!Newest(q, files_max)'
  <2>1. CASE q # f
    <3>1. \A k : B!Newest(q, k)' = B!Newest(q, k)
      BY <1>5, <2>1 DEF B!Newest
    <3>2. B!Own(q)' = B!Own(q)
      BY <1>6, <1>8, <2>1 DEF B!Own
    <3>3. B!Newest(q, files_max - 1) \subseteq B!Own(q) /\ B!Own(q) \subseteq B!Newest(q, files_max)
      BY DEF B!LogIInv, B!NewestKept
    <3> QED
      BY <3>1, <3>2, <3>3
  <2>2. CASE q = f
    <3>1. \A k \in Nat : \A file :
            file \in B!Newest(f, k)' <=>
              \E i \in 1..(n + 1) : i > n + 1 - k /\ file = [prefix |-> f, at |-> new[i]]
      <4>1. DOMAIN new = 1..(n + 1) /\ Len(new) = n + 1
        BY <1>2, <1>4
      <4> TAKE k \in Nat
      <4> TAKE file
      <4>2. B!Newest(f, k)' =
              {[prefix |-> f, at |-> new[i]] : i \in {j \in DOMAIN new : j > Len(new) - k}}
        BY <1>5, Zenon DEF B!Newest
      <4>3. {j \in DOMAIN new : j > Len(new) - k} = {j \in 1..(n + 1) : j > n + 1 - k}
        BY <1>2, <4>1
      <4> QED
        BY <4>2, <4>3
    <3>2. ASSUME NEW file \in B!Newest(f, files_max - 1)'
          PROVE  file \in B!Own(f)'
      <4>1. files_max - 1 \in Nat
        BY <1>2
      <4>2. PICK i \in 1..(n + 1) : i > n + 1 - (files_max - 1) /\ file = [prefix |-> f, at |-> new[i]]
        BY <3>1, <3>2, <4>1
      <4>3. CASE i = n + 1
        BY <1>4, <1>7, <1>8, <4>2, <4>3 DEF B!Own
      <4>4. CASE i \in 1..n
        <5>1. i > n - (files_max - 1) /\ file = [prefix |-> f, at |-> m[i]]
          <6>1. new[i] = m[i]
            BY <1>4, <4>4
          <6>2. i > n - (files_max - 1)
            BY <1>2, <4>2, <4>4
          <6> QED
            BY <4>2, <6>1, <6>2
        <5>2. file \in v2
          BY <1>1, <4>1, <4>4, <5>1, LogIs
        <5>3. file \in B!Rotated(f)
          BY <1>1, <4>4, <5>1, <5>2, RotatedIs
        <5> QED
          BY <1>8, <5>1, <5>3 DEF B!Own
      <4> QED
        BY <1>2, <4>3, <4>4
    <3>3. ASSUME NEW file \in B!Own(f)'
          PROVE  file \in B!Newest(f, files_max)'
      <4>1. file \in v2' /\ file.prefix = f
        BY <3>3 DEF B!Own
      <4>2. CASE file = e
        <5>1. n + 1 \in 1..(n + 1) /\ n + 1 > n + 1 - files_max
          BY <1>2
        <5> QED
          BY <1>2, <1>4, <1>7, <3>1, <4>2, <5>1
      <4>3. CASE file # e
        <5>1. file \in B!Rotated(f) /\ file \in v2
          BY <1>6, <1>8, <4>1, <4>3
        <5>2. PICK i \in 1..n : file = [prefix |-> f, at |-> m[i]]
          BY <1>1, <1>2, <4>1, <5>1, LogIs
        <5>3. i > n - (files_max - 1)
          BY <1>1, <5>1, <5>2, RotatedIs
        <5>4. i \in 1..(n + 1) /\ i > n + 1 - files_max /\ new[i] = m[i]
          BY <1>2, <1>4, <5>3
        <5> QED
          BY <1>2, <3>1, <5>2, <5>4
      <4> QED
        BY <4>2, <4>3
    <3> QED
      BY <2>2, <3>2, <3>3
  <2> QED
    BY <2>1, <2>2
<1>12. B!InOrder'
  BY <1>10 DEF B!InOrder
<1> QED
  BY <1>9, <1>11, <1>12 DEF B!LogIInv, B!NewestKept

LEMMA LogNextIInv ==
  ASSUME Begins = {}
  PROVE  B!LogIInv /\ [B!LogNext]_(B!logVars) => B!LogIInv'
<1> SUFFICES ASSUME B!LogIInv, [B!LogNext]_(B!logVars) PROVE B!LogIInv'
  OBVIOUS
<1>1. ASSUME NEW f \in Program, B!NoFile(f)
      PROVE  B!LogIInv'
  BY <1>1, NoFileKeeps DEF B!NoFile
<1>2. ASSUME NEW f \in Program, NEW len, NEW newline, B!LogToNew(f, len, newline)
      PROVE  B!LogIInv'
  BY <1>2, NewFileKeeps DEF B!LogToNew
<1>3. ASSUME v1' = v1, v2' = v2, v4' = v4
      PROVE  B!LogIInv'
  BY <1>3 DEF B!LogIInv, B!LogTypeOK, B!InOrder, B!NewestKept, B!Newest, B!Own
<1>4. ASSUME NEW f \in Program, NEW len, NEW newline, B!LogToOpen(f, len, newline)
      PROVE  B!LogIInv'
  BY <1>3, <1>4 DEF B!LogToOpen
<1>5. CASE UNCHANGED B!logVars
  BY <1>3, <1>5 DEF B!logVars
<1> QED
  BY <1>1, <1>2, <1>4, <1>5 DEF B!LogNext, B!debug_func_log

-----------------------------------------------------------------------------
(* The four parts in one invariant of the library.                         *)
FilesIInv ==
  /\ which = "dir" => D!IInv
  /\ which = "mmap" => M!IInv
  /\ which = "ns" => N!IInv
  /\ which = "log" => B!LogIInv

LEMMA FilesBegin == FirstExists /\ AllInit => FilesIInv
<1> SUFFICES ASSUME FirstExists, AllInit
             PROVE  FilesIInv
  OBVIOUS
<1>1. which = "dir" => D!IInv
  BY DirInitIInv DEF AllInit, PartInit
<1>2. which = "mmap" => M!IInv
  BY MmapInitIInv DEF AllInit, PartInit
<1>3. which = "ns" => N!IInv
  BY NsInitIInv DEF AllInit, PartInit
<1>4. which = "log" => B!LogIInv
  BY LogInitIInv DEF AllInit, PartInit
<1> QED
  BY <1>1, <1>2, <1>3, <1>4 DEF FilesIInv

LEMMA FilesStep ==
  ASSUME ~Concurrent, ~GoesOn, Begins = {}, FilesIInv, [AllNext]_allVars
  PROVE  FilesIInv'
<1>1. CASE DirStep
  <2>1. which = "dir" /\ which' = which /\ D!Next
    BY <1>1 DEF DirStep
  <2>2. D!IInv'
    BY <2>1, DirNextIInv DEF FilesIInv
  <2> QED
    BY <2>1, <2>2 DEF FilesIInv
<1>2. CASE MmapStep
  <2>1. which = "mmap" /\ which' = which /\ M!Next
    BY <1>2 DEF MmapStep
  <2>2. M!IInv'
    BY <2>1, MmapNextIInv DEF FilesIInv
  <2> QED
    BY <2>1, <2>2 DEF FilesIInv
<1>3. CASE NsStep
  <2>1. which = "ns" /\ which' = which /\ N!Next
    BY <1>3 DEF NsStep
  <2>2. N!IInv'
    BY <2>1, NsNextIInv DEF FilesIInv
  <2> QED
    BY <2>1, <2>2 DEF FilesIInv
<1>4. CASE LogStep
  <2>1. which = "log" /\ which' = which /\ B!LogNext
    BY <1>4 DEF LogStep
  <2>2. B!LogIInv'
    BY <2>1, LogNextIInv DEF FilesIInv
  <2> QED
    BY <2>1, <2>2 DEF FilesIInv
<1>5. CASE \/ HashStep \/ ArrayStep \/ PoolStep \/ ListStep \/ LeakStep
           \/ CfgStep \/ CertStep \/ PacketStep
  <2>1. which' = which /\ which \notin {"dir", "mmap", "ns", "log"}
    BY <1>5 DEF HashStep, ArrayStep, PoolStep, ListStep, LeakStep, CfgStep, CertStep, PacketStep
  <2> QED
    BY <2>1 DEF FilesIInv
<1>6. CASE UNCHANGED allVars
  <2>1. which' = which /\ v1' = v1 /\ v2' = v2 /\ v3' = v3 /\ v4' = v4 /\ v5' = v5
    BY <1>6 DEF allVars, v1on, v3on, v4on, v5on
  <2>2. D!IInv => D!IInv'
    BY <2>1, DirNextIInv DEF D!vars
  <2>3. M!IInv => M!IInv'
    BY <2>1, MmapNextIInv DEF M!vars
  <2>4. N!IInv => N!IInv'
    BY <2>1, NsNextIInv DEF N!vars
  <2>5. B!LogIInv => B!LogIInv'
    BY <2>1, LogNextIInv DEF B!logVars
  <2> QED
    BY <2>1, <2>2, <2>3, <2>4, <2>5 DEF FilesIInv
<1> QED
  BY <1>1, <1>2, <1>3, <1>4, <1>5, <1>6 DEF AllNext

(* For any paths, names, programs, bytes and sizes: dir_mkpath returns 0   *)
(* exactly if the directory is there, and the names in a path fit each     *)
(* other; a program keeps its newest logs, all but one of files_max at     *)
(* least; a mapped file has what was written to it and nothing behind; and *)
(* whatever a call of ns_add or ns_delete left can be deleted.  Where the  *)
(* first component of every path exists, one handle writes to a file and   *)
(* is closed after a write has failed, and no log's name begins another's. *)
THEOREM FilesAlwaysKept ==
  ASSUME FirstExists, ~Concurrent, ~GoesOn, Begins = {}
  PROVE  AllSpec => []FilesKept
<1>1. AllInit => FilesIInv
  BY FilesBegin
<1>2. FilesIInv /\ [AllNext]_allVars => FilesIInv'
  BY FilesStep
<1>3. FilesIInv => FilesKept
  BY DirIInvImplies, NamesDoAgree, MmapIInvImplies
     DEF FilesIInv, FilesKept, N!IInv, B!LogIInv
<1> QED
  BY <1>1, <1>2, <1>3, PTL DEF AllSpec
=============================================================================
