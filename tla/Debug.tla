------------------------------- MODULE Debug -------------------------------
(***************************************************************************)
(* debug_leak.c, alloc_count.c and debug_stdio.c: what a program writes    *)
(* down of itself, its blocks of memory and its log.  The two share no     *)
(* state: each has an initial condition and steps of its own.              *)
(***************************************************************************)
EXTENDS Integers, SequencesExt

CONSTANTS
  Ptr,          (* addresses                                               *)
  Place,        (* file and line: 10 * file + line                         *)
  MaxCreates,   (* bound: how often the program allocates                  *)
  MaxStack      (* bound: places noted for a block                         *)

VARIABLES
  leak,      (* debug_leak_hash: counter and m_stack by pointer;           *)
             (* debug_leak_counter; debug_leak_init_done                   *)
  allocs,    (* alloc_count_hash: place and count by pointer               *)
  known      (* history: what was created and not deleted since, with its  *)
             (* first place, in order                                      *)

-----------------------------------------------------------------------------
(***************************************************************************)
(* debug_leak.c and alloc_count.c: the program tells where it allocates    *)
(* and frees; what is left can be listed.  A block may be freed, and its   *)
(* address given out again, without a word.                                *)
(***************************************************************************)
leakVars == <<leak, allocs, known>>

Empty == [p \in {} |-> 0]

LeakInit ==
  /\ leak = [hash |-> Empty, counter |-> 0, done |-> FALSE]
  /\ allocs = Empty
  /\ known = <<>>

Without(hash, ptr) == [p \in DOMAIN hash \ {ptr} |-> hash[p]]

debug_leak_init(s) == IF s.done THEN s ELSE [s EXCEPT !.done = TRUE, !.hash = Empty]

(* Note a place, if the pointer is known.                                  *)
debug_leak_stack(s, ptr, place) ==
  IF ptr \in DOMAIN s.hash
  THEN [s EXCEPT !.hash[ptr].stack = Append(@, place)]
  ELSE s

(* Mutant: a pointer that is there already keeps its record.               *)
debug_leak_create_kept(s, ptr, place) ==
  LET s1 == debug_leak_init(s)
  IN  IF ptr \in DOMAIN s1.hash
      THEN debug_leak_stack(s1, ptr, place)
      ELSE [s1 EXCEPT !.counter = @ + 1,
                      !.hash = (ptr :> [counter |-> s1.counter + 1, stack |-> <<place>>])
                               @@ s1.hash]

(* debug_leak_create_f: an old record of the pointer is dropped.           *)
debug_leak_create(s, ptr, place) ==
  LET s1  == debug_leak_init(s)
      rec == [counter |-> s1.counter + 1, stack |-> <<>>]
      s2  == [s1 EXCEPT !.counter = @ + 1,
                        !.hash = (ptr :> rec) @@ Without(s1.hash, ptr)]
  IN  debug_leak_stack(s2, ptr, place)

debug_leak_delete(s, ptr) == [s EXCEPT !.hash = Without(s.hash, ptr)]

(* alloc_count_add: a pointer that is there keeps its first place.         *)
alloc_count_add(hash, ptr, place) ==
  IF ptr \in DOMAIN hash
  THEN [hash EXCEPT ![ptr].count = @ + 1]
  ELSE (ptr :> [place |-> place, count |-> 1]) @@ hash

alloc_count_free(hash, ptr) == Without(hash, ptr)

NotPtr(ptr) == SelectSeq(known, LAMBDA k : k.ptr # ptr)

(* The program allocates; malloc may give an address whose block was freed *)
(* without a word.                                                         *)
Create ==
  \E ptr \in Ptr, place \in Place :
    /\ leak.counter < MaxCreates
    /\ leak' = debug_leak_create(leak, ptr, place)
    /\ allocs' = alloc_count_add(allocs, ptr, place)
    /\ known' = Append(NotPtr(ptr), [ptr |-> ptr, place |-> place])

(* It hands the block on, or one that nobody knows.  Before the first      *)
(* create and after fini the table has no hash function: only create sees  *)
(* to that, so that stack and delete must not be called.                   *)
Stack ==
  /\ leak.done
  /\ \E ptr \in Ptr, place \in Place :
       /\ ptr \in DOMAIN leak.hash => Len(leak.hash[ptr].stack) < MaxStack
       /\ leak' = debug_leak_stack(leak, ptr, place)
  /\ UNCHANGED <<allocs, known>>

Delete ==
  /\ leak.done
  /\ \E ptr \in Ptr :
       /\ leak' = debug_leak_delete(leak, ptr)
       /\ allocs' = alloc_count_free(allocs, ptr)
       /\ known' = NotPtr(ptr)

(* debug_leak_fini_f and alloc_count_fini; the counter goes on.            *)
Fini ==
  /\ leak.done
  /\ leak' = [leak EXCEPT !.hash = Empty, !.done = FALSE]
  /\ allocs' = Empty
  /\ known' = <<>>

LeakNext == Create \/ Stack \/ Delete \/ Fini

LeakSpec == LeakInit /\ [][LeakNext]_leakVars

-----------------------------------------------------------------------------
(* debug_leak_dump_f: the records in the order of their counters.          *)
Dump ==
  SetToSortSeq(DOMAIN leak.hash, LAMBDA p, q : leak.hash[p].counter < leak.hash[q].counter)

(* debug_leak_by_line_f: how many blocks come from each place.             *)
AllocatedAt(ptr) == leak.hash[ptr].stack[1]

CountAt(place) == Cardinality({p \in DOMAIN leak.hash : AllocatedAt(p) = place})

(* debug_leak_by_line_cmp_count: the larger count first, then by file.  The *)
(* order of two lines of a file is left open; here it is that of the lines. *)
SortsBefore(a, b) ==
  \/ CountAt(a) > CountAt(b)
  \/ CountAt(a) = CountAt(b) /\ a < b

ByLine ==
  LET order == SetToSortSeq({AllocatedAt(p) : p \in DOMAIN leak.hash}, SortsBefore)
  IN  [i \in DOMAIN order |-> [place |-> order[i], count |-> CountAt(order[i])]]

(* The dump lists what was created and not deleted, oldest first, each     *)
(* once; by_line accounts for all of it, worst place first; and            *)
(* alloc_count knows the same blocks.                                      *)
LeaksTold ==
  /\ Dump = [i \in DOMAIN known |-> known[i].ptr]
  /\ \A i \in DOMAIN known : AllocatedAt(known[i].ptr) = known[i].place
  /\ FoldSeq(LAMBDA e, n : e.count + n, 0, ByLine) = Len(known)
  /\ \A i \in 1..(Len(ByLine) - 1) : ByLine[i].count >= ByLine[i + 1].count
  /\ DOMAIN allocs = DOMAIN leak.hash

-----------------------------------------------------------------------------
(***************************************************************************)
(* debug_stdio.c, debug_func_log: programs that log into one directory.    *)
(* Each opens a file named by its prefix and the time, closes it when it   *)
(* is full, and removes the oldest of its files before it opens the next.  *)
(***************************************************************************)
CONSTANTS
  Prefix,       (* the programs, by their prefixes                         *)
  Begins,       (* pairs of prefixes: the second begins with the first     *)
  files_max, size_max,
  MaxNow        (* bound: ticks of 0.1 ms, which the names count           *)

VARIABLES
  now,    (* the clock                                                     *)
  files,  (* the directory: prefix and time of each file                   *)
  log,    (* per program: log_file # 0 and cur_size                        *)
  made    (* history: per program, the times of its files, oldest first    *)

logVars == <<now, files, log, made>>

(* debug_func_log_init.                                                    *)
LogInit ==
  /\ now = 1
  /\ files = {}
  /\ log = [f \in Prefix |-> [log_file |-> FALSE, cur_size |-> 0]]
  /\ made = [f \in Prefix |-> <<>>]

(* strncmp with the length of the prefix.                                  *)
Matches(f, file) == file.prefix = f \/ <<f, file.prefix>> \in Begins

(* dir_sorted, and the loop from its end: how many of the matching names   *)
(* are not before this one.  One of two prefixes that begin alike may come *)
(* first or last; the longer one has a letter where the other has a dash,  *)
(* which is less.                                                          *)
Behind(f, a, b) ==
  \/ a.prefix = b.prefix /\ a.at >= b.at
  \/ a.prefix # b.prefix /\ b.prefix = f

Count(f, file) == Cardinality({g \in files : Matches(f, g) /\ Behind(f, g, file)})

(* Mutant: one file too many is left.                                      *)
RotatedLate(f) == {file \in files : ~(Matches(f, file) /\ Count(f, file) > files_max)}

Rotated(f) == {file \in files : ~(Matches(f, file) /\ Count(f, file) >= files_max)}

(* The line goes to the open file; one that ends a line may close it.      *)
Written(s, len, newline) ==
  LET full == newline /\ s.cur_size + len >= size_max
  IN  IF full THEN [log_file |-> FALSE, cur_size |-> 0]
      ELSE [log_file |-> TRUE, cur_size |-> s.cur_size + len]

(* The old files are gone, and the new one cannot be opened.  (When the    *)
(* directory cannot be made or read nothing changes, and the line is lost  *)
(* too.)                                                                   *)
NoFile(f) ==
  /\ ~log[f].log_file
  /\ files' = Rotated(f)
  /\ log' = [log EXCEPT ![f].cur_size = 0]
  /\ UNCHANGED <<now, made>>

(* A new file.  Its line takes time.                                       *)
LogToNew(f, len, newline) ==
  /\ ~log[f].log_file
  /\ now < MaxNow
  /\ now' = now + 1
  /\ files' = Rotated(f) \cup {[prefix |-> f, at |-> now]}
  /\ log' = [log EXCEPT ![f] = Written([@ EXCEPT !.cur_size = 0], len, newline)]
  /\ made' = [made EXCEPT ![f] = Append(@, now)]

LogToOpen(f, len, newline) ==
  /\ log[f].log_file
  /\ log' = [log EXCEPT ![f] = Written(@, len, newline)]
  /\ UNCHANGED <<now, files, made>>

debug_func_log(f) ==
  \/ NoFile(f)
  \/ \E len \in 1..size_max, newline \in BOOLEAN :
       /\ log[f].cur_size + len <= 2 * size_max
       /\ LogToNew(f, len, newline) \/ LogToOpen(f, len, newline)

LogNext == \E f \in Prefix : debug_func_log(f)

LogSpec == LogInit /\ [][LogNext]_logVars

-----------------------------------------------------------------------------
(* The last n of a program's files.                                        *)
Newest(f, n) ==
  {[prefix |-> f, at |-> made[f][i]] : i \in {k \in DOMAIN made[f] : k > Len(made[f]) - n}}

Own(f) == {file \in files : file.prefix = f}

(* Of its files a program keeps the newest: all but one of files_max at    *)
(* least, not more than files_max, and what another program logs does not  *)
(* matter.                                                                 *)
NewestKept ==
  \A f \in Prefix : Newest(f, files_max - 1) \subseteq Own(f) /\ Own(f) \subseteq Newest(f, files_max)

(* Its inductive strengthening: the names of files tell their order.       *)
LogAssumption == files_max \in Nat \ {0}

LogTypeOK ==
  /\ now \in Nat
  /\ files \subseteq [prefix : Prefix, at : Nat]
  /\ made \in [Prefix -> Seq(Nat)]

InOrder ==
  \A f \in Prefix :
    \A i \in DOMAIN made[f] : made[f][i] < now /\ \A j \in 1..(i - 1) : made[f][j] < made[f][i]

LogIInv == LogTypeOK /\ InOrder /\ NewestKept
=============================================================================
