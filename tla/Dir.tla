-------------------------------- MODULE Dir --------------------------------
(***************************************************************************)
(* dir.c: dir_mkpath, as several processes call it for overlapping paths,  *)
(* and the last component of a path, as dir_filename and dir_basename and  *)
(* path2name of service.c find it.  errno is a variable of its own: a call *)
(* that succeeds leaves it as it was, and dir_mkpath asks it in the end.   *)
(***************************************************************************)
EXTENDS Integers, SequencesExt

CONSTANTS
  Proc,         (* processes                                               *)
  Path,         (* paths: sequences of names                               *)
  FirstExists,  (* whether the first component of every path is there      *)
  Chars,        (* the letters of texts: separators, dots and others       *)
  MaxText       (* bound: the length of a path as text                     *)

VARIABLES
  fs,      (* the directories that exist                                   *)
  denied,  (* those in which nobody may make another                       *)
  run      (* per process: dir, last, how far p is, errno, result or 1      *)

(* A path has a name at least.                                             *)
DirAssumption == Path \subseteq Seq(STRING) \ {<<>>} /\ MaxText \in Nat

vars == <<fs, denied, run>>

-----------------------------------------------------------------------------
Seps == {"/", "bs"}

IsSep(c) == c \in Seps

From(text, i) == SubSeq(text, i, Len(text))

(* Mutant: the search stops at the first separator.                        *)
FirstSep(text, i) == Min({k \in i..Len(text) : IsSep(text[k])} \cup {0})

(* The last separator at or behind i, or 0.                                *)
LastSep(text, i) == Max({k \in i..Len(text) : IsSep(text[k])} \cup {0})

(* dir_filename looks behind the first letter only.                        *)
dir_filename(text) == From(text, LastSep(text, 2) + 1)

(* With chop, what is left of dir.                                         *)
Chopped(text) ==
  IF LastSep(text, 2) = 0 THEN text ELSE SubSeq(text, 1, LastSep(text, 2) - 1)

(* dir_basename: separators at the end are skipped, but copied.            *)
dir_basename(text) ==
  LET ends == Max({k \in 1..Len(text) : ~IsSep(text[k])} \cup {1})
  IN  From(text, LastSep(SubSeq(text, 1, ends), 1) + 1)

(* path2name: without the extension; 0 when the path ends in a separator.  *)
path2name(text) ==
  LET name == From(text, LastSep(text, 1) + 1)
      dots == {k \in DOMAIN name : name[k] = "."}
  IN  IF dots = {} THEN name ELSE SubSeq(name, 1, Max(dots) - 1)

-----------------------------------------------------------------------------
Prefix(dir, n) == SubSeq(dir, 1, n)
Parent(dir) == Prefix(dir, Len(dir) - 1)
First == {Prefix(dir, 1) : dir \in Path}
Dirs == UNION {{Prefix(dir, n) : n \in 1..Len(dir)} : dir \in Path}

Init ==
  /\ fs = IF FirstExists THEN First ELSE {}
  /\ denied \in SUBSET Dirs
  /\ run \in [Proc -> [dir : Path, last : BOOLEAN, p : {0}, errno : {"other"},
                       ret : {1}]]

(* mkdir(2): 0, or the error.                                              *)
Outcome(dir) ==
  CASE dir \in fs -> "EEXIST"
    [] dir \notin fs /\ Len(dir) > 1 /\ Parent(dir) \notin fs -> "ENOENT"
    [] dir \notin fs /\ Parent(dir) \in denied -> "EACCES"
    [] OTHER -> "0"

dir_mkdir(dir) == fs' = IF Outcome(dir) = "0" THEN fs \cup {dir} ELSE fs

errno(p, dir) == IF Outcome(dir) = "0" THEN run[p].errno ELSE Outcome(dir)

Running(p) == run[p].ret = 1

(* A directory on the way: only errno remembers what mkdir said.           *)
MakeParent(p) ==
  LET dir == Prefix(run[p].dir, run[p].p + 1)
  IN  /\ Running(p)
      /\ run[p].p + 1 < Len(run[p].dir)
      /\ dir_mkdir(dir)
      /\ run' = [run EXCEPT ![p].p = @ + 1, ![p].errno = errno(p, dir)]
      /\ UNCHANGED denied

(* Mutant: a directory that exists is an error.                            *)
ReturnedStrict(err, error) == err

(* err && errno != EEXIST                                                  *)
Returned(err, error) == IF err # 0 /\ error # "EEXIST" THEN err ELSE 0

(* The last component is made if the caller wants it; err is -1 if not.    *)
MakeLast(p) ==
  /\ Running(p)
  /\ run[p].p + 1 = Len(run[p].dir)
  /\ run[p].last
  /\ LET dir == run[p].dir
         err == IF Outcome(dir) = "0" THEN 0 ELSE -1
     IN  /\ dir_mkdir(dir)
         /\ run' = [run EXCEPT ![p].errno = errno(p, dir),
                               ![p].ret = Returned(err, errno(p, dir))]
  /\ UNCHANGED denied

LeaveLast(p) ==
  /\ Running(p)
  /\ run[p].p + 1 = Len(run[p].dir)
  /\ ~run[p].last
  /\ run' = [run EXCEPT ![p].ret = Returned(-1, run[p].errno)]
  /\ UNCHANGED <<fs, denied>>

Next == \E p \in Proc : MakeParent(p) \/ MakeLast(p) \/ LeaveLast(p)

Spec == Init /\ [][Next]_vars

-----------------------------------------------------------------------------
(* dir_mkpath returns 0 exactly when the directories are there, whoever    *)
(* made them.                                                              *)
Wanted(p) == IF run[p].last THEN run[p].dir ELSE Parent(run[p].dir)

MadeOrTold ==
  \A p \in Proc : ~Running(p) => (run[p].ret = 0 <=> Wanted(p) \in fs)

(* Its inductive strengthening, for paths whose first component exists: a  *)
(* process that is on its way has found its last directory, or a directory *)
(* cannot be made before it, and nobody will ever make it.                 *)
TypeOK ==
  /\ fs \subseteq Dirs /\ denied \subseteq Dirs
  /\ run \in [Proc -> [dir : Path, last : BOOLEAN, p : Nat,
                       errno : {"other", "EEXIST", "ENOENT", "EACCES"}, ret : {1, 0, -1}]]

Closed == First \subseteq fs /\ \A dir \in fs : \A n \in 1..Len(dir) : Prefix(dir, n) \in fs

Blocked(dir) == \E n \in 2..Len(dir) : Prefix(dir, n - 1) \in denied /\ Prefix(dir, n) \notin fs

OnItsWay(p) ==
  LET dir == Prefix(run[p].dir, run[p].p)
  IN  IF run[p].p = 0 THEN run[p].errno = "other"
      ELSE IF run[p].errno = "EEXIST" THEN dir \in fs
      ELSE run[p].errno # "other" /\ Blocked(dir)

Answered(p) ==
  \/ run[p].ret = 0 /\ Wanted(p) \in fs
  \/ run[p].ret = -1 /\ (Wanted(p) = <<>> \/ Blocked(Wanted(p)))

IInv ==
  /\ TypeOK
  /\ Closed
  /\ \A p \in Proc : run[p].p < Len(run[p].dir) /\ IF Running(p) THEN OnItsWay(p) ELSE Answered(p)

(* A path as its parent, a separator, and a name.                          *)
IsSplit(path, parent, name) ==
  /\ \A k \in DOMAIN name : ~IsSep(name[k])
  /\ \/ parent = <<>> /\ name = path
     \/ \E c \in Seps : parent \o <<c>> \o name = path

(* For a path that does not end in a separator, and whose only separator   *)
(* is not its first letter, the three agree: what is chopped off is the    *)
(* name, and the service is called by it without its extension.            *)
NamesAgree ==
  \A path \in BoundedSeq(Chars, MaxText) \ {<<>>} :
    ~IsSep(Last(path)) /\ (IsSep(path[1]) => LastSep(path, 2) # 0) =>
      /\ IsSplit(path, IF LastSep(path, 2) = 0 THEN <<>> ELSE Chopped(path), dir_filename(path))
      /\ dir_basename(path) = dir_filename(path)
      /\ IsPrefix(path2name(path), dir_filename(path))
      /\ LET rest == From(dir_filename(path), Len(path2name(path)) + 1)
         IN  rest # <<>> => rest[1] = "." /\ \A k \in 2..Len(rest) : rest[k] # "."
=============================================================================
