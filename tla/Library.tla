------------------------------ MODULE Library ------------------------------
(***************************************************************************)
(* What programs are built from: containers and what accounts for memory,  *)
(* settings, certificates, files and packets.  The parts share no state,   *)
(* so a behaviour is one of them, the others stay as they are: HashTable,  *)
(* which this module extends, or one of the instances, whose variables are *)
(* v1 and on.                                                              *)
(***************************************************************************)
EXTENDS HashTable

CONSTANTS
  Elt, BlockSz, MaxCells, AnyInsert,            (* Array                   *)
  Ptr, MaxRefs,                                 (* Pool                    *)
  ListNode,                                     (* LList                   *)
  Alloc, Place, MaxCreates, MaxStack,           (* Debug                   *)
  Proc,                                         (* the programs            *)
  Value, Item, MruMax,                          (* Cfg                     *)
  Host, expire, MaxNow, MaxKeys,                (* CfgCrypt                *)
  Ns,                                           (* NsTool                  *)
  Path, FirstExists, Chars, MaxText,            (* Dir                     *)
  Program, Begins, files_max, size_max, LogEnd, (* Debug                   *)
  Handle, Concurrent, GoesOn, blocksz, MaxLen,  (* Mmap                    *)
  PktByte, OptByte, MaxBody                     (* NetPkt                  *)

VARIABLES which, v1, v2, v3, v4, v5, v6, v7

-----------------------------------------------------------------------------
(* The variables from one on that a part has no use for.                   *)
v7on == <<v7>>
v6on == <<v6, v7on>>
v5on == <<v5, v6on>>
v4on == <<v4, v5on>>
v3on == <<v3, v4on>>
v1on == <<v1, v2, v3on>>
Off7 == v7 = 0
Off6 == v6 = 0 /\ Off7
Off5 == v5 = 0 /\ Off6
Off4 == v4 = 0 /\ Off5
Off3 == v3 = 0 /\ Off4
Off2 == v2 = 0 /\ Off3
Off1 == v1 = 0 /\ Off2

allVars == <<which, v1on, vars>>

-----------------------------------------------------------------------------
A == INSTANCE Array WITH
       m_array <- v1, m_count <- v2, m_max <- v3, lost <- v4, outside <- v5
P == INSTANCE Pool WITH pool <- v1, refs <- v2, dst <- v3
L == INSTANCE LList WITH Node <- ListNode, links <- v1, list <- v2
B == INSTANCE Debug WITH
       Ptr <- Alloc, Prefix <- Program, leak <- v1, allocs <- v2, known <- v3,
       MaxNow <- LogEnd, now <- v1, files <- v2, log <- v3, made <- v4
C == INSTANCE Cfg WITH
       home <- v1, file <- v2, put <- v3, latest <- v4, mixed <- v5, recent <- v6, used <- v7
S == INSTANCE CfgCrypt WITH
       now <- v1, stored <- v2, call <- v3, keys <- v4, last <- v5, quiet <- v6
N == INSTANCE NsTool WITH dir <- v1, mounts <- v2, files <- v3, proc <- v4, raced <- v5
D == INSTANCE Dir WITH fs <- v1, denied <- v2, run <- v3
M == INSTANCE Mmap WITH file <- v1, mm <- v2, content <- v3
E == INSTANCE NetPkt WITH Byte <- PktByte, pkt <- v1, sums <- v2

(* What the theorems ask of the constants: 0 is the null pointer, and -1   *)
(* the head of a list.                                                     *)
ASSUME LibraryAssumption ==
  /\ ListNode \subseteq Nat \ {0}
  /\ 0 \notin Ptr /\ MaxRefs \in Nat
  /\ BlockSz \in Nat /\ MaxCells \in Nat
  /\ D!DirAssumption /\ M!MmapAssumption /\ N!NsAssumption /\ B!LogAssumption

-----------------------------------------------------------------------------
PartInit ==
  \/ which = "hash" /\ Off1
  \/ which = "array" /\ A!Init /\ Off6
  \/ which = "pool" /\ P!Init /\ Off4
  \/ which = "list" /\ L!Init /\ Off3
  \/ which = "leak" /\ B!LeakInit /\ Off4
  \/ which = "cfg" /\ C!Init
  \/ which = "cert" /\ S!Init /\ Off7
  \/ which = "ns" /\ N!Init /\ Off6
  \/ which = "dir" /\ D!Init /\ Off4
  \/ which = "log" /\ B!LogInit /\ Off5
  \/ which = "mmap" /\ M!Init /\ Off4
  \/ which = "packet" /\ E!Init /\ Off3

AllInit == Init /\ PartInit

HashStep == which = "hash" /\ Next /\ UNCHANGED <<which, v1on>>
ArrayStep == which = "array" /\ A!Next /\ UNCHANGED <<which, v6on, vars>>
PoolStep == which = "pool" /\ P!Next /\ UNCHANGED <<which, v4on, vars>>
ListStep == which = "list" /\ L!Next /\ UNCHANGED <<which, v3on, vars>>
LeakStep == which = "leak" /\ B!LeakNext /\ UNCHANGED <<which, v4on, vars>>
CfgStep == which = "cfg" /\ C!Next /\ UNCHANGED <<which, vars>>
CertStep == which = "cert" /\ S!Next /\ UNCHANGED <<which, v7on, vars>>
NsStep == which = "ns" /\ N!Next /\ UNCHANGED <<which, v6on, vars>>
DirStep == which = "dir" /\ D!Next /\ UNCHANGED <<which, v4on, vars>>
LogStep == which = "log" /\ B!LogNext /\ UNCHANGED <<which, v5on, vars>>
MmapStep == which = "mmap" /\ M!Next /\ UNCHANGED <<which, v4on, vars>>
PacketStep == which = "packet" /\ E!Next /\ UNCHANGED <<which, v3on, vars>>

AllNext ==
  \/ HashStep \/ ArrayStep \/ PoolStep \/ ListStep \/ LeakStep
  \/ CfgStep \/ CertStep
  \/ NsStep \/ DirStep \/ LogStep \/ MmapStep \/ PacketStep

AllSpec == AllInit /\ [][AllNext]_allVars

-----------------------------------------------------------------------------
(* hash_foreach visits every node once, in a table whose nodes are where   *)
(* they are looked for: see HashTable.                                     *)
TableKept == TypeOK /\ WellPlaced /\ VisitsAll

(* array.c implements a list: see Array's IsList.                          *)
IsList == [][which = "array" => A!ListStep]_allVars

(* No array is written outside of its block; a pool frees what nobody      *)
(* refers to, once; a list is the same from both ends: see Array's         *)
(* InsideBlock, Pool's Counted and LList's BothWays.                       *)
MemoryKept ==
  /\ which = "array" => A!InsideBlock
  /\ which = "pool" => P!Counted
  /\ which = "list" => L!BothWays

(* What was put last is what the next program gets: a value, the list of   *)
(* the last used, the certificate; see Cfg and CfgCrypt.                   *)
ConfigKept ==
  /\ which = "cfg" => C!Layered /\ C!RecentFirst /\ C!ListReadBack
  /\ which = "cert" => S!StoredAsReturned

(* Directories that are made or said not to be, and the names in their     *)
(* paths, the newest logs, a file with what was written to it, and         *)
(* namespaces that can be deleted again: see Dir, Debug, Mmap and NsTool.  *)
FilesKept ==
  /\ which = "dir" => D!MadeOrTold /\ D!NamesAgree
  /\ which = "log" => B!NewestKept
  /\ which = "mmap" => M!FileHolds
  /\ which = "ns" => N!Deletable

(* Checksums fit what is sent and options are walked to their end: see     *)
(* NetPkt.                                                                 *)
PacketsRead == which = "packet" => E!PacketIntact /\ E!OptionsWalked
=============================================================================
