------------------------------ MODULE SendList ------------------------------
(***************************************************************************)
(* sendlist.c: a queue of buffers, file ranges and shutdowns written to    *)
(* one non-blocking descriptor.  sendlist_flush writes from the head until *)
(* the descriptor blocks and registers for FDSELECT_WRITE while something  *)
(* is left.  free_func and flushed_func are called in the middle of the    *)
(* flush and may call back, so the calls in progress form a stack.         *)
(***************************************************************************)
EXTENDS Integers, FiniteSets, SequencesExt

CONSTANTS
  Sizes,        (* the lengths callers send                                *)
  MaxSends,     (* bound: how many sendbufs are ever queued                *)
  MaxDepth,     (* bound: how deeply callbacks call back                   *)
  TxMax,        (* bytes the kernel queues before a write blocks           *)
  FreeMaySend,  (* whether a free_func calls sendlist_send                 *)
  FileEnd       (* offset at which the files sent really end               *)

ASSUME SendListAssumption ==
  /\ Sizes \subseteq Nat
  /\ MaxSends \in Nat
  /\ MaxDepth \in Nat
  /\ TxMax \in Nat \ {0}
  /\ FreeMaySend \in BOOLEAN
  /\ FileEnd \in Nat

VARIABLES
  sendbufs,   (* the queue                                                 *)
  stack,      (* the calls in progress, innermost first, see Frame         *)
  selected,   (* send_fd is registered for FDSELECT_WRITE                  *)
  err,        (* what the last flush returned                              *)
  sizes,      (* the requested length of every sendbuf, by id              *)
  wire,       (* the bytes written: <<id, offset>>                         *)
  shut,       (* the sendbuf that shut the connection down, or 0           *)
  drained,    (* how much of wire the remote end took                      *)
  broken,     (* the connection failed                                     *)
  freed       (* the ids free_func was called with: <<id, where>>          *)

vars == <<sendbufs, stack, selected, err, sizes, wire, shut, drained, broken, freed>>

(* "flush": in the loop of sendlist_flush; "free": its free_func runs;     *)
(* "flushed": flushed_func runs; "close": in sendlist_close; "closefree":  *)
(* a free_func called by it runs.                                          *)
Frame == {"flush", "free", "flushed", "close", "closefree"}

Sendbuf == [id : 1..MaxSends, kind : {"buf", "fd", "shutdown"}, off : Nat, len : Nat]

Init ==
  /\ sendbufs = <<>>
  /\ stack = <<>>
  /\ selected = FALSE
  /\ err = 0
  /\ sizes = <<>>
  /\ wire = <<>>
  /\ shut = 0
  /\ drained = 0
  /\ broken = FALSE
  /\ freed = <<>>

Top == IF stack = <<>> THEN "app" ELSE Head(stack)

Push(f) == stack' = <<f>> \o stack

Replace(f) == stack' = <<f>> \o Tail(stack)

CanCall ==
  /\ Top \in {"app", "flushed"} \cup (IF FreeMaySend THEN {"free"} ELSE {})
  /\ Len(stack) <= MaxDepth

sendlist_peek == sendbufs[1]

-----------------------------------------------------------------------------
(* The kernel.                                                             *)
Room == TxMax - (Len(wire) - drained)

WriteFails == broken \/ shut # 0

Kernel ==
  /\ \/ /\ drained < Len(wire)
        /\ drained' = drained + 1
        /\ UNCHANGED broken
     \/ /\ ~broken
        /\ broken' = TRUE
        /\ UNCHANGED drained
  /\ UNCHANGED <<sendbufs, stack, selected, err, sizes, wire, shut, freed>>

-----------------------------------------------------------------------------
(* sendlist_send: queue and flush.  sendlist_send_buf and _fd carry bytes, *)
(* sendlist_shutdown none.                                                 *)
sendlist_send(kind, n) ==
  /\ CanCall
  /\ Len(sizes) < MaxSends
  /\ sizes' = Append(sizes, n)
  /\ sendbufs' = Append(sendbufs, [id |-> Len(sizes) + 1, kind |-> kind, off |-> 0, len |-> n])
  /\ Push("flush")
  /\ UNCHANGED <<selected, err, wire, shut, drained, broken, freed>>

sendlist_select_write ==
  /\ Top = "app"
  /\ selected
  /\ Room > 0 \/ WriteFails
  /\ Push("flush")
  /\ UNCHANGED <<sendbufs, selected, err, sizes, wire, shut, drained, broken, freed>>

(* Mutant: a flush never registers for WRITE.                              *)
FlushEndForgets(e) ==
  /\ err' = e
  /\ selected' = FALSE
  /\ Replace("flushed")

(* The end of sendlist_flush, up to the call of flushed_func.              *)
FlushEnd(e) ==
  /\ err' = e
  /\ selected' = (e > 0)
  /\ Replace("flushed")

FlushEmpty ==
  /\ Top = "flush"
  /\ sendbufs = <<>>
  /\ FlushEnd(0)
  /\ UNCHANGED <<sendbufs, sizes, wire, shut, drained, broken, freed>>

(* How many bytes one write or sendfile moves: all there is room for, and  *)
(* no more than the file holds.  None when it would block.                 *)
Moved(b) ==
  LET held == IF b.kind = "fd" THEN FileEnd - b.off ELSE b.len
      n    == IF b.len < Room THEN b.len ELSE Room
  IN  IF held < 0 THEN 0 ELSE IF held < n THEN held ELSE n

(* Mutant: a partial write does not move the offset.                       *)
AdvancedKeepsOff(b, n) == [b EXCEPT !.len = @ - n]

(* Mutant: a write is taken to be complete.                                *)
AdvancedAll(b, n) == [b EXCEPT !.off = @ + n, !.len = 0]

(* Mutant: the length loses one byte too many.                             *)
AdvancedTooFar(b, n) == [b EXCEPT !.off = @ + n, !.len = @ - n - 1]

Advanced(b, n) == [b EXCEPT !.off = @ + n, !.len = @ - n]

(* Write what fits.  Something left: wait for WRITE and return 1.          *)
(* Everything written: free the head.                                      *)
FlushWrite ==
  /\ Top = "flush"
  /\ sendbufs # <<>>
  /\ sendlist_peek.kind # "shutdown"
  /\ ~WriteFails
  /\ LET b == sendlist_peek
         n == Moved(b)
         after == Advanced(b, n)
     IN  /\ wire' = wire \o [i \in 1..n |-> <<b.id, b.off + i - 1>>]
         /\ sendbufs' = [sendbufs EXCEPT ![1] = after]
         /\ IF after.len > 0
            THEN FlushEnd(1) /\ UNCHANGED freed
            ELSE /\ Replace("free")
                 /\ freed' = Append(freed, <<b.id, "sent">>)
                 /\ UNCHANGED <<selected, err>>
  /\ UNCHANGED <<sizes, shut, drained, broken>>

(* A queued shutdown reached the head.                                     *)
FlushShutdown ==
  /\ Top = "flush"
  /\ sendbufs # <<>>
  /\ sendlist_peek.kind = "shutdown"
  /\ ~broken
  /\ shut' = IF shut = 0 THEN sendlist_peek.id ELSE shut
  /\ Replace("free")
  /\ freed' = Append(freed, <<sendlist_peek.id, "sent">>)
  /\ UNCHANGED <<sendbufs, selected, err, sizes, wire, drained, broken>>

(* A write or shutdown fails: the head stays, flushed_func gets the error. *)
FlushError ==
  /\ Top = "flush"
  /\ sendbufs # <<>>
  /\ broken \/ (shut # 0 /\ sendlist_peek.kind # "shutdown")
  /\ FlushEnd(-1)
  /\ UNCHANGED <<sendbufs, sizes, wire, shut, drained, broken, freed>>

(* Mutant: the last element is removed instead of the head.                *)
FreeReturnLast ==
  /\ Top \in {"free", "closefree"}
  /\ sendbufs' = RemoveAt(sendbufs, Len(sendbufs))
  /\ Replace(IF Top = "free" THEN "flush" ELSE "close")
  /\ UNCHANGED <<selected, err, sizes, wire, shut, drained, broken, freed>>

(* free_func returns to sendlist_shift, which now removes the head,        *)
(* whichever sendbuf that is.                                              *)
FreeReturn ==
  /\ Top \in {"free", "closefree"}
  /\ sendbufs' = RemoveAt(sendbufs, 1)
  /\ Replace(IF Top = "free" THEN "flush" ELSE "close")
  /\ UNCHANGED <<selected, err, sizes, wire, shut, drained, broken, freed>>

FlushedReturn ==
  /\ Top = "flushed"
  /\ stack' = Tail(stack)
  /\ UNCHANGED <<sendbufs, selected, err, sizes, wire, shut, drained, broken, freed>>

(* sendlist_close: shift until the queue is empty, then stop selecting.    *)
sendlist_close ==
  /\ CanCall
  /\ Push("close")
  /\ UNCHANGED <<sendbufs, selected, err, sizes, wire, shut, drained, broken, freed>>

CloseShift ==
  /\ Top = "close"
  /\ sendbufs # <<>>
  /\ freed' = Append(freed, <<sendlist_peek.id, "closed">>)
  /\ Replace("closefree")
  /\ UNCHANGED <<sendbufs, selected, err, sizes, wire, shut, drained, broken>>

(* Mutant: the registration outlives the queue.                            *)
CloseDoneStaysSelected ==
  /\ Top = "close"
  /\ sendbufs = <<>>
  /\ stack' = Tail(stack)
  /\ UNCHANGED <<sendbufs, selected, err, sizes, wire, shut, drained, broken, freed>>

CloseDone ==
  /\ Top = "close"
  /\ sendbufs = <<>>
  /\ selected' = FALSE
  /\ stack' = Tail(stack)
  /\ UNCHANGED <<sendbufs, err, sizes, wire, shut, drained, broken, freed>>

Thread ==
  \/ sendlist_select_write
  \/ FlushEmpty
  \/ FlushWrite
  \/ FlushShutdown
  \/ FlushError
  \/ FreeReturn
  \/ FlushedReturn
  \/ CloseShift
  \/ CloseDone

Next ==
  \/ \E kind \in {"buf", "fd"}, n \in Sizes : sendlist_send(kind, n)
  \/ sendlist_send("shutdown", 0)
  \/ sendlist_close
  \/ Thread
  \/ Kernel

Spec == Init /\ [][Next]_vars

(* The select loop runs and the remote end takes what it is sent.          *)
FairSpec ==
  Spec /\ WF_vars(Thread) /\ WF_vars(Kernel /\ drained' # drained)

-----------------------------------------------------------------------------
TypeOK ==
  /\ sendbufs \in Seq(Sendbuf)
  /\ stack \in Seq(Frame)
  /\ selected \in BOOLEAN
  /\ err \in {-1, 0, 1}
  /\ sizes \in Seq(Sizes \cup {0})
  /\ wire \in Seq((1..MaxSends) \X Nat)
  /\ shut \in 0..MaxSends
  /\ drained \in 0..Len(wire)
  /\ broken \in BOOLEAN
  /\ freed \in Seq((1..MaxSends) \X {"sent", "closed"})

FreedIds == {freed[i][1] : i \in DOMAIN freed}
QueuedIds == {sendbufs[i].id : i \in DOMAIN sendbufs}
BytesOf(id) == {j \in DOMAIN wire : wire[j][1] = id}

(* The stream is what callers queued, in the order they queued it: a byte  *)
(* follows the byte before it in its sendbuf, or begins a later sendbuf,   *)
(* and nothing follows a shutdown.                                         *)
WireInOrder ==
  /\ \A i \in 1..(Len(wire) - 1) :
       \/ wire[i + 1] = <<wire[i][1], wire[i][2] + 1>>
       \/ wire[i + 1][1] > wire[i][1] /\ wire[i + 1][2] = 0
  /\ shut # 0 => \A i \in DOMAIN wire : wire[i][1] < shut

(* "Calls free_func when the buffer has been completely sent": a sendbuf   *)
(* freed by the flush is on the wire to its last byte.                     *)
FreedWhenSent ==
  \A i \in DOMAIN freed : freed[i][2] = "sent" =>
    Cardinality(BytesOf(freed[i][1])) = sizes[freed[i][1]]

(* free_func is called at most once for a sendbuf, by the flush or by      *)
(* sendlist_close.                                                         *)
FreedOnce == Len(freed) = Cardinality(FreedIds)

(* Every sendbuf is either queued or was freed once, and none is           *)
(* forgotten.  The one whose free_func is running is still in the queue.   *)
Accounted ==
  /\ FreedOnce
  /\ DOMAIN sizes = FreedIds \cup QueuedIds
  /\ Top \notin {"free", "closefree"} => FreedIds \cap QueuedIds = {}

(* Between calls the registration is there exactly while something is      *)
(* pending, unless the last flush failed.                                  *)
PendingSelected ==
  Top = "app" => (selected <=> (sendbufs # <<>> /\ err # -1))

(* What the remote end gets, and what the callers of the list are told.    *)
SentInOrder == TypeOK /\ WireInOrder /\ FreedWhenSent /\ Accounted /\ PendingSelected

(* A sendbuf that is queued is sent in the end, or the connection fails    *)
(* (a write after the shutdown included), or its owner closes the list.    *)
SentOrFailed ==
  \A id \in 1..MaxSends : (id \in QueuedIds) ~> (id \in FreedIds \/ err = -1)
=============================================================================
