---------------------------- MODULE FdselectPipe ----------------------------
(***************************************************************************)
(* fdselect_pipe.c: a bidirectional buffered pipe between two non-blocking *)
(* sockets.  Socket s reads into its own buffer and writes from the buffer *)
(* of its peer.  The two handlers run on the fdselect thread, one at a     *)
(* time; between two system calls of a handler the kernel and the remote   *)
(* ends may do anything.  SIGPIPE is ignored: a write to a dead connection *)
(* is an error return.  The pipe has no callback, so the CLOSED event is   *)
(* fdselect_pipe_close(pipe, 1).                                           *)
(***************************************************************************)
EXTENDS Integers, Sequences, FiniteSets

CONSTANTS
  max,      (* the size of each socket's read buffer                       *)
  NBytes,   (* bound: bytes each remote end sends                          *)
  TxMax,    (* bytes the kernel queues on a socket before a write blocks   *)
  MayReset  (* the sockets whose connection the remote end may reset       *)

Sock == {0, 1}

Peer(s) == 1 - s

ASSUME PipeAssumption ==
  /\ max \in [Sock -> Nat \ {0}]
  /\ NBytes \in [Sock -> Nat]
  /\ TxMax \in Nat \ {0}
  /\ MayReset \subseteq Sock

VARIABLES
  (* struct fdselect_pipe_sock_t, one field per variable                   *)
  err_read, err_write, err_read_done, select_read, select_write,
  off, len, buf,
  (* the fdselect registrations of the two sockets                         *)
  reg,
  (* the thread: where it is, on which socket, and whether the write       *)
  (* handler was called from the read handler of the peer                  *)
  pc, cur, nested,
  closed,   (* how often the CLOSED event was raised                       *)
  (* the kernel, per socket: bytes the remote end wrote, bytes received,   *)
  (* end of stream, reset, bytes sent, sent bytes the remote end took      *)
  written, rcvd, fin, reset, sent, drained,
  shut      (* the shutdown calls made                                     *)

flagVars == <<err_read, err_write, err_read_done, select_read, select_write>>
bufVars == <<off, len, buf>>
threadVars == <<pc, cur, nested>>
remoteVars == <<written, fin, reset, drained>>
vars == <<flagVars, bufVars, reg, threadVars, closed, remoteVars, rcvd, sent, shut>>

Init ==
  /\ err_read = [s \in Sock |-> FALSE]
  /\ err_write = [s \in Sock |-> FALSE]
  /\ err_read_done = [s \in Sock |-> FALSE]
  /\ select_read = [s \in Sock |-> TRUE]
  /\ select_write = [s \in Sock |-> FALSE]
  /\ off = [s \in Sock |-> 0]
  /\ len = [s \in Sock |-> 0]
  /\ buf = [s \in Sock |-> [i \in 0..(max[s] - 1) |-> 0]]
  /\ reg = {<<s, "READ">> : s \in Sock}
  /\ pc = "select"
  /\ cur = 0
  /\ nested = FALSE
  /\ closed = 0
  /\ written = [s \in Sock |-> 0]
  /\ rcvd = [s \in Sock |-> 0]
  /\ fin = [s \in Sock |-> FALSE]
  /\ reset = [s \in Sock |-> FALSE]
  /\ sent = [s \in Sock |-> <<>>]
  /\ drained = [s \in Sock |-> 0]
  /\ shut = {}

-----------------------------------------------------------------------------
(* The kernel.  Received bytes are read before the end of the stream is    *)
(* seen; a reset drops them.                                               *)
Avail(s) == IF reset[s] THEN 0 ELSE written[s] - rcvd[s]

Eof(s) == reset[s] \/ fin[s] \/ <<s, "RECV">> \in shut

Room(s) == TxMax - (Len(sent[s]) - drained[s])

WriteFails(s) == reset[s] \/ <<s, "SEND">> \in shut

Ready(s, e) ==
  IF e = "READ" THEN Avail(s) > 0 \/ Eof(s) ELSE Room(s) > 0 \/ WriteFails(s)

(* The remote ends.                                                        *)
RemoteSend(s) ==
  /\ written[s] < NBytes[s]
  /\ ~fin[s]
  /\ ~reset[s]
  /\ written' = [written EXCEPT ![s] = @ + 1]
  /\ UNCHANGED <<fin, reset, drained>>

RemoteFin(s) ==
  /\ ~fin[s]
  /\ ~reset[s]
  /\ fin' = [fin EXCEPT ![s] = TRUE]
  /\ UNCHANGED <<written, reset, drained>>

RemoteReset(s) ==
  /\ s \in MayReset
  /\ ~reset[s]
  /\ reset' = [reset EXCEPT ![s] = TRUE]
  /\ UNCHANGED <<written, fin, drained>>

RemoteDrain(s) ==
  /\ drained[s] < Len(sent[s])
  /\ ~reset[s]
  /\ drained' = [drained EXCEPT ![s] = @ + 1]
  /\ UNCHANGED <<written, fin, reset>>

(* Once the pipe has closed its sockets the remote ends are out of reach.  *)
Remote(s) ==
  /\ closed = 0
  /\ RemoteSend(s) \/ RemoteFin(s) \/ RemoteReset(s) \/ RemoteDrain(s)
  /\ UNCHANGED <<flagVars, bufVars, reg, threadVars, closed, rcvd, sent, shut>>

-----------------------------------------------------------------------------
(* fdselect calls the handler of a registered event that is ready.         *)
Dispatch(s, e) ==
  /\ pc = "select"
  /\ <<s, e>> \in reg
  /\ Ready(s, e)
  /\ pc' = IF e = "READ" THEN "recv" ELSE "send"
  /\ cur' = s
  /\ nested' = FALSE
  /\ UNCHANGED <<flagVars, bufVars, reg, closed, remoteVars, rcvd, sent, shut>>

(* fdselect_set or fdselect_unset of e, called only when the flag changes. *)
Select(R, e, was, now) ==
  CASE now /\ ~was -> R \cup {e}
    [] was /\ ~now -> R \ {e}
    [] OTHER       -> R

(* fdselect_pipe_closed_callback, given the new flags and registrations.   *)
ClosedCallback(sr, sw, R) ==
  IF \E s \in Sock : sr[s] \/ sw[s]
  THEN reg' = R /\ UNCHANGED closed
  ELSE reg' = {} /\ closed' = closed + 1

(* fdselect_pipe_sock_read leaves its loop and calls                       *)
(* fdselect_pipe_sock_write on the peer.                                   *)
CallWrite ==
  /\ pc' = "send"
  /\ cur' = Peer(cur)
  /\ nested' = TRUE

Filled(s) == off[s] + len[s]

(* Mutant: bytes are received at the start of the free buffer even when    *)
(* older bytes are still in front.                                         *)
RecvSomeAtLen ==
  /\ pc = "recv"
  /\ \E n \in 1..(max[cur] - Filled(cur)) :
       /\ n <= Avail(cur)
       /\ rcvd' = [rcvd EXCEPT ![cur] = @ + n]
       /\ len' = [len EXCEPT ![cur] = @ + n]
       /\ buf' = [buf EXCEPT ![cur] = [i \in 0..(max[cur] - 1) |->
                    IF i \in len[cur]..(len[cur] + n - 1)
                    THEN rcvd[cur] + 1 + i - len[cur] ELSE @[i]]]
  /\ UNCHANGED <<flagVars, off, reg, threadVars, closed, remoteVars, sent, shut>>

(* One turn of the receive loop: bytes go behind the ones buffered.        *)
RecvSome ==
  /\ pc = "recv"
  /\ \E n \in 1..(max[cur] - Filled(cur)) :
       /\ n <= Avail(cur)
       /\ rcvd' = [rcvd EXCEPT ![cur] = @ + n]
       /\ len' = [len EXCEPT ![cur] = @ + n]
       /\ buf' = [buf EXCEPT ![cur] = [i \in 0..(max[cur] - 1) |->
                    IF i \in Filled(cur)..(Filled(cur) + n - 1)
                    THEN rcvd[cur] + 1 + i - Filled(cur) ELSE @[i]]]
  /\ UNCHANGED <<flagVars, off, reg, threadVars, closed, remoteVars, sent, shut>>

(* The buffer is full, or recv would block.                                *)
RecvStop ==
  /\ pc = "recv"
  /\ Filled(cur) >= max[cur] \/ (Avail(cur) = 0 /\ ~Eof(cur))
  /\ CallWrite
  /\ UNCHANGED <<flagVars, bufVars, reg, closed, remoteVars, rcvd, sent, shut>>

(* Mutant: the read handler returns at the end of the stream without       *)
(* calling the write handler.                                              *)
RecvEndReturns ==
  /\ pc = "recv"
  /\ Filled(cur) < max[cur]
  /\ Avail(cur) = 0
  /\ Eof(cur)
  /\ err_read' = [err_read EXCEPT ![cur] = TRUE]
  /\ shut' = shut \cup {<<cur, "RECV">>}
  /\ reg' = reg \ {<<cur, "READ">>}
  /\ pc' = "rpost"
  /\ cur' = Peer(cur)
  /\ UNCHANGED <<err_write, err_read_done, select_read, select_write, bufVars, nested,
                 closed, remoteVars, rcvd, sent>>

(* End of stream or read error: no more reads; select_read still stands.   *)
RecvEnd ==
  /\ pc = "recv"
  /\ Filled(cur) < max[cur]
  /\ Avail(cur) = 0
  /\ Eof(cur)
  /\ err_read' = [err_read EXCEPT ![cur] = TRUE]
  /\ shut' = shut \cup {<<cur, "RECV">>}
  /\ reg' = reg \ {<<cur, "READ">>}
  /\ CallWrite
  /\ UNCHANGED <<err_write, err_read_done, select_read, select_write, bufVars,
                 closed, remoteVars, rcvd, sent>>

WantRead(s) == Filled(s) < max[s] /\ ~err_read[s]

(* Mutant: the read handler does not look whether the pipe is done.        *)
ReadDoneNoCallback ==
  /\ pc = "rpost"
  /\ LET s == Peer(cur)
     IN  /\ select_read' = [select_read EXCEPT ![s] = WantRead(s)]
         /\ reg' = Select(reg, <<s, "READ">>, select_read[s], WantRead(s))
  /\ pc' = "select"
  /\ UNCHANGED <<err_read, err_write, err_read_done, select_write, bufVars, cur, nested,
                 closed, remoteVars, rcvd, sent, shut>>

(* The rest of fdselect_pipe_sock_read, after the nested write.  cur is    *)
(* still the socket that was written.                                      *)
ReadDone ==
  /\ pc = "rpost"
  /\ LET s == Peer(cur)
     IN  /\ select_read' = [select_read EXCEPT ![s] = WantRead(s)]
         /\ ClosedCallback(select_read', select_write,
              Select(reg, <<s, "READ">>, select_read[s], WantRead(s)))
  /\ pc' = "select"
  /\ UNCHANGED <<err_read, err_write, err_read_done, select_write, bufVars, cur, nested,
                 remoteVars, rcvd, sent, shut>>

-----------------------------------------------------------------------------
(* The offset of buffer s after n bytes left it.                           *)
OffsetAfter(s, n) == IF len[s] = n THEN 0 ELSE off[s] + n

(* One turn of the send loop of fdselect_pipe_sock_write: socket cur sends *)
(* from the buffer of its peer.                                            *)
SendSome ==
  LET s == Peer(cur)
  IN  /\ pc = "send"
      /\ ~WriteFails(cur)
      /\ \E n \in 1..len[s] :
           /\ n <= Room(cur)
           /\ sent' = [sent EXCEPT ![cur] = @ \o [i \in 1..n |-> buf[s][off[s] + i - 1]]]
           /\ off' = [off EXCEPT ![s] = OffsetAfter(s, n)]
           /\ len' = [len EXCEPT ![s] = @ - n]
      /\ UNCHANGED <<flagVars, buf, reg, threadVars, closed, remoteVars, rcvd, shut>>

(* Nothing to send, or send would block.                                   *)
SendStop ==
  /\ pc = "send"
  /\ len[Peer(cur)] = 0 \/ (Room(cur) = 0 /\ ~WriteFails(cur))
  /\ pc' = "wpost"
  /\ UNCHANGED <<flagVars, bufVars, reg, cur, nested, closed, remoteVars, rcvd, sent, shut>>

(* Mutant: the -1 of a failed send is counted as bytes sent.               *)
SendErrorCounted ==
  LET s == Peer(cur)
  IN  /\ pc = "send"
      /\ len[s] > 0
      /\ WriteFails(cur)
      /\ pc' = "wpost"
      /\ off' = [off EXCEPT ![s] = @ - 1]
      /\ len' = [len EXCEPT ![s] = @ + 1]
      /\ UNCHANGED <<flagVars, buf, reg, cur, nested, closed, remoteVars, rcvd, sent, shut>>

(* Mutant: the flag is cleared but the registration stays.                 *)
SendErrorKeepsReg ==
  LET s == Peer(cur)
  IN  /\ pc = "send"
      /\ len[s] > 0
      /\ WriteFails(cur)
      /\ pc' = "wpost"
      /\ err_write' = [err_write EXCEPT ![cur] = TRUE]
      /\ shut' = shut \cup {<<s, "RECV">>}
      /\ select_read' = [select_read EXCEPT ![s] = FALSE]
      /\ UNCHANGED <<err_read, err_read_done, select_write, bufVars, reg, cur, nested, closed,
                     remoteVars, rcvd, sent>>

(* Write error: stop reading the peer.                                     *)
SendError ==
  LET s == Peer(cur)
  IN  /\ pc = "send"
      /\ len[s] > 0
      /\ WriteFails(cur)
      /\ pc' = "wpost"
      /\ err_write' = [err_write EXCEPT ![cur] = TRUE]
      /\ shut' = shut \cup {<<s, "RECV">>}
      /\ select_read' = [select_read EXCEPT ![s] = FALSE]
      /\ reg' = Select(reg, <<s, "READ">>, select_read[s], FALSE)
      /\ UNCHANGED <<err_read, err_read_done, select_write, bufVars, cur, nested, closed,
                     remoteVars, rcvd, sent>>

(* Mutant: the end of stream is passed on at once, buffered bytes or not.  *)
ShutNowBeforeDrain(s) == err_read[s] /\ ~err_read_done[s]

(* Mutant: writing is not selected when some bytes are left.               *)
WantWriteOnlyFull(s) == len[Peer(s)] >= max[Peer(s)] /\ ~err_write[s]

WantWrite(s) == len[Peer(s)] > 0 /\ ~err_write[s]

(* The end of stream of s is passed on once its buffer is empty.           *)
ShutNow(s) == ~WantWrite(Peer(s)) /\ err_read[s] /\ ~err_read_done[s]

(* The rest of fdselect_pipe_sock_write: the new registrations, the end of *)
(* the stream, the CLOSED event; back to the caller.                       *)
WriteDone ==
  LET s == Peer(cur)
  IN  /\ pc = "wpost"
      /\ select_read' = [select_read EXCEPT ![s] = @ \/ WantRead(s)]
      /\ select_write' = [select_write EXCEPT ![cur] = WantWrite(cur)]
      /\ err_read_done' = [err_read_done EXCEPT ![s] = @ \/ ShutNow(s)]
      /\ shut' = IF ShutNow(s) THEN shut \cup {<<cur, "SEND">>} ELSE shut
      /\ ClosedCallback(select_read', select_write',
           Select(Select(reg, <<s, "READ">>, select_read[s], select_read'[s]),
                  <<cur, "WRITE">>, select_write[cur], WantWrite(cur)))
      /\ pc' = IF nested THEN "rpost" ELSE "select"
      /\ UNCHANGED <<err_read, err_write, bufVars, cur, nested, remoteVars, rcvd, sent>>

Thread ==
  \/ \E s \in Sock, e \in {"READ", "WRITE"} : Dispatch(s, e)
  \/ RecvSome
  \/ RecvStop
  \/ RecvEnd
  \/ ReadDone
  \/ SendSome
  \/ SendStop
  \/ SendError
  \/ WriteDone

Next == Thread \/ \E s \in Sock : Remote(s)

(* The thread keeps running its select loop and the remote ends keep       *)
(* taking the bytes sent to them; nothing makes them send or close.        *)
Fairness ==
  /\ WF_vars(Thread)
  /\ \A s \in Sock : WF_vars(Remote(s) /\ RemoteDrain(s))

Spec == Init /\ [][Next]_vars

FairSpec == Spec /\ Fairness

-----------------------------------------------------------------------------
TypeOK ==
  /\ err_read \in [Sock -> BOOLEAN]
  /\ err_write \in [Sock -> BOOLEAN]
  /\ err_read_done \in [Sock -> BOOLEAN]
  /\ select_read \in [Sock -> BOOLEAN]
  /\ select_write \in [Sock -> BOOLEAN]
  /\ off \in [Sock -> Nat]
  /\ len \in [Sock -> Nat]
  /\ buf = [s \in Sock |-> buf[s]]
  /\ \A s \in Sock : buf[s] \in [0..(max[s] - 1) -> Nat]
  /\ reg \subseteq Sock \X {"READ", "WRITE"}
  /\ pc \in {"select", "recv", "send", "wpost", "rpost"}
  /\ cur \in Sock
  /\ nested \in BOOLEAN
  /\ closed \in Nat
  /\ written \in [Sock -> Nat]
  /\ rcvd \in [Sock -> Nat]
  /\ fin \in [Sock -> BOOLEAN]
  /\ reset \in [Sock -> BOOLEAN]
  /\ sent \in [Sock -> Seq(Nat)]
  /\ drained \in [Sock -> Nat]
  /\ shut \subseteq Sock \X {"RECV", "SEND"}

(* The bytes received from s and not yet sent to its peer are exactly the  *)
(* ones in the window [off, off+len) of its buffer, in order, and the      *)
(* window stays inside the buffer (assertb(client->off + client->len <=    *)
(* client->max)).                                                          *)
Window ==
  \A s \in Sock :
    /\ Filled(s) <= max[s]
    /\ rcvd[s] = Len(sent[Peer(s)]) + len[s]
    /\ \A i \in 0..(len[s] - 1) : buf[s][off[s] + i] = Len(sent[Peer(s)]) + 1 + i

(* What a remote end gets is a prefix of what the other one wrote.         *)
InOrder ==
  \A s \in Sock : \A i \in DOMAIN sent[Peer(s)] : sent[Peer(s)][i] = i

(* Between handlers the select flags say what is registered with fdselect: *)
(* the code consults the flags instead of the registrations.               *)
FlagsAgree ==
  pc = "select" =>
    \A s \in Sock : /\ select_read[s] <=> <<s, "READ">> \in reg
                    /\ select_write[s] <=> <<s, "WRITE">> \in reg

(* No wakeup is lost and none spins: while the thread waits, buffered      *)
(* bytes wait for their socket to become writable, and a socket is read    *)
(* exactly when it may still yield bytes and there is room for them.       *)
NoLostWakeup ==
  (pc = "select" /\ closed = 0) =>
    \A s \in Sock :
      /\ <<Peer(s), "WRITE">> \in reg <=> len[s] > 0 /\ ~err_write[Peer(s)]
      /\ <<s, "READ">> \in reg <=> off[s] + len[s] < max[s] /\ ~err_read[s]

(* "don't shut down until all my buffered read data was written": a socket *)
(* is shut down for sending only after every byte received from its peer   *)
(* was sent on it, or sending failed.                                      *)
EofAfterData ==
  \A s \in Sock : <<s, "SEND">> \in shut =>
    /\ err_read[Peer(s)]
    /\ rcvd[Peer(s)] = Len(sent[s]) \/ err_write[s]

(* The two directions, seen as channels.                                   *)
Chan0 == INSTANCE PipeChannel
  WITH Capacity <- max[0], taken <- rcvd[0], given <- sent[1],
       ended <- <<1, "SEND">> \in shut, broken <- err_write[1]

Chan1 == INSTANCE PipeChannel
  WITH Capacity <- max[1], taken <- rcvd[1], given <- sent[0],
       ended <- <<0, "SEND">> \in shut, broken <- err_write[0]

(* Each direction is a bounded first-in first-out channel that passes the  *)
(* end of the stream on after the last byte.                               *)
Channels == Chan0!Spec /\ Chan1!Spec

(* Every byte a remote end writes reaches the other one, or that one is    *)
(* gone, or the connection it was written to was reset.                    *)
Delivered ==
  \A s \in Sock : \A n \in 1..NBytes[s] :
    written[s] = n ~> (Len(sent[Peer(s)]) >= n \/ reset[s] \/ reset[Peer(s)])

(* The end of a stream is passed on, whatever the buffers held.            *)
EofPropagates ==
  \A s \in Sock : fin[s] ~> (<<Peer(s), "SEND">> \in shut \/ reset[Peer(s)])

(* Once both remote ends are done, the CLOSED event is raised.             *)
ClosesEventually == (\A s \in Sock : fin[s] \/ reset[s]) ~> closed > 0

(* The CLOSED event is raised at most once: its handler frees the pipe     *)
(* (fdselect_pipe_t.c) or closes both descriptors.                         *)
ClosedOnce == closed <= 1

-----------------------------------------------------------------------------
(* What is model-checked: a pipe whose sockets have buffers of different   *)
(* sizes.  Three cells are room for a window that starts after the first   *)
(* cell and has space behind it.                                           *)
MCmax == [s \in Sock |-> IF s = 0 THEN 3 ELSE 1]
MCNBytes == [s \in Sock |-> IF s = 0 THEN 3 ELSE 1]
OneByte == [s \in Sock |-> 1]
=============================================================================
