------------------------- MODULE FdselectPipeProofs -------------------------
(***************************************************************************)
(* Proofs about FdselectPipe, for buffers and kernel queues of any size.   *)
(***************************************************************************)
EXTENDS FdselectPipe, SequenceTheorems, TLAPS

-----------------------------------------------------------------------------
(* The inductive invariant.                                                *)

(* Socket s reads into its buffer, or its peer is writing from it: the     *)
(* flags of this direction are about to be recomputed.                     *)
Busy(s) ==
  \/ pc = "recv" /\ cur = s
  \/ pc \in {"send", "wpost"} /\ cur = Peer(s)

(* A read handler that met the end of the stream has unregistered READ but *)
(* keeps the flag until the nested write handler has returned.             *)
Ending(s) ==
  pc \in {"send", "wpost", "rpost"} /\ nested /\ cur = Peer(s) /\ err_read[s]

Registrations ==
  \A s \in Sock :
    /\ select_write[s] <=> <<s, "WRITE">> \in reg
    /\ <<s, "READ">> \in reg => select_read[s]
    /\ select_read[s] => <<s, "READ">> \in reg \/ Ending(s)

Wakeups ==
  \A s \in Sock :
    /\ ~Busy(s) => (select_write[Peer(s)] <=> WantWrite(Peer(s)))
    /\ ~Busy(s) /\ ~(pc = "rpost" /\ cur = Peer(s)) => (select_read[s] <=> WantRead(s))
    /\ pc \in {"send", "wpost"} /\ ~nested /\ cur = Peer(s) => (select_read[s] => WantRead(s))

Reading == /\ pc = "recv" => ~err_read[cur] /\ ~nested
           /\ pc = "rpost" => nested

Ends ==
  \A s \in Sock :
    /\ <<s, "SEND">> \in shut => err_read[Peer(s)] /\ (len[Peer(s)] = 0 \/ err_write[s])
    /\ err_write[s] => WriteFails(s)

IInv == TypeOK /\ Window /\ InOrder /\ Registrations /\ Wakeups /\ Reading /\ Ends

-----------------------------------------------------------------------------
(* The peer of a socket is the other socket.                               *)
LEMMA PeerSock == \A s \in Sock : Peer(s) \in Sock /\ Peer(s) # s /\ Peer(Peer(s)) = s
  BY DEF Sock, Peer

(* The initial state satisfies the invariant.                              *)
LEMMA InitIInv == Init => IInv
  <1> SUFFICES ASSUME Init PROVE IInv
    OBVIOUS
  <1>1. TypeOK
    <2>1. sent \in [Sock -> Seq(Nat)]
      <3>1. <<>> \in Seq(Nat)
        OBVIOUS
      <3> QED BY <3>1 DEF Init
    <2>2. /\ buf = [s \in Sock |-> buf[s]]
          /\ \A s \in Sock : buf[s] \in [0..(max[s] - 1) -> Nat]
      BY PipeAssumption DEF Init
    <2>3. reg \subseteq Sock \X {"READ", "WRITE"}
      BY DEF Init
    <2>4. /\ err_read \in [Sock -> BOOLEAN]
          /\ err_write \in [Sock -> BOOLEAN]
          /\ err_read_done \in [Sock -> BOOLEAN]
          /\ select_read \in [Sock -> BOOLEAN]
          /\ select_write \in [Sock -> BOOLEAN]
          /\ fin \in [Sock -> BOOLEAN]
          /\ reset \in [Sock -> BOOLEAN]
          /\ nested \in BOOLEAN
      BY DEF Init
    <2>5. /\ off \in [Sock -> Nat]
          /\ len \in [Sock -> Nat]
          /\ written \in [Sock -> Nat]
          /\ rcvd \in [Sock -> Nat]
          /\ drained \in [Sock -> Nat]
          /\ closed \in Nat
          /\ cur \in Sock
      BY DEF Init, Sock
    <2> QED BY <2>1, <2>2, <2>3, <2>4, <2>5 DEF Init, TypeOK
  <1>2. Window /\ InOrder
    BY PipeAssumption DEF Init, Window, InOrder, Filled, Sock, Peer
  <1>3. Registrations /\ Wakeups /\ Reading /\ Ends
    BY PipeAssumption DEF Init, Registrations, Wakeups, Reading, Ends, Busy, WantRead, WantWrite,
         Filled, Sock, Peer
  <1> QED BY <1>1, <1>2, <1>3 DEF IInv

(* The remote ends change none of the pipe's own state.                    *)
LEMMA RemoteIInv == ASSUME IInv, NEW s \in Sock, Remote(s) PROVE IInv'
  <1>1. TypeOK'
    <2>1. UNCHANGED <<flagVars, bufVars, reg, threadVars, closed, rcvd, sent, shut>>
      BY DEF Remote
    <2>2. /\ written' \in [Sock -> Nat]
          /\ drained' \in [Sock -> Nat]
      <3>1. /\ written \in [Sock -> Nat] /\ written[s] + 1 \in Nat
            /\ drained \in [Sock -> Nat] /\ drained[s] + 1 \in Nat
        <4>1. written \in [Sock -> Nat] /\ drained \in [Sock -> Nat]
          BY DEF IInv, TypeOK
        <4> QED
          BY <4>1
      <3> QED BY <3>1 DEF Remote, RemoteSend, RemoteFin, RemoteReset, RemoteDrain
    <2>3. /\ fin' \in [Sock -> BOOLEAN]
          /\ reset' \in [Sock -> BOOLEAN]
      BY DEF IInv, TypeOK, Remote, RemoteSend, RemoteFin, RemoteReset, RemoteDrain
    <2> QED BY <2>1, <2>2, <2>3 DEF IInv, TypeOK, flagVars, bufVars, threadVars
  <1>2. Window' /\ InOrder'
    BY DEF IInv, Window, InOrder, Remote, bufVars, Filled
  <1>3. Registrations' /\ Wakeups' /\ Reading'
    BY DEF IInv, Registrations, Wakeups, Reading, Remote, bufVars, flagVars, threadVars, Busy,
           Ending, WantRead, WantWrite, Filled
  <1>4. Ends'
    BY DEF IInv, TypeOK, Ends, Remote, RemoteSend, RemoteFin, RemoteReset, RemoteDrain, flagVars,
           bufVars, WriteFails
  <1> QED BY <1>1, <1>2, <1>3, <1>4 DEF IInv

(* A handler starts in a state in which the flags are settled: its         *)
(* direction becomes busy.                                                 *)
LEMMA DispatchIInv == ASSUME IInv, NEW s \in Sock, NEW e \in {"READ", "WRITE"}, Dispatch(s, e)
                      PROVE IInv'
  <1>1. TypeOK'
    BY DEF IInv, TypeOK, Dispatch, flagVars, bufVars, remoteVars
  <1>2. Window' /\ InOrder'
    BY DEF IInv, Window, InOrder, Dispatch, bufVars, Filled
  <1>3. Registrations' /\ Ends'
    BY DEF IInv, Registrations, Ends, Dispatch, bufVars, flagVars, remoteVars, Ending, WriteFails
  <1>4. Wakeups' /\ Reading'
    BY DEF IInv, TypeOK, Registrations, Wakeups, Reading, Dispatch, bufVars, flagVars, Busy,
           Ending, WantRead, WantWrite, Filled, Sock, Peer
  <1> QED BY <1>1, <1>2, <1>3, <1>4 DEF IInv

(* The read handler hands over to the write handler of the peer.           *)
LEMMA RecvStopIInv == ASSUME IInv, RecvStop PROVE IInv'
  <1>1. TypeOK'
    <2>1. Peer(cur) \in Sock
      BY PeerSock DEF IInv, TypeOK
    <2> QED
      BY <2>1 DEF IInv, TypeOK, RecvStop, CallWrite, flagVars, bufVars, remoteVars
  <1>2. Window' /\ InOrder'
    BY DEF IInv, Window, InOrder, RecvStop, bufVars, Filled
  <1>3. Registrations' /\ Ends'
    BY DEF IInv, TypeOK, Registrations, Ends, RecvStop, CallWrite, bufVars, flagVars, remoteVars,
           Ending, WriteFails, Sock, Peer
  <1>4. Wakeups' /\ Reading'
    BY DEF IInv, TypeOK, Wakeups, Reading, RecvStop, CallWrite, bufVars, flagVars, Busy,
           WantRead, WantWrite, Filled, Sock, Peer
  <1> QED BY <1>1, <1>2, <1>3, <1>4 DEF IInv

(* The end of a stream unregisters READ and leaves select_read set: Ending. *)
LEMMA RecvEndIInv == ASSUME IInv, RecvEnd PROVE IInv'
  <1>1. TypeOK'
    BY DEF IInv, TypeOK, RecvEnd, CallWrite, bufVars, remoteVars, Sock, Peer
  <1>2. Window' /\ InOrder'
    BY DEF IInv, Window, InOrder, RecvEnd, bufVars, Filled
  <1>3. Registrations'
    BY DEF IInv, TypeOK, Registrations, Reading, RecvEnd, CallWrite, Ending, Sock, Peer
  <1>4. Wakeups' /\ Reading'
    BY DEF IInv, TypeOK, Wakeups, Reading, RecvEnd, CallWrite, bufVars, Busy, WantRead, WantWrite,
           Filled, Sock, Peer
  <1>5. Ends'
    <2>1. \A x \in Sock : <<x, "SEND">> \in shut' <=> <<x, "SEND">> \in shut
      BY DEF RecvEnd
    <2>2. \A x \in Sock : err_read[x] => err_read'[x]
      BY DEF IInv, TypeOK, RecvEnd
    <2>3. \A x \in Sock : Peer(x) \in Sock
      BY DEF Sock, Peer
    <2> QED BY <2>1, <2>2, <2>3 DEF IInv, Ends, RecvEnd, bufVars, remoteVars, WriteFails
  <1> QED BY <1>1, <1>2, <1>3, <1>4, <1>5 DEF IInv

(* The send loop ends; nothing but the place of the thread changes.        *)
LEMMA SendStopIInv == ASSUME IInv, SendStop PROVE IInv'
  <1>1. TypeOK'
    BY DEF IInv, TypeOK, SendStop, flagVars, bufVars, remoteVars
  <1>2. Window' /\ InOrder'
    BY DEF IInv, Window, InOrder, SendStop, bufVars, Filled
  <1>3. Registrations' /\ Ends'
    BY DEF IInv, TypeOK, Registrations, Ends, SendStop, bufVars, flagVars, remoteVars,
           Ending, WriteFails
  <1>4. Wakeups' /\ Reading'
    BY DEF IInv, TypeOK, Wakeups, Reading, SendStop, bufVars, flagVars, Busy,
           WantRead, WantWrite, Filled
  <1> QED BY <1>1, <1>2, <1>3, <1>4 DEF IInv

(* A failed send stops the reading of the peer, flag and registration.     *)
LEMMA SendErrorIInv == ASSUME IInv, SendError PROVE IInv'
  <1>1. TypeOK'
    <2>1. reg' \subseteq Sock \X {"READ", "WRITE"} /\ shut' \subseteq Sock \X {"RECV", "SEND"}
      BY PeerSock DEF IInv, TypeOK, SendError, Select
    <2>2. /\ err_write' \in [Sock -> BOOLEAN]
          /\ select_read' \in [Sock -> BOOLEAN]
      BY DEF IInv, TypeOK, SendError
    <2> QED BY <2>1, <2>2 DEF IInv, TypeOK, SendError, bufVars, remoteVars
  <1>2. Window' /\ InOrder'
    BY DEF IInv, Window, InOrder, SendError, bufVars, Filled
  <1>3. Registrations'
    BY DEF IInv, TypeOK, Registrations, SendError, Select, Ending, Sock, Peer
  <1>4. Wakeups' /\ Reading'
    BY DEF IInv, TypeOK, Wakeups, Reading, SendError, bufVars, Busy, WantRead, WantWrite,
           Filled, Sock, Peer
  <1>5. Ends'
    BY DEF IInv, TypeOK, Ends, SendError, bufVars, remoteVars, WriteFails, Sock, Peer
  <1> QED BY <1>1, <1>2, <1>3, <1>4, <1>5 DEF IInv

(* The receive loop appends the next bytes of the stream to the window.    *)
LEMMA RecvSomeIInv == ASSUME IInv, RecvSome PROVE IInv'
  <1>1. PICK n \in 1..(max[cur] - Filled(cur)) :
          /\ rcvd' = [rcvd EXCEPT ![cur] = @ + n]
          /\ len' = [len EXCEPT ![cur] = @ + n]
          /\ buf' = [buf EXCEPT ![cur] = [i \in 0..(max[cur] - 1) |->
                       IF i \in Filled(cur)..(Filled(cur) + n - 1)
                       THEN rcvd[cur] + 1 + i - Filled(cur) ELSE @[i]]]
    BY DEF RecvSome
  <1>2. /\ cur \in Sock
        /\ max[cur] \in Nat
        /\ off[cur] \in Nat /\ len[cur] \in Nat /\ rcvd[cur] \in Nat
        /\ Filled(cur) = off[cur] + len[cur]
        /\ n \in Nat /\ n > 0 /\ off[cur] + len[cur] + n <= max[cur]
    <2>1. /\ cur \in Sock
          /\ max[cur] \in Nat
          /\ off[cur] \in Nat /\ len[cur] \in Nat /\ rcvd[cur] \in Nat
      BY PipeAssumption DEF IInv, TypeOK
    <2> QED BY <1>1, <2>1 DEF Filled
  <1>3. \A x \in Sock : x # cur => /\ len'[x] = len[x]
                                    /\ rcvd'[x] = rcvd[x]
                                    /\ buf'[x] = buf[x]
    BY <1>1
  <1>4. /\ len'[cur] = len[cur] + n
        /\ rcvd'[cur] = rcvd[cur] + n
    BY <1>1, <1>2 DEF IInv, TypeOK
  <1>5. buf = [x \in Sock |-> buf[x]]
    BY DEF IInv, TypeOK
  <1>6. TypeOK'
    <2>1. rcvd' \in [Sock -> Nat] /\ len' \in [Sock -> Nat]
      <3>1. /\ rcvd \in [Sock -> Nat] /\ rcvd[cur] + n \in Nat
            /\ len \in [Sock -> Nat] /\ len[cur] + n \in Nat
        <4>1. rcvd[cur] + n \in Nat /\ len[cur] + n \in Nat
          BY <1>2
        <4> QED BY <4>1 DEF IInv, TypeOK
      <3> QED BY <1>1, <3>1
    <2>2. ASSUME NEW x \in Sock PROVE buf'[x] \in [0..(max[x] - 1) -> Nat]
      <3>1. buf[x] \in [0..(max[x] - 1) -> Nat]
        BY DEF IInv, TypeOK
      <3>2. CASE x # cur
        BY <1>3, <3>1, <3>2
      <3>3. CASE x = cur
        <4>1. buf'[cur] = [i \in 0..(max[cur] - 1) |->
                             IF i \in Filled(cur)..(Filled(cur) + n - 1)
                             THEN rcvd[cur] + 1 + i - Filled(cur) ELSE buf[cur][i]]
          BY <1>1, <1>2, <1>5
        <4>2. \A i \in Filled(cur)..(Filled(cur) + n - 1) :
                rcvd[cur] + 1 + i - Filled(cur) \in Nat
          BY <1>2
        <4>3. \A i \in 0..(max[cur] - 1) : buf[cur][i] \in Nat
          BY <3>1, <3>3
        <4>4. \A i \in 0..(max[cur] - 1) :
                (IF i \in Filled(cur)..(Filled(cur) + n - 1)
                 THEN rcvd[cur] + 1 + i - Filled(cur) ELSE buf[cur][i]) \in Nat
          BY <4>2, <4>3
        <4> HIDE DEF Filled
        <4> QED BY <3>3, <4>1, <4>4
      <3> QED BY <3>2, <3>3
    <2>3. buf' = [x \in Sock |-> buf'[x]]
      BY <1>1, <1>5
    <2> QED BY <2>1, <2>2, <2>3 DEF IInv, TypeOK, RecvSome, flagVars, threadVars, remoteVars
  <1>7. Window'
    <2> SUFFICES ASSUME NEW x \in Sock
                 PROVE  /\ Filled(x)' <= max[x]
                        /\ rcvd'[x] = Len(sent[Peer(x)]) + len'[x]
                        /\ \A i \in 0..(len'[x] - 1) :
                             buf'[x][off[x] + i] = Len(sent[Peer(x)]) + 1 + i
      BY DEF Window, RecvSome
    <2>1. /\ Filled(x) <= max[x]
          /\ rcvd[x] = Len(sent[Peer(x)]) + len[x]
          /\ \A i \in 0..(len[x] - 1) : buf[x][off[x] + i] = Len(sent[Peer(x)]) + 1 + i
      BY DEF IInv, Window
    <2>2. CASE x # cur
      BY <1>3, <2>1, <2>2 DEF RecvSome, Filled
    <2>3. CASE x = cur
      <3>1. Len(sent[Peer(x)]) \in Nat
        BY <2>1, <2>3, <1>2, PeerSock, LenProperties DEF IInv, TypeOK
      <3>2. Filled(x)' <= max[x]
        BY <1>2, <1>4, <2>3 DEF RecvSome, Filled
      <3>3. rcvd'[x] = Len(sent[Peer(x)]) + len'[x]
        BY <1>2, <1>4, <2>1, <2>3, <3>1
      <3>4. ASSUME NEW i \in 0..(len'[x] - 1)
            PROVE  buf'[x][off[x] + i] = Len(sent[Peer(x)]) + 1 + i
        <4>1. off[x] + i \in 0..(max[x] - 1) /\ i \in Nat
          BY <1>2, <1>4, <2>3, <3>4
        <4>2. buf'[x][off[x] + i] =
                IF off[x] + i \in Filled(cur)..(Filled(cur) + n - 1)
                THEN rcvd[cur] + 1 + (off[x] + i) - Filled(cur) ELSE buf[x][off[x] + i]
          BY <1>1, <1>2, <1>5, <2>3, <4>1
        <4>3. CASE i < len[x]
          BY <1>2, <2>1, <2>3, <4>1, <4>2, <4>3
        <4>4. CASE i >= len[x]
          <5>1. i <= len[cur] + n - 1
            BY <1>2, <1>4, <2>3, <3>4
          <5>2. off[x] + i \in Filled(cur)..(Filled(cur) + n - 1)
            BY <1>2, <2>3, <4>1, <4>4, <5>1
          <5>3. rcvd[cur] = Len(sent[Peer(x)]) + len[cur]
            BY <2>1, <2>3
          <5>4. rcvd[cur] + 1 + (off[x] + i) - Filled(cur) = Len(sent[Peer(x)]) + 1 + i
            <6>1. \A a, b, c, d \in Nat : (a + b) + 1 + (c + d) - (c + b) = a + 1 + d
              OBVIOUS
            <6>2. (Len(sent[Peer(x)]) + len[cur]) + 1 + (off[cur] + i) - (off[cur] + len[cur])
                    = Len(sent[Peer(x)]) + 1 + i
              BY <1>2, <3>1, <4>1, <6>1
            <6> QED BY <1>2, <2>3, <5>3, <6>2
          <5> QED BY <4>2, <5>2, <5>4
        <4> QED BY <4>1, <4>3, <4>4, <1>2, <2>3
      <3> QED BY <3>2, <3>3, <3>4
    <2> QED BY <2>2, <2>3
  <1>8. InOrder' /\ Registrations' /\ Reading'
    BY DEF IInv, InOrder, Registrations, Reading, RecvSome, flagVars, threadVars, Ending
  <1>9. Wakeups'
    BY <1>2, <1>3, PeerSock DEF IInv, Wakeups, RecvSome, flagVars, threadVars, Busy, WantRead,
         WantWrite, Filled
  <1>10. Ends'
    BY <1>2, <1>3, PeerSock DEF IInv, Ends, Reading, RecvSome, flagVars, remoteVars, WriteFails
  <1> QED BY <1>6, <1>7, <1>8, <1>9, <1>10 DEF IInv

(* The send loop moves the first n bytes of the window behind the bytes    *)
(* already sent.                                                           *)
LEMMA SendSomeIInv == ASSUME IInv, SendSome PROVE IInv'
  <1>0. PICK s : s = Peer(cur)
    OBVIOUS
  <1> DEFINE D(n) == [i \in 1..n |-> buf[s][off[s] + i - 1]]
  <1>1. PICK n \in 1..len[s] :
          /\ sent' = [sent EXCEPT ![cur] = @ \o D(n)]
          /\ off' = [off EXCEPT ![s] = OffsetAfter(s, n)]
          /\ len' = [len EXCEPT ![s] = @ - n]
    BY <1>0 DEF SendSome
  <1>2. cur \in Sock /\ s \in Sock /\ s # cur /\ Peer(s) = cur
    BY <1>0, PeerSock DEF IInv, TypeOK
  <1>3. /\ max[s] \in Nat /\ off[s] \in Nat /\ len[s] \in Nat
        /\ sent[cur] \in Seq(Nat) /\ Len(sent[cur]) \in Nat
    BY <1>2, PipeAssumption, LenProperties DEF IInv, TypeOK
  <1>4. n \in Nat /\ n > 0 /\ n <= len[s]
    BY <1>3
  <1>5. /\ off[s] + len[s] <= max[s]
        /\ rcvd[s] = Len(sent[cur]) + len[s]
        /\ \A i \in 0..(len[s] - 1) : buf[s][off[s] + i] = Len(sent[cur]) + 1 + i
    BY <1>2 DEF IInv, Window, Filled
  <1>6. \A i \in 1..n : D(n)[i] = Len(sent[cur]) + i
    <2> SUFFICES ASSUME NEW i \in 1..n PROVE buf[s][off[s] + i - 1] = Len(sent[cur]) + i
      OBVIOUS
    <2>1. i - 1 \in 0..(len[s] - 1)
      BY <1>3, <1>4
    <2>2. buf[s][off[s] + (i - 1)] = Len(sent[cur]) + 1 + (i - 1)
      BY <1>5, <2>1
    <2>3. off[s] + (i - 1) = off[s] + i - 1 /\ Len(sent[cur]) + 1 + (i - 1) = Len(sent[cur]) + i
      BY <1>3, <1>4
    <2> QED BY <2>2, <2>3
  <1>7. D(n) \in Seq(Nat) /\ Len(D(n)) = n
    <2>1. \A i \in 1..n : Len(sent[cur]) + i \in Nat
      BY <1>3
    <2>2. D(n) \in [1..n -> Nat]
      BY <1>6, <2>1
    <2> QED BY <1>4, <2>2, IsASeq, LenProperties
  <1>8. /\ sent[cur] \o D(n) \in Seq(Nat)
        /\ Len(sent[cur] \o D(n)) = Len(sent[cur]) + n
        /\ \A i \in 1..(Len(sent[cur]) + n) : (sent[cur] \o D(n))[i] =
             IF i <= Len(sent[cur]) THEN sent[cur][i] ELSE D(n)[i - Len(sent[cur])]
    BY <1>3, <1>7, ConcatProperties
  <1>9. /\ sent'[cur] = sent[cur] \o D(n)
        /\ off'[s] = OffsetAfter(s, n)
        /\ len'[s] = len[s] - n
        /\ sent'[s] = sent[s] /\ off'[cur] = off[cur] /\ len'[cur] = len[cur]
    BY <1>1, <1>2 DEF IInv, TypeOK
  <1>10. /\ OffsetAfter(s, n) \in Nat
         /\ OffsetAfter(s, n) + (len[s] - n) <= off[s] + len[s]
         /\ len[s] # n => OffsetAfter(s, n) = off[s] + n
    BY <1>3, <1>4 DEF OffsetAfter
  <1>11. \A x \in Sock : x = cur \/ x = s
    BY <1>2 DEF Sock
  <1> HIDE DEF D
  <1>12. TypeOK'
    <2>1. /\ sent \in [Sock -> Seq(Nat)] /\ off \in [Sock -> Nat] /\ len \in [Sock -> Nat]
      BY DEF IInv, TypeOK
    <2>2. len[s] - n \in Nat
      BY <1>3, <1>4
    <2>3. /\ sent' \in [Sock -> Seq(Nat)] /\ off' \in [Sock -> Nat] /\ len' \in [Sock -> Nat]
      BY <1>1, <1>8, <1>10, <2>1, <2>2
    <2> QED BY <2>3 DEF IInv, TypeOK, SendSome, flagVars, threadVars, remoteVars
  <1>13. Window'
    <2>0. Len(sent'[cur]) = Len(sent[cur]) + n
      BY <1>8, <1>9
    <2>1. /\ off'[s] + len'[s] <= max[s]
          /\ rcvd[s] = Len(sent'[cur]) + len'[s]
      <3>1. off'[s] + len'[s] <= max[s]
        BY <1>3, <1>4, <1>5, <1>9, <1>10
      <3>2. \A a, b \in Nat : a + b = (a + n) + (b - n)
        BY <1>4
      <3>3. rcvd[s] = (Len(sent[cur]) + n) + (len[s] - n)
        BY <1>3, <1>5, <3>2
      <3> QED BY <1>9, <2>0, <3>1, <3>3
    <2>2. ASSUME NEW i \in 0..(len'[s] - 1)
          PROVE  buf[s][off'[s] + i] = Len(sent'[cur]) + 1 + i
      <3>1. n + i \in 0..(len[s] - 1) /\ i \in Nat /\ len[s] # n
        BY <1>3, <1>4, <1>9
      <3>2. buf[s][off[s] + (n + i)] = Len(sent[cur]) + 1 + (n + i)
        BY <1>5, <3>1
      <3>3. off'[s] + i = off[s] + (n + i)
        BY <1>3, <1>4, <1>9, <1>10, <3>1
      <3>4. Len(sent'[cur]) + 1 + i = Len(sent[cur]) + 1 + (n + i)
        <4>1. \A a \in Nat : (a + n) + 1 + i = a + 1 + (n + i)
          BY <1>4, <3>1
        <4> QED BY <1>3, <2>0, <4>1
      <3> QED BY <3>2, <3>3, <3>4
    <2>3. /\ off'[cur] + len'[cur] <= max[cur]
          /\ rcvd[cur] = Len(sent'[s]) + len'[cur]
          /\ \A i \in 0..(len'[cur] - 1) : buf[cur][off'[cur] + i] = Len(sent'[s]) + 1 + i
      BY <1>0, <1>2, <1>9 DEF IInv, Window, Filled
    <2>4. rcvd' = rcvd /\ buf' = buf
      BY DEF SendSome
    <2> QED BY <1>0, <1>2, <1>11, <2>1, <2>2, <2>3, <2>4 DEF Window, Filled
  <1>14. InOrder'
    <2>1. \A i \in DOMAIN sent[cur] : sent[cur][i] = i
      BY <1>2 DEF IInv, InOrder
    <2>2. ASSUME NEW i \in DOMAIN sent'[cur] PROVE sent'[cur][i] = i
      <3>1. i \in 1..(Len(sent[cur]) + n)
        BY <1>8, <1>9, LenProperties
      <3>2. CASE i <= Len(sent[cur])
        <4>1. i \in DOMAIN sent[cur]
          BY <1>3, <3>1, <3>2, LenProperties
        <4> QED BY <1>8, <1>9, <2>1, <3>1, <3>2, <4>1
      <3>3. CASE i > Len(sent[cur])
        <4>1. i - Len(sent[cur]) \in 1..n /\ ~(i <= Len(sent[cur]))
          BY <1>3, <1>4, <3>1, <3>3
        <4>2. D(n)[i - Len(sent[cur])] = Len(sent[cur]) + (i - Len(sent[cur]))
          BY <1>6, <4>1
        <4>3. Len(sent[cur]) + (i - Len(sent[cur])) = i
          BY <1>3, <3>1
        <4> QED BY <1>8, <1>9, <3>1, <4>1, <4>2, <4>3
      <3> QED BY <1>3, <3>1, <3>2, <3>3
    <2>3. \A i \in DOMAIN sent'[s] : sent'[s][i] = i
      BY <1>0, <1>2, <1>9 DEF IInv, InOrder
    <2> QED BY <1>0, <1>2, <1>11, <2>2, <2>3 DEF InOrder
  <1>15. Registrations' /\ Reading'
    BY DEF IInv, Registrations, Reading, SendSome, flagVars, threadVars, Ending
  <1>16. Wakeups'
    <2>1. pc = "send" /\ UNCHANGED <<flagVars, threadVars>>
      BY DEF SendSome
    <2>2. WantRead(s) => WantRead(s)'
      BY <1>3, <1>4, <1>9, <1>10, <2>1 DEF WantRead, Filled, flagVars
    <2>3. /\ cur' = cur
          /\ WantRead(cur) <=> WantRead(cur)'
          /\ WantWrite(s) <=> WantWrite(s)'
      BY <1>0, <1>2, <1>9, <2>1 DEF WantRead, WantWrite, Filled, flagVars, threadVars
    <2>4. Busy(s) /\ Busy(s)'
      BY <1>0, <1>2, <2>1 DEF Busy, threadVars
    <2> QED BY <1>0, <1>2, <1>11, <2>1, <2>2, <2>3, <2>4 DEF IInv, Wakeups, flagVars, threadVars, Busy
  <1>17. Ends'
    BY <1>0, <1>2, <1>9, <1>11 DEF IInv, Ends, SendSome, flagVars, remoteVars, WriteFails
  <1> QED BY <1>12, <1>13, <1>14, <1>15, <1>16, <1>17 DEF IInv

(* The read handler recomputes its READ registration and may close.        *)
LEMMA ReadDoneIInv == ASSUME IInv, ReadDone PROVE IInv'
  <1>0. PICK s : s = Peer(cur)
    OBVIOUS
  <1>1. cur \in Sock /\ s \in Sock /\ s # cur /\ Peer(s) = cur
    BY <1>0, PeerSock DEF IInv, TypeOK
  <1>2. \A x \in Sock : x = cur \/ x = s
    BY <1>1 DEF Sock
  <1>3. PICK R : R = Select(reg, <<s, "READ">>, select_read[s], WantRead(s))
    OBVIOUS
  <1>4. WantRead(s) \in BOOLEAN /\ select_read[s] \in BOOLEAN
    BY <1>1 DEF IInv, TypeOK, WantRead
  <1>5. /\ pc = "rpost" /\ pc' = "select"
        /\ select_read' = [select_read EXCEPT ![s] = WantRead(s)]
        /\ \/ (\E x \in Sock : select_read'[x] \/ select_write[x]) /\ reg' = R /\ closed' = closed
           \/ ~(\E x \in Sock : select_read'[x] \/ select_write[x]) /\ reg' = {}
                /\ closed' = closed + 1
        /\ UNCHANGED <<err_read, err_write, err_read_done, select_write, bufVars, cur, nested,
                       remoteVars, rcvd, sent, shut>>
    BY <1>0, <1>3 DEF ReadDone, ClosedCallback
  <1>6. select_read'[s] = WantRead(s) /\ select_read'[cur] = select_read[cur]
    BY <1>1, <1>5 DEF IInv, TypeOK
  <1>7. /\ R \subseteq reg \cup {<<s, "READ">>}
        /\ <<s, "WRITE">> \in R <=> <<s, "WRITE">> \in reg
        /\ <<cur, "WRITE">> \in R <=> <<cur, "WRITE">> \in reg
        /\ <<cur, "READ">> \in R <=> <<cur, "READ">> \in reg
        /\ <<s, "READ">> \in R <=> (WantRead(s) /\ ~select_read[s])
             \/ ((WantRead(s) \/ ~select_read[s]) /\ <<s, "READ">> \in reg)
    BY <1>1, <1>3, <1>4 DEF Select
  <1>8. TypeOK'
    <2>1. select_read' \in [Sock -> BOOLEAN]
      BY <1>4, <1>5 DEF IInv, TypeOK
    <2>2. reg' \subseteq Sock \X {"READ", "WRITE"}
      <3>1. reg \subseteq Sock \X {"READ", "WRITE"}
        BY DEF IInv, TypeOK
      <3>2. R \subseteq Sock \X {"READ", "WRITE"}
        BY <1>1, <1>7, <3>1
      <3> QED
        BY <1>5, <3>2
    <2>3. closed' \in Nat
      <3>1. closed \in Nat
        BY DEF IInv, TypeOK
      <3> QED BY <1>5, <3>1
    <2> QED BY <1>5, <2>1, <2>2, <2>3 DEF IInv, TypeOK, bufVars, remoteVars
  <1>9. Window' /\ InOrder' /\ Ends'
    BY <1>5 DEF IInv, Window, InOrder, Ends, Filled, WriteFails, bufVars, remoteVars
  <1>10. Registrations'
    <2>1. \A x \in Sock : ~Ending(x)'
      BY <1>5 DEF Ending
    <2>2. WantRead(s) => ~Ending(s)
      BY DEF WantRead, Ending
    <2>3. ~Ending(cur)
      BY <1>1, PeerSock DEF Ending
    <2>4. \A x \in Sock : /\ select_write[x] <=> <<x, "WRITE">> \in reg
                          /\ <<x, "READ">> \in reg => select_read[x]
                          /\ select_read[x] => <<x, "READ">> \in reg \/ Ending(x)
      BY DEF IInv, Registrations
    <2>5. CASE reg' = R
      <3>1. <<s, "READ">> \in R <=> WantRead(s)
        BY <1>1, <1>7, <2>2, <2>4
      <3> QED BY <1>1, <1>2, <1>5, <1>6, <1>7, <2>3, <2>4, <2>5, <3>1 DEF Registrations
    <2>6. CASE reg' = {} /\ ~(\E x \in Sock : select_read'[x] \/ select_write[x])
      BY <1>5, <2>6 DEF Registrations
    <2> QED BY <1>5, <2>5, <2>6
  <1>11. Wakeups'
    <2>1. \A x \in Sock : /\ WantRead(x)' <=> WantRead(x)
                          /\ WantWrite(x)' <=> WantWrite(x)
      BY <1>5 DEF WantRead, WantWrite, Filled, bufVars
    <2>2. \A x \in Sock : ~Busy(x)
      BY <1>5 DEF Busy
    <2>3. \A x \in Sock : select_write[Peer(x)] <=> WantWrite(Peer(x))
      BY <2>2 DEF IInv, Wakeups
    <2>4. select_read[cur] <=> WantRead(cur)
      BY <1>0, <1>1, <2>2 DEF IInv, Wakeups
    <2> QED BY <1>1, <1>2, <1>5, <1>6, <2>1, <2>3, <2>4, PeerSock DEF Wakeups
  <1>12. Reading'
    BY <1>5 DEF Reading
  <1> QED BY <1>8, <1>9, <1>10, <1>11, <1>12 DEF IInv

(* The write handler recomputes both registrations of its direction, may   *)
(* pass on the end of the stream and may close.                            *)
LEMMA WriteDoneIInv == ASSUME IInv, WriteDone PROVE IInv'
  <1>0. PICK s : s = Peer(cur)
    OBVIOUS
  <1>1. cur \in Sock /\ s \in Sock /\ s # cur /\ Peer(s) = cur
    BY <1>0, PeerSock DEF IInv, TypeOK
  <1>2. \A x \in Sock : x = cur \/ x = s
    BY <1>1 DEF Sock
  <1>3. PICK sr : sr = (select_read[s] \/ WantRead(s))
    OBVIOUS
  <1>4. /\ sr \in BOOLEAN /\ WantRead(s) \in BOOLEAN /\ WantWrite(cur) \in BOOLEAN
        /\ select_read[s] \in BOOLEAN /\ select_write[cur] \in BOOLEAN
        /\ ShutNow(s) \in BOOLEAN /\ nested \in BOOLEAN
    BY <1>1, <1>3 DEF IInv, TypeOK, WantRead, WantWrite, ShutNow
  <1>5. PICK R1 : R1 = Select(reg, <<s, "READ">>, select_read[s], sr)
    OBVIOUS
  <1>6. PICK R : R = Select(R1, <<cur, "WRITE">>, select_write[cur], WantWrite(cur))
    OBVIOUS
  <1>7. /\ pc = "wpost" /\ pc' = IF nested THEN "rpost" ELSE "select"
        /\ select_read' = [select_read EXCEPT ![s] = sr]
        /\ select_write' = [select_write EXCEPT ![cur] = WantWrite(cur)]
        /\ err_read_done' = [err_read_done EXCEPT ![s] = @ \/ ShutNow(s)]
        /\ shut' = IF ShutNow(s) THEN shut \cup {<<cur, "SEND">>} ELSE shut
        /\ UNCHANGED <<err_read, err_write, bufVars, cur, nested, remoteVars, rcvd, sent>>
    BY <1>0, <1>3 DEF WriteDone
  <1>8. /\ select_read'[s] = sr /\ select_read'[cur] = select_read[cur]
        /\ select_write'[cur] = WantWrite(cur) /\ select_write'[s] = select_write[s]
    BY <1>1, <1>7 DEF IInv, TypeOK
  <1>9. \/ /\ \E x \in Sock : select_read'[x] \/ select_write'[x]
           /\ reg' = R /\ closed' = closed
        \/ /\ ~(\E x \in Sock : select_read'[x] \/ select_write'[x])
           /\ reg' = {} /\ closed' = closed + 1
    BY <1>0, <1>5, <1>6, <1>8 DEF WriteDone, ClosedCallback
  <1>10. /\ R1 \subseteq reg \cup {<<s, "READ">>}
         /\ <<s, "WRITE">> \in R1 <=> <<s, "WRITE">> \in reg
         /\ <<cur, "WRITE">> \in R1 <=> <<cur, "WRITE">> \in reg
         /\ <<cur, "READ">> \in R1 <=> <<cur, "READ">> \in reg
         /\ <<s, "READ">> \in R1 <=> (sr /\ ~select_read[s])
              \/ ((sr \/ ~select_read[s]) /\ <<s, "READ">> \in reg)
    BY <1>1, <1>4, <1>5 DEF Select
  <1>11. /\ R \subseteq R1 \cup {<<cur, "WRITE">>}
         /\ <<s, "WRITE">> \in R <=> <<s, "WRITE">> \in R1
         /\ <<cur, "READ">> \in R <=> <<cur, "READ">> \in R1
         /\ <<s, "READ">> \in R <=> <<s, "READ">> \in R1
         /\ <<cur, "WRITE">> \in R <=> (WantWrite(cur) /\ ~select_write[cur])
              \/ ((WantWrite(cur) \/ ~select_write[cur]) /\ <<cur, "WRITE">> \in R1)
    BY <1>1, <1>4, <1>6 DEF Select
  <1>12. TypeOK'
    <2>1. /\ select_read' \in [Sock -> BOOLEAN] /\ select_write' \in [Sock -> BOOLEAN]
          /\ err_read_done' \in [Sock -> BOOLEAN]
      BY <1>4, <1>7 DEF IInv, TypeOK
    <2>2. reg' \subseteq Sock \X {"READ", "WRITE"}
      <3>1. reg \subseteq Sock \X {"READ", "WRITE"}
        BY DEF IInv, TypeOK
      <3>2. R \subseteq reg \cup {<<s, "READ">>, <<cur, "WRITE">>}
        BY <1>10, <1>11
      <3> QED BY <1>1, <1>9, <3>1, <3>2
    <2>3. closed' \in Nat
      <3>1. closed \in Nat
        BY DEF IInv, TypeOK
      <3> QED BY <1>9, <3>1
    <2>4. shut' \subseteq Sock \X {"RECV", "SEND"}
      BY <1>1, <1>7 DEF IInv, TypeOK
    <2>5. pc' \in {"select", "recv", "send", "wpost", "rpost"}
      BY <1>4, <1>7
    <2> QED BY <1>7, <2>1, <2>2, <2>3, <2>4, <2>5 DEF IInv, TypeOK, bufVars, remoteVars
  <1>13. Window' /\ InOrder'
    BY <1>7 DEF IInv, Window, InOrder, Filled, bufVars
  <1>14. Ends'
    <2>1. ShutNow(s) => err_read[s] /\ (len[s] = 0 \/ err_write[cur])
      <3>1. len[s] \in Nat
        BY <1>1 DEF IInv, TypeOK
      <3> QED BY <1>0, <1>1, <3>1 DEF ShutNow, WantWrite
    <2>2. \A x \in Sock : <<x, "SEND">> \in shut' => <<x, "SEND">> \in shut \/ (x = cur /\ ShutNow(s))
      BY <1>4, <1>7
    <2>3. shut \subseteq shut'
      BY <1>4, <1>7
    <2> QED BY <1>0, <1>1, <1>7, <2>1, <2>2, <2>3 DEF IInv, Ends, WriteFails, bufVars, remoteVars
  <1>15. Registrations'
    <2>1. ~Ending(cur) /\ ~Ending(cur)'
      BY <1>1, <1>7, PeerSock DEF Ending
    <2>2. WantRead(s) => ~Ending(s)
      BY DEF WantRead, Ending
    <2>3. Ending(s) => Ending(s)'
      BY <1>7 DEF Ending
    <2>4. \A x \in Sock : /\ select_write[x] <=> <<x, "WRITE">> \in reg
                          /\ <<x, "READ">> \in reg => select_read[x]
                          /\ select_read[x] => <<x, "READ">> \in reg \/ Ending(x)
      BY DEF IInv, Registrations
    <2>5. CASE reg' = R
      <3>1. /\ <<s, "READ">> \in R => sr
            /\ sr => <<s, "READ">> \in R \/ Ending(s)
        BY <1>1, <1>3, <1>4, <1>10, <1>11, <2>2, <2>4
      <3>2. <<cur, "WRITE">> \in R <=> WantWrite(cur)
        BY <1>1, <1>4, <1>10, <1>11, <2>4
      <3>3. /\ <<s, "WRITE">> \in R <=> select_write[s]
            /\ <<cur, "READ">> \in R <=> select_read[cur]
        BY <1>1, <1>10, <1>11, <2>1, <2>4
      <3> QED BY <1>1, <1>2, <1>7, <1>8, <2>1, <2>3, <2>5, <3>1, <3>2, <3>3 DEF Registrations
    <2>6. CASE reg' = {} /\ ~(\E x \in Sock : select_read'[x] \/ select_write'[x])
      BY <2>6 DEF Registrations
    <2> QED BY <1>9, <2>5, <2>6
  <1>16. Wakeups'
    <2>1. \A x \in Sock : /\ WantRead(x)' <=> WantRead(x)
                          /\ WantWrite(x)' <=> WantWrite(x)
      BY <1>7 DEF WantRead, WantWrite, Filled, bufVars
    <2>2. pc' # "wpost" /\ pc' # "send" /\ pc' # "recv" /\ (~nested => pc' = "select")
          /\ (nested => pc' = "rpost")
      BY <1>4, <1>7
    <2>3. ~Busy(cur) /\ ~(pc = "rpost" /\ cur = Peer(cur))
      BY <1>1, <1>7, PeerSock DEF Busy
    <2>4. /\ select_write[s] <=> WantWrite(s)
          /\ select_read[cur] <=> WantRead(cur)
      BY <1>0, <1>1, <2>3 DEF IInv, Wakeups
    <2>5. ~nested => (select_read[s] => WantRead(s))
      BY <1>1, <1>7 DEF IInv, Wakeups
    <2>6. ~nested => (sr <=> WantRead(s))
      BY <1>3, <1>4, <2>5
    <2>7. cur' = cur
      BY <1>7
    <2> QED BY <1>0, <1>1, <1>2, <1>8, <2>1, <2>2, <2>4, <2>6, <2>7, PeerSock DEF Wakeups
  <1>17. Reading'
    BY <1>4, <1>7 DEF Reading
  <1> QED BY <1>12, <1>13, <1>14, <1>15, <1>16, <1>17 DEF IInv

-----------------------------------------------------------------------------
(* Every step of the thread, of the remote ends, and every stuttering step *)
(* keeps the invariant.                                                    *)
LEMMA NextIInv == IInv /\ [Next]_vars => IInv'
  <1> SUFFICES ASSUME IInv, [Next]_vars PROVE IInv'
    OBVIOUS
  <1>1. CASE Thread
    BY <1>1, DispatchIInv, RecvSomeIInv, RecvStopIInv, RecvEndIInv, ReadDoneIInv, SendSomeIInv,
       SendStopIInv, SendErrorIInv, WriteDoneIInv DEF Thread
  <1>2. CASE \E s \in Sock : Remote(s)
    BY <1>2, RemoteIInv
  <1>3. CASE UNCHANGED vars
    <2>1. TypeOK' /\ Window' /\ InOrder'
      BY <1>3 DEF IInv, TypeOK, Window, InOrder, Filled, vars, flagVars, bufVars, threadVars,
                  remoteVars
    <2>2. Registrations' /\ Wakeups' /\ Reading' /\ Ends'
      BY <1>3 DEF IInv, Registrations, Wakeups, Reading, Ends, Busy, Ending, WantRead, WantWrite,
                  WriteFails, Filled, vars, flagVars, bufVars, threadVars, remoteVars
    <2> QED BY <2>1, <2>2 DEF IInv
  <1> QED BY <1>1, <1>2, <1>3 DEF Next

(* The inductive invariant holds in every state of the pipe.               *)
THEOREM Inductive == Spec => []IInv
  BY InitIInv, NextIInv, PTL DEF Spec

(* Type correctness of the pipe and its kernel, for buffers of any size.   *)
THEOREM PipeTypes == Spec => []TypeOK
  <1>1. IInv => TypeOK
    BY DEF IInv
  <1> QED BY <1>1, Inductive, PTL

(* The byte window of fdselect_pipe_sock_t: off + len never passes max     *)
(* (the code's assertb), and the window holds exactly the bytes received   *)
(* and not yet sent on, in order, whatever short reads and short writes    *)
(* the kernel returns.                                                     *)
THEOREM WindowExact == Spec => []Window
  <1>1. IInv => Window
    BY DEF IInv
  <1> QED BY <1>1, Inductive, PTL

(* What a remote end gets is a prefix of what the other one wrote: the     *)
(* offset reset of fdselect_pipe_sock_write neither skips nor repeats.     *)
THEOREM BytesInOrder == Spec => []InOrder
  <1>1. IInv => InOrder
    BY DEF IInv
  <1> QED BY <1>1, Inductive, PTL

(* Between two handlers the select_read and select_write flags are what    *)
(* is registered with fdselect, although a handler lets them disagree.     *)
THEOREM FlagsAlwaysAgree == Spec => []FlagsAgree
  <1>1. IInv => FlagsAgree
    BY DEF IInv, FlagsAgree, Registrations, Ending
  <1> QED BY <1>1, Inductive, PTL

(* No wakeup is lost: while the thread waits, every socket with bytes to   *)
(* send is registered for WRITE, and every socket with room for READ.      *)
THEOREM WakeupsKept == Spec => []NoLostWakeup
  <1>1. IInv => NoLostWakeup
    <2> SUFFICES ASSUME IInv, pc = "select", NEW s \in Sock
                 PROVE  /\ <<Peer(s), "WRITE">> \in reg <=> len[s] > 0 /\ ~err_write[Peer(s)]
                        /\ <<s, "READ">> \in reg <=> off[s] + len[s] < max[s] /\ ~err_read[s]
      BY DEF NoLostWakeup
    <2>1. ~Busy(s) /\ ~Ending(s)
      BY DEF Busy, Ending
    <2>2. /\ select_write[Peer(s)] <=> WantWrite(Peer(s))
          /\ select_read[s] <=> WantRead(s)
      BY <2>1 DEF IInv, Wakeups
    <2>3. /\ select_write[Peer(s)] <=> <<Peer(s), "WRITE">> \in reg
          /\ select_read[s] <=> <<s, "READ">> \in reg
      BY <2>1, PeerSock DEF IInv, Registrations
    <2> QED BY <2>2, <2>3, PeerSock DEF WantWrite, WantRead, Filled
  <1> QED BY <1>1, Inductive, PTL

(* A socket is shut down for sending only after every byte received from   *)
(* its peer was sent on it, or sending failed ("don't shut down until all  *)
(* my buffered read data was written").                                    *)
THEOREM EofLast == Spec => []EofAfterData
  <1>1. IInv => EofAfterData
    <2> SUFFICES ASSUME IInv, NEW s \in Sock, <<s, "SEND">> \in shut
                 PROVE  err_read[Peer(s)] /\ (rcvd[Peer(s)] = Len(sent[s]) \/ err_write[s])
      BY DEF EofAfterData
    <2>1. err_read[Peer(s)] /\ (len[Peer(s)] = 0 \/ err_write[s])
      BY DEF IInv, Ends
    <2>2. rcvd[Peer(s)] = Len(sent[s]) + len[Peer(s)] /\ Len(sent[s]) \in Nat
      BY PeerSock, LenProperties DEF IInv, TypeOK, Window
    <2> QED BY <2>1, <2>2
  <1> QED BY <1>1, Inductive, PTL

-----------------------------------------------------------------------------
(* The refinement: the steps of PipeChannel for the direction that reads   *)
(* from s, in the variables of the pipe.                                   *)
Ended(s) == <<Peer(s), "SEND">> \in shut

KeepsTaken(s) == rcvd'[s] = rcvd[s]
KeepsGiven(s) == sent'[Peer(s)] = sent[Peer(s)]
KeepsEnded(s) == <<Peer(s), "SEND">> \in shut' <=> Ended(s)
KeepsBroken(s) == err_write'[Peer(s)] <=> err_write[Peer(s)]

Takes(s) ==
  /\ ~Ended(s)
  /\ \E n \in 1..max[s] :
       /\ rcvd[s] + n - Len(sent[Peer(s)]) <= max[s]
       /\ rcvd'[s] = rcvd[s] + n
  /\ KeepsGiven(s) /\ KeepsEnded(s) /\ KeepsBroken(s)

Gives(s) ==
  /\ ~Ended(s)
  /\ ~err_write[Peer(s)]
  /\ \E n \in 1..(rcvd[s] - Len(sent[Peer(s)])) :
       sent'[Peer(s)] = [i \in 1..(Len(sent[Peer(s)]) + n) |-> i]
  /\ KeepsTaken(s) /\ KeepsEnded(s) /\ KeepsBroken(s)

EndsNow(s) ==
  /\ ~Ended(s)
  /\ rcvd[s] = Len(sent[Peer(s)]) \/ err_write[Peer(s)]
  /\ <<Peer(s), "SEND">> \in shut'
  /\ KeepsTaken(s) /\ KeepsGiven(s) /\ KeepsBroken(s)

Breaks(s) ==
  /\ ~err_write[Peer(s)]
  /\ err_write'[Peer(s)]
  /\ KeepsTaken(s) /\ KeepsGiven(s) /\ KeepsEnded(s)

Stutters(s) == KeepsTaken(s) /\ KeepsGiven(s) /\ KeepsEnded(s) /\ KeepsBroken(s)

(* Receiving takes bytes into the direction of the reading socket only.    *)
LEMMA RecvSomeTakes ==
  ASSUME IInv, RecvSome, NEW s \in Sock PROVE Takes(s) \/ Stutters(s)
  <1>1. PICK n \in 1..(max[cur] - Filled(cur)) : rcvd' = [rcvd EXCEPT ![cur] = @ + n]
    BY DEF RecvSome
  <1>2. sent' = sent /\ shut' = shut /\ err_write' = err_write
    BY DEF RecvSome, flagVars
  <1>3. CASE s # cur
    BY <1>1, <1>2, <1>3 DEF Stutters, KeepsTaken, KeepsGiven, KeepsEnded, KeepsBroken, Ended
  <1>4. CASE s = cur
    <2>1. /\ max[s] \in Nat /\ off[s] \in Nat /\ len[s] \in Nat /\ rcvd[s] \in Nat
          /\ rcvd \in [Sock -> Nat]
          /\ sent[Peer(s)] \in Seq(Nat)
      BY PipeAssumption, PeerSock DEF IInv, TypeOK
    <2>2. Len(sent[Peer(s)]) \in Nat
      BY <2>1, LenProperties
    <2>3. rcvd[s] = Len(sent[Peer(s)]) + len[s]
      BY DEF IInv, Window
    <2>4. n \in 1..max[s] /\ n \in Nat /\ off[s] + len[s] + n <= max[s]
      BY <1>1, <1>4, <2>1 DEF Filled
    <2>5. rcvd[s] + n - Len(sent[Peer(s)]) <= max[s]
      <3>1. \A a, b, c \in Nat : a + b + c <= max[s] =>
              \A l \in Nat : (l + b) + c - l <= max[s]
        BY <2>1
      <3>2. (Len(sent[Peer(s)]) + len[s]) + n - Len(sent[Peer(s)]) <= max[s]
        BY <2>1, <2>2, <2>4, <3>1
      <3> QED BY <2>3, <3>2
    <2>6. rcvd'[s] = rcvd[s] + n
      BY <1>1, <1>4, <2>1
    <2>7. ~Ended(s)
      BY <1>4, PeerSock DEF IInv, Ends, Reading, RecvSome, Ended
    <2>8. KeepsGiven(s) /\ KeepsEnded(s) /\ KeepsBroken(s)
      BY <1>2 DEF KeepsGiven, KeepsEnded, KeepsBroken, Ended
    <2> QED BY <2>4, <2>5, <2>6, <2>7, <2>8 DEF Takes
  <1> QED BY <1>3, <1>4

(* Sending gives the next bytes of the direction that is written.          *)
LEMMA SendSomeGives ==
  ASSUME IInv, IInv', SendSome, NEW s \in Sock PROVE Gives(s) \/ Stutters(s)
  <1>1. rcvd' = rcvd /\ shut' = shut /\ err_write' = err_write /\ cur \in Sock
    BY DEF SendSome, flagVars, IInv, TypeOK
  <1>2. PICK n \in 1..len[Peer(cur)] :
          /\ sent' = [sent EXCEPT ![cur] = @ \o [i \in 1..n |->
                        buf[Peer(cur)][off[Peer(cur)] + i - 1]]]
          /\ len' = [len EXCEPT ![Peer(cur)] = @ - n]
    BY DEF SendSome
  <1>3. CASE Peer(s) # cur
    BY <1>1, <1>2, <1>3 DEF Stutters, KeepsTaken, KeepsGiven, KeepsEnded, KeepsBroken, Ended
  <1>4. CASE Peer(s) = cur
    <2>1. Peer(cur) = s
      BY <1>4, PeerSock
    <2>2. len[s] \in Nat /\ len \in [Sock -> Nat] /\ sent[cur] \in Seq(Nat) /\ sent'[cur] \in Seq(Nat)
      BY <1>1 DEF IInv, TypeOK
    <2>3. Len(sent[cur]) \in Nat /\ Len(sent'[cur]) \in Nat
      BY <2>2, LenProperties
    <2>4. rcvd[s] = Len(sent[cur]) + len[s] /\ rcvd[s] = Len(sent'[cur]) + len'[s]
      BY <1>1, <1>4 DEF IInv, Window
    <2>5. len'[s] = len[s] - n /\ n \in Nat /\ n > 0 /\ n <= len[s]
      BY <1>2, <2>1, <2>2
    <2>6. Len(sent'[cur]) = Len(sent[cur]) + n
      <3>1. \A a, b, l \in Nat : a + l = b + (l - n) => b = a + n
        BY <2>5
      <3>2. Len(sent[cur]) + len[s] = Len(sent'[cur]) + (len[s] - n)
        BY <2>4, <2>5
      <3> QED BY <2>2, <2>3, <3>1, <3>2
    <2>7. n \in 1..(rcvd[s] - Len(sent[cur]))
      <3>1. \A a, l \in Nat : (a + l) - a = l
        OBVIOUS
      <3>2. rcvd[s] - Len(sent[cur]) = len[s]
        BY <2>2, <2>3, <2>4, <3>1
      <3> QED BY <2>2, <2>5, <3>2
    <2>8. sent'[cur] = [i \in 1..(Len(sent[cur]) + n) |-> i]
      <3>1. DOMAIN sent'[cur] = 1..(Len(sent[cur]) + n)
        BY <2>2, <2>6, LenProperties
      <3>2. \A i \in DOMAIN sent'[cur] : sent'[cur][i] = i
        BY <1>1, <1>4 DEF IInv, InOrder
      <3>3. sent'[cur] = [i \in DOMAIN sent'[cur] |-> sent'[cur][i]]
        BY <2>2, LenProperties
      <3> QED BY <3>1, <3>2, <3>3
    <2>9. ~Ended(s) /\ ~err_write[Peer(s)]
      BY <1>1, <1>4 DEF SendSome, WriteFails, Ended, IInv, Ends
    <2>10. KeepsTaken(s) /\ KeepsEnded(s) /\ KeepsBroken(s)
      BY <1>1 DEF KeepsTaken, KeepsEnded, KeepsBroken, Ended
    <2> QED BY <1>4, <2>7, <2>8, <2>9, <2>10 DEF Gives
  <1> QED BY <1>3, <1>4

(* A failed send breaks the direction that is written.                     *)
LEMMA SendErrorBreaks ==
  ASSUME IInv, SendError, NEW s \in Sock PROVE Breaks(s) \/ Stutters(s)
  <1>1. KeepsTaken(s) /\ KeepsGiven(s) /\ KeepsEnded(s)
    BY DEF SendError, KeepsTaken, KeepsGiven, KeepsEnded, Ended
  <1>2. err_write[Peer(s)] \in BOOLEAN /\ (err_write'[Peer(s)] <=> err_write[Peer(s)] \/ Peer(s) = cur)
    BY PeerSock DEF SendError, IInv, TypeOK
  <1> QED BY <1>1, <1>2 DEF Breaks, Stutters, KeepsBroken

(* The end of the stream is passed on when the buffer is empty or broken.  *)
LEMMA WriteDoneEnds ==
  ASSUME IInv, WriteDone, NEW s \in Sock PROVE EndsNow(s) \/ Stutters(s)
  <1>1. KeepsTaken(s) /\ KeepsGiven(s) /\ KeepsBroken(s)
    BY DEF WriteDone, KeepsTaken, KeepsGiven, KeepsBroken
  <1>2. cur \in Sock
    BY DEF IInv, TypeOK
  <1>3. CASE cur # Peer(s) \/ ~ShutNow(Peer(cur)) \/ Ended(s)
    BY <1>1, <1>3 DEF WriteDone, Stutters, KeepsEnded, Ended
  <1>4. CASE cur = Peer(s) /\ ShutNow(Peer(cur)) /\ ~Ended(s)
    <2>1. Peer(cur) = s
      BY <1>4, PeerSock
    <2>2. len[s] \in Nat /\ Len(sent[Peer(s)]) \in Nat
      BY PeerSock, LenProperties DEF IInv, TypeOK
    <2>3. len[s] = 0 \/ err_write[Peer(s)]
      BY <1>4, <2>1, <2>2 DEF ShutNow, WantWrite
    <2>4. rcvd[s] = Len(sent[Peer(s)]) + len[s]
      BY DEF IInv, Window
    <2>5. <<Peer(s), "SEND">> \in shut'
      BY <1>4 DEF WriteDone
    <2> QED BY <1>1, <1>4, <2>2, <2>3, <2>4, <2>5 DEF EndsNow
  <1> QED BY <1>3, <1>4

(* Every step of the pipe is a step, or none, of each direction.           *)
LEMMA NextChannel ==
  ASSUME IInv, IInv', [Next]_vars, NEW s \in Sock
  PROVE  Takes(s) \/ Gives(s) \/ EndsNow(s) \/ Breaks(s) \/ Stutters(s)
  <1> USE DEF Stutters, KeepsTaken, KeepsGiven, KeepsEnded, KeepsBroken, Ended
  <1>1. ASSUME NEW x \in Sock, NEW e \in {"READ", "WRITE"}, Dispatch(x, e) PROVE Stutters(s)
    BY <1>1 DEF Dispatch, flagVars
  <1>2. ASSUME NEW x \in Sock, Remote(x) PROVE Stutters(s)
    BY <1>2 DEF Remote, flagVars
  <1>3. CASE RecvStop \/ SendStop \/ UNCHANGED vars
    BY <1>3 DEF RecvStop, SendStop, vars, flagVars
  <1>4. CASE RecvEnd
    BY <1>4 DEF RecvEnd
  <1>5. CASE ReadDone
    BY <1>5 DEF ReadDone
  <1>6. CASE RecvSome \/ SendSome \/ SendError \/ WriteDone
    BY <1>6, RecvSomeTakes, SendSomeGives, SendErrorBreaks, WriteDoneEnds
  <1> QED BY <1>1, <1>2, <1>3, <1>4, <1>5, <1>6 DEF Next, Thread

(* The direction from socket 0 to socket 1 is a PipeChannel.               *)
LEMMA Direction0 == IInv /\ IInv' /\ [Next]_vars => [Chan0!Next]_Chan0!chanVars
  <1> SUFFICES ASSUME IInv, IInv', [Next]_vars PROVE [Chan0!Next]_Chan0!chanVars
    OBVIOUS
  <1>1. 0 \in Sock /\ Peer(0) = 1
    BY DEF Sock, Peer
  <1>2. Takes(0) \/ Gives(0) \/ EndsNow(0) \/ Breaks(0) \/ Stutters(0)
    BY <1>1, NextChannel
  <1>3. err_write[1] \in BOOLEAN /\ err_write'[1] \in BOOLEAN
    BY DEF IInv, TypeOK, Sock
  <1> USE <1>1, <1>3 DEF KeepsTaken, KeepsGiven, KeepsEnded, KeepsBroken, Ended
  <1>4. CASE Takes(0)
    BY <1>4 DEF Takes, Chan0!Next, Chan0!Take
  <1>5. CASE Gives(0)
    <2>1. PICK n \in 1..(rcvd[0] - Len(sent[1])) :
            sent'[1] = [i \in 1..(Len(sent[1]) + n) |-> i]
      BY <1>5 DEF Gives
    <2>2. /\ ~err_write[1]
          /\ rcvd'[0] = rcvd[0] /\ err_write'[1] = err_write[1]
      BY <1>5 DEF Gives
    <2>3. ~(<<1, "SEND">> \in shut) /\ ~(<<1, "SEND">> \in shut')
      BY <1>5 DEF Gives
    <2>4. Chan0!Give
      BY <2>1, <2>2, <2>3 DEF Chan0!Give
    <2> QED BY <2>4 DEF Chan0!Next
  <1>6. CASE EndsNow(0)
    BY <1>6 DEF EndsNow, Chan0!Next, Chan0!End
  <1>7. CASE Breaks(0)
    BY <1>7 DEF Breaks, Chan0!Next, Chan0!Break
  <1>8. CASE Stutters(0)
    BY <1>8 DEF Stutters, Chan0!chanVars
  <1> QED BY <1>2, <1>4, <1>5, <1>6, <1>7, <1>8

(* The direction from socket 1 to socket 0 is a PipeChannel.               *)
LEMMA Direction1 == IInv /\ IInv' /\ [Next]_vars => [Chan1!Next]_Chan1!chanVars
  <1> SUFFICES ASSUME IInv, IInv', [Next]_vars PROVE [Chan1!Next]_Chan1!chanVars
    OBVIOUS
  <1>1. 1 \in Sock /\ Peer(1) = 0
    BY DEF Sock, Peer
  <1>2. Takes(1) \/ Gives(1) \/ EndsNow(1) \/ Breaks(1) \/ Stutters(1)
    BY <1>1, NextChannel
  <1>3. err_write[0] \in BOOLEAN /\ err_write'[0] \in BOOLEAN
    BY DEF IInv, TypeOK, Sock
  <1> USE <1>1, <1>3 DEF KeepsTaken, KeepsGiven, KeepsEnded, KeepsBroken, Ended
  <1>4. CASE Takes(1)
    BY <1>4 DEF Takes, Chan1!Next, Chan1!Take
  <1>5. CASE Gives(1)
    <2>1. PICK n \in 1..(rcvd[1] - Len(sent[0])) :
            sent'[0] = [i \in 1..(Len(sent[0]) + n) |-> i]
      BY <1>5 DEF Gives
    <2>2. /\ ~err_write[0]
          /\ rcvd'[1] = rcvd[1] /\ err_write'[0] = err_write[0]
      BY <1>5 DEF Gives
    <2>3. ~(<<0, "SEND">> \in shut) /\ ~(<<0, "SEND">> \in shut')
      BY <1>5 DEF Gives
    <2>4. Chan1!Give
      BY <2>1, <2>2, <2>3 DEF Chan1!Give
    <2> QED BY <2>4 DEF Chan1!Next
  <1>6. CASE EndsNow(1)
    BY <1>6 DEF EndsNow, Chan1!Next, Chan1!End
  <1>7. CASE Breaks(1)
    BY <1>7 DEF Breaks, Chan1!Next, Chan1!Break
  <1>8. CASE Stutters(1)
    BY <1>8 DEF Stutters, Chan1!chanVars
  <1> QED BY <1>2, <1>4, <1>5, <1>6, <1>7, <1>8

(* The pipe implements a bounded first-in first-out channel in each        *)
(* direction, the end of the stream passed on after the last byte.         *)
THEOREM ImplementsChannels == Spec => Channels
  <1>1. Init => Chan0!Init /\ Chan1!Init
    BY DEF Init, Sock, Chan0!Init, Chan1!Init
  <1> QED BY <1>1, Inductive, Direction0, Direction1, PTL DEF Spec, Channels, Chan0!Spec, Chan1!Spec
=============================================================================
