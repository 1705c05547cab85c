--------------------------- MODULE HttpServerProofs --------------------------
(***************************************************************************)
(* Proofs about HttpServer: for any number of connections and descriptors, *)
(* any size of buffers and files, every descriptor has one owner and every *)
(* client waits for one event until descriptor 0 is handed out again, and  *)
(* no client is freed before its file was sent.                            *)
(***************************************************************************)
EXTENDS HttpServer, WellFoundedInduction, TLAPS

ClientState ==
  [live : BOOLEAN, sock : Fd, recv_len : -1..RecvMax, send_fd : Fd,
   send_off : 0..MaxSize, send_end : 0..MaxSize, readable : BOOLEAN]

(* What holds also after descriptor 0 was handed out: accept_sock is never *)
(* closed, and the thread is in sendfile for a client that lives.          *)
Kept ==
  /\ fd_table[accept_sock] = [kind |-> "accept", conn |-> 0]
  /\ \A c \in DOMAIN client :
       /\ peer[c] # "reported" => client[c].recv_len >= 0
       /\ client[c].sock # accept_sock /\ client[c].send_fd # accept_sock
       /\ client[c].send_off <= client[c].send_end
  /\ pc = "sendfile" => cur \in Live

(* A descriptor of a client is open on what is its own, send_fd when a     *)
(* file was announced; the 0 in send_fd of the others is nobody's.         *)
Owned ==
  /\ fd_table[0].kind \notin {"sock", "file"}
  /\ \A c \in Conn : c > Len(client) => answer[c] = "none"
  /\ \A c \in Live :
       /\ client[c].sock # 0
       /\ Holds(c)
       /\ answer[c] \in {"none", "file"}
       /\ answer[c] = "none" => client[c].send_fd = 0
  /\ \A fd \in Fd : fd_table[fd].kind \in {"sock", "file"} =>
       /\ fd_table[fd].conn \in Live
       /\ fd \in {client[fd_table[fd].conn].sock, client[fd_table[fd].conn].send_fd}

EventOf(c) == <<client[c].sock, IF answer[c] = "file" THEN "WRITE" ELSE "READ", c>>

Waits ==
  /\ reg = {<<accept_sock, "READ", 0>>} \cup {EventOf(c) : c \in Live}
  /\ pc = "sendfile" => answer[cur] = "file"

IInv == TypeOK /\ Kept /\ (reused \/ (Owned /\ Waits))

-----------------------------------------------------------------------------
(* The kernel finds a number when there is one.                            *)
LEMMA LowestIsFree ==
  ASSUME HttpAssumption, FreeFds # {}
  PROVE  LowestFree \in FreeFds
<1>1. FreeFds \subseteq Nat
  BY DEF FreeFds, Fd, HttpAssumption
<1> DEFINE R == OpToRel(<, Nat)
<1>2. \A i, j \in Nat : i < j => <<i, j>> \in R
  BY DEF OpToRel
<1>3. IsWellFoundedOn(R, Nat)
  BY NatLessThanWellFounded DEF R
<1> HIDE DEF R
<1>4. PICK fd \in FreeFds : \A other \in FreeFds : ~(<<other, fd>> \in R)
  BY <1>1, <1>3, WFMin
<1>5. \A other \in FreeFds : fd <= other
  <2> SUFFICES ASSUME NEW other \in FreeFds PROVE fd <= other
    OBVIOUS
  <2>1. fd \in Nat /\ other \in Nat /\ ~(other < fd)
    BY <1>1, <1>2, <1>4
  <2> QED
    BY <2>1
<1> QED
  BY <1>5 DEF LowestFree

LEMMA PieceCounted ==
  ASSUME NEW S, NEW p \in S \X S, NEW x \in S, NEW i \in {1, 2}
  PROVE  [p EXCEPT ![i] = x] \in S \X S /\ [p EXCEPT ![i] = x][i] = x
  OBVIOUS

LEMMA InitIInv ==
  ASSUME HttpAssumption, Init
  PROVE  IInv
<1>1. /\ client = <<>> /\ pc = "select" /\ cur = 0 /\ called_off = 0 /\ connected = 0
      /\ reg = {<<1, "READ", 0>>} /\ reused = FALSE
  BY DEF Init, accept_sock
<1>2. 0 \in Fd /\ 1 \in Fd /\ Live = {} /\ 0 \in 0..MaxConn
  BY <1>1 DEF Fd, HttpAssumption, Live
<1>3. /\ fd_table \in [Fd -> Open]
      /\ fd_table[0] = [kind |-> "stdin", conn |-> 0]
      /\ fd_table[1] = [kind |-> "accept", conn |-> 0]
      /\ \A fd \in Fd \ {0, 1} : fd_table[fd] = [kind |-> "free", conn |-> 0]
  BY <1>2 DEF Init, Open, Nothing, accept_sock
<1>4. TypeOK
  <2>1. client \in Seq(ClientState) /\ Len(client) = 0
    BY <1>1
  <2>2. /\ pieces \in [Conn -> (0..(RecvMax + 1)) \X (0..(RecvMax + 1))]
        /\ peer \in [Conn -> {"open", "fin", "reset", "reported"}]
        /\ answer \in [Conn -> {"none", "file", "error"}]
        /\ drained \in [Conn -> 0..MaxSize]
    BY DEF Init, HttpAssumption
  <2>3. reg \subseteq Fd \X {"READ", "WRITE"} \X (0..MaxConn)
    BY <1>1, <1>2
  <2>4. 0 \in 0..MaxSize /\ Len(client) <= connected
    BY <1>1, <2>1 DEF HttpAssumption
  <2> QED
    BY <1>1, <1>2, <1>3, <2>1, <2>2, <2>3, <2>4 DEF TypeOK, ClientState
<1>5. Kept
  BY <1>1, <1>3 DEF Kept, accept_sock
<1>6. Owned
  <2>1. \A c \in Conn : answer[c] = "none"
    BY DEF Init
  <2>2. \A fd \in Fd : fd_table[fd].kind \notin {"sock", "file"}
    BY <1>3
  <2> QED
    BY <1>2, <2>1, <2>2 DEF Owned
<1>7. Waits
  BY <1>1, <1>2 DEF Waits, accept_sock
<1> QED
  BY <1>4, <1>5, <1>6, <1>7 DEF IInv

-----------------------------------------------------------------------------
(* Steps of the remote ends change no client and no descriptor.            *)
LEMMA RemoteIInv ==
  ASSUME HttpAssumption, IInv, Remote
  PROVE  IInv'
<1>1. /\ fd_table' = fd_table /\ reg' = reg /\ client' = client /\ pc' = pc /\ cur' = cur
      /\ called_off' = called_off /\ answer' = answer /\ reused' = reused
  BY DEF Remote, threadVars
<1>2. /\ connected' \in 0..MaxConn /\ Len(client) <= connected'
      /\ pieces' \in [Conn -> (0..(RecvMax + 1)) \X (0..(RecvMax + 1))]
      /\ peer' \in [Conn -> {"open", "fin", "reset", "reported"}]
      /\ drained' \in [Conn -> 0..MaxSize]
      /\ \A c \in Conn : peer[c] # "reported" => peer'[c] # "reported"
      /\ \A c \in Conn : peer'[c] # "reported" => peer[c] # "reported"
  <2> USE DEF HttpAssumption
  <2>1. CASE Connect
    BY <2>1 DEF IInv, TypeOK, Connect
  <2>2. ASSUME NEW c \in 1..connected, SendPiece(c) PROVE <1>2
    <3>1. c \in Conn /\ pieces[c] \in (0..(RecvMax + 1)) \X (0..(RecvMax + 1))
      BY DEF IInv, TypeOK, Conn
    <3>2. pieces[c][1] + 1 \in 0..(RecvMax + 1)
      BY <2>2, <3>1 DEF SendPiece
    <3>3. pieces' = [pieces EXCEPT ![c] = [@ EXCEPT ![1] = pieces[c][1] + 1]]
      BY <2>2, <3>1 DEF SendPiece, IInv, TypeOK
    <3>4. [pieces[c] EXCEPT ![1] = pieces[c][1] + 1] \in (0..(RecvMax + 1)) \X (0..(RecvMax + 1))
      BY <3>1, <3>2, PieceCounted
    <3> QED
      BY <2>2, <3>1, <3>3, <3>4 DEF IInv, TypeOK, SendPiece
  <2>3. ASSUME NEW c \in 1..connected, Leave(c) PROVE <1>2
    BY <2>3 DEF IInv, TypeOK, Leave, Conn
  <2>4. ASSUME NEW c \in 1..connected, Drain(c) PROVE <1>2
    <3>1. client \in Seq(ClientState) /\ c \in DOMAIN client /\ c \in Conn
      BY <2>4 DEF Drain, IInv, TypeOK, Conn, ClientState
    <3>2. client[c] \in ClientState
      BY <3>1
    <3>3. client[c].send_off \in 0..MaxSize /\ drained[c] \in 0..MaxSize
      BY <3>1, <3>2 DEF ClientState, IInv, TypeOK
    <3>4. drained[c] + 1 \in 0..MaxSize
      BY <2>4, <3>3 DEF Drain
    <3> QED
      BY <2>4, <3>1, <3>4 DEF Drain, IInv, TypeOK
  <2> QED
    BY <2>1, <2>2, <2>3, <2>4 DEF Remote
<1>3. Live' = Live /\ \A c : Holds(c)' <=> Holds(c)
  BY <1>1 DEF Live, Holds
<1>4. TypeOK'
  BY <1>1, <1>2 DEF IInv, TypeOK
<1>5. Kept'
  <2>1. DOMAIN client \subseteq Conn
    BY DEF IInv, TypeOK, Conn, HttpAssumption
  <2> QED
    BY <1>1, <1>2, <1>3, <2>1 DEF IInv, Kept
<1>6. ASSUME Owned PROVE Owned'
  BY <1>1, <1>3, <1>6 DEF Owned
<1>7. ASSUME Waits PROVE Waits'
  BY <1>1, <1>3, <1>7 DEF Waits, EventOf
<1> QED
  BY <1>1, <1>4, <1>5, <1>6, <1>7 DEF IInv

-----------------------------------------------------------------------------
(* What the type says of a client structure.                               *)
LEMMA ClientTyped ==
  ASSUME HttpAssumption, TypeOK, NEW c \in DOMAIN client
  PROVE  /\ client \in Seq(ClientState) /\ client[c] \in ClientState
         /\ c \in Conn /\ c <= Len(client) /\ Len(client) <= MaxConn
<1>1. client \in Seq(ClientState) /\ Len(client) <= connected /\ connected \in 0..MaxConn
  BY DEF TypeOK, ClientState
<1>2. client[c] \in ClientState /\ c \in 1..Len(client)
  BY <1>1
<1> QED
  BY <1>1, <1>2 DEF Conn, HttpAssumption

(* The numbers that http_server_client_free closes are those of the client *)
(* it frees, and those of nobody: the 0 in send_fd, the -1 of open, the    *)
(* number of the file that was just opened.                                *)
LEMMA OnlyItsOwn ==
  ASSUME HttpAssumption, TypeOK, Owned, NEW c \in Live, NEW send_fd,
         send_fd = client[c].send_fd \/ (answer[c] # "file" /\ send_fd \in FreeFds \cup {-1})
  PROVE  \A fd \in Fd : fd_table[fd].kind \in {"sock", "file"} =>
           (fd_table[fd].conn = c <=> fd \in {client[c].sock, send_fd})
<1> SUFFICES ASSUME NEW fd \in Fd, fd_table[fd].kind \in {"sock", "file"}
             PROVE  fd_table[fd].conn = c <=> fd \in {client[c].sock, send_fd}
  OBVIOUS
<1>1. /\ c \in DOMAIN client /\ Holds(c) /\ answer[c] \in {"none", "file"}
      /\ answer[c] = "none" => client[c].send_fd = 0
      /\ fd # 0
  BY DEF Owned, Live
<1>2. ASSUME fd_table[fd].conn = c PROVE fd \in {client[c].sock, send_fd}
  <2>1. fd \in {client[c].sock, client[c].send_fd}
    BY <1>2 DEF Owned
  <2> QED
    BY <1>1, <2>1
<1>3. ASSUME fd \in {client[c].sock, send_fd} PROVE fd_table[fd].conn = c
  <2>1. CASE fd = client[c].sock
    BY <1>1, <2>1 DEF Holds
  <2>2. CASE fd = send_fd /\ send_fd = client[c].send_fd
    BY <1>1, <2>2 DEF Holds
  <2>3. CASE fd = send_fd /\ send_fd \in FreeFds \cup {-1}
    BY <2>3 DEF FreeFds, Nothing, Fd
  <2> QED
    BY <1>3, <2>1, <2>2, <2>3
<1> QED
  BY <1>2, <1>3

(* http_server_client_free at the end of a handler.                        *)
LEMMA FreeClientIInv ==
  ASSUME HttpAssumption, IInv, NEW c \in Live, NEW cl, NEW table \in [Fd -> Open],
         cl.sock = client[c].sock,
         \/ cl.send_fd = client[c].send_fd
         \/ (reused \/ answer[c] # "file") /\ cl.send_fd \in FreeFds \cup {-1},
         \A fd \in Fd : fd # cl.send_fd => table[fd] = fd_table[fd],
         FreeClient(c, cl, table),
         pc' = "select", cur' = cur, called_off' = called_off, connected' = connected,
         drained' = drained,
         pieces' \in [Conn -> (0..(RecvMax + 1)) \X (0..(RecvMax + 1))],
         peer' \in [Conn -> {"open", "fin", "reset", "reported"}],
         \A d \in Conn \ {c} : peer'[d] = peer[d],
         answer' \in {answer, [answer EXCEPT ![c] = "error"]},
         reused' \in BOOLEAN, reused => reused'
  PROVE  IInv'
<1>1. /\ TypeOK /\ Kept /\ c \in DOMAIN client /\ c \in Conn
      /\ client \in Seq(ClientState) /\ client[c] \in ClientState
  BY ClientTyped DEF IInv, Live
<1>2. /\ client' = [client EXCEPT ![c] = Cleared] /\ Cleared \in ClientState
      /\ DOMAIN client' = DOMAIN client /\ Len(client') = Len(client)
      /\ client' \in Seq(ClientState)
      /\ client'[c] = Cleared /\ \A d \in DOMAIN client : d # c => client'[d] = client[d]
  <2>1. Cleared \in ClientState
    BY DEF Cleared, ClientState, Fd, HttpAssumption
  <2>2. client' = [client EXCEPT ![c] = Cleared]
    BY DEF FreeClient
  <2> QED
    BY <1>1, <2>1, <2>2
<1>3. Live' = Live \ {c}
  BY <1>1, <1>2 DEF Live, Cleared
<1>4. /\ reg' \subseteq reg /\ fd_table' \in [Fd -> Open]
      /\ \A fd \in Fd :
           fd_table'[fd] = IF fd = cl.send_fd \/ (cl.sock # 0 /\ fd = cl.sock) THEN Nothing ELSE table[fd]
  <2>1. Nothing \in Open
    BY DEF Nothing, Open
  <2>2. \A any \in [Fd -> Open] : \A n : CloseFd(any, n) = [fd \in Fd |-> IF fd = n THEN Nothing ELSE any[fd]]
    BY DEF CloseFd
  <2>3. CloseFd(table, cl.send_fd) \in [Fd -> Open]
    BY <2>1, <2>2
  <2>4. /\ reg' \subseteq reg
        /\ fd_table' = IF cl.sock # 0 THEN CloseFd(CloseFd(table, cl.send_fd), cl.sock)
                       ELSE CloseFd(table, cl.send_fd)
    BY DEF FreeClient
  <2> QED
    BY <2>1, <2>2, <2>3, <2>4
<1>5. TypeOK'
  <2>1. answer' \in [Conn -> {"none", "file", "error"}]
    BY <1>1 DEF TypeOK
  <2> QED
    BY <1>1, <1>2, <1>4, <2>1 DEF TypeOK, ClientState
<1>6. Kept'
  <2>1. fd_table'[accept_sock] = [kind |-> "accept", conn |-> 0]
    <3>1. accept_sock \in Fd /\ fd_table[accept_sock] # Nothing
      BY <1>1 DEF Kept, Nothing, accept_sock, Fd, HttpAssumption
    <3>2. cl.sock # accept_sock /\ cl.send_fd # accept_sock
      BY <1>1, <3>1 DEF Kept, FreeFds, accept_sock
    <3> QED
      BY <1>1, <1>4, <3>1, <3>2 DEF Kept
  <2>2. ASSUME NEW d \in DOMAIN client'
        PROVE  /\ peer'[d] # "reported" => client'[d].recv_len >= 0
               /\ client'[d].sock # accept_sock /\ client'[d].send_fd # accept_sock
               /\ client'[d].send_off <= client'[d].send_end
    <3>1. CASE d = c
      BY <1>2, <3>1 DEF Cleared, accept_sock
    <3>2. CASE d # c
      <4>1. d \in DOMAIN client /\ client'[d] = client[d] /\ peer'[d] = peer[d]
        BY <1>1, <1>2, <3>2, ClientTyped
      <4> QED
        BY <1>1, <4>1 DEF Kept
    <3> QED
      BY <3>1, <3>2
  <2> QED
    BY <2>1, <2>2 DEF Kept
<1>7. ASSUME ~reused, Owned, Waits PROVE Owned' /\ Waits'
  <2>1. \A fd \in Fd : fd_table[fd].kind \in {"sock", "file"} =>
          (fd_table[fd].conn = c <=> fd \in {client[c].sock, cl.send_fd})
    BY <1>1, <1>7, OnlyItsOwn
  <2>2. \A fd \in Fd :
          fd_table'[fd] = IF fd \in {client[c].sock, cl.send_fd} THEN Nothing ELSE fd_table[fd]
    <3>1. cl.sock = client[c].sock /\ client[c].sock # 0
      BY <1>7 DEF Owned
    <3> QED
      BY <1>4, <3>1
  <2>3. \A fd \in Fd : fd_table'[fd].kind \in {"sock", "file"} =>
          fd_table'[fd] = fd_table[fd] /\ fd_table[fd].conn # c
    BY <2>1, <2>2 DEF Nothing
  <2>4. \A d \in Conn \ {c} : answer'[d] = answer[d]
    BY <1>1 DEF TypeOK
  <2>5. ASSUME NEW d \in Live, d # c
        PROVE  /\ client'[d] = client[d] /\ answer'[d] = answer[d]
               /\ Holds(d)' /\ EventOf(d)' = EventOf(d)
    <3>1. d \in DOMAIN client /\ client[d] \in ClientState /\ d \in Conn
      BY <1>1, ClientTyped DEF Live
    <3>2. client'[d] = client[d] /\ answer'[d] = answer[d]
      BY <1>2, <2>4, <2>5, <3>1
    <3>3. /\ client[d].sock \in Fd /\ client[d].send_fd \in Fd /\ Holds(d)
      BY <1>7, <3>1 DEF ClientState, Owned
    <3>4. fd_table'[client[d].sock] = fd_table[client[d].sock]
      BY <2>1, <2>2, <2>5, <3>3 DEF Holds
    <3>5. answer[d] = "file" => fd_table'[client[d].send_fd] = fd_table[client[d].send_fd]
      BY <2>1, <2>2, <2>5, <3>3 DEF Holds
    <3> QED
      BY <3>2, <3>3, <3>4, <3>5 DEF Holds, EventOf
  <2>6. Owned'
    <3>1. fd_table'[0].kind \notin {"sock", "file"}
      BY <1>7, <2>3 DEF Owned, Fd, HttpAssumption
    <3>2. \A d \in Conn : d > Len(client') => answer'[d] = "none"
      BY <1>1, <1>2, <1>7, <2>4 DEF Owned
    <3>3. ASSUME NEW d \in Live'
          PROVE  /\ client'[d].sock # 0 /\ Holds(d)' /\ answer'[d] \in {"none", "file"}
                 /\ answer'[d] = "none" => client'[d].send_fd = 0
      BY <1>3, <1>7, <2>5 DEF Owned
    <3>4. ASSUME NEW fd \in Fd, fd_table'[fd].kind \in {"sock", "file"}
          PROVE  /\ fd_table'[fd].conn \in Live'
                 /\ fd \in {client'[fd_table'[fd].conn].sock, client'[fd_table'[fd].conn].send_fd}
      BY <1>3, <1>7, <2>3, <2>5, <3>4 DEF Owned
    <3> QED
      BY <3>1, <3>2, <3>3, <3>4 DEF Owned
  <2>7. Waits'
    <3>1. reg' = {r \in reg : r[1] # client[c].sock}
      BY <1>7 DEF FreeClient, Owned
    <3>2. \A d \in Live : EventOf(d)[1] = client[d].sock /\ client[d].sock # accept_sock
      BY <1>1 DEF EventOf, Kept, Live
    <3>3. \A d \in Live : d # c => client[d].sock # client[c].sock
      <4> SUFFICES ASSUME NEW d \in Live, d # c, client[d].sock = client[c].sock PROVE FALSE
        OBVIOUS
      <4>0. Holds(c) /\ Holds(d)
        BY <1>7 DEF Owned
      <4>1. fd_table[client[d].sock].conn = d /\ fd_table[client[c].sock].conn = c
        BY <4>0 DEF Holds
      <4> QED
        BY <4>1
    <3>4. reg' = {<<accept_sock, "READ", 0>>} \cup {EventOf(d) : d \in Live \ {c}}
      BY <1>7, <3>1, <3>2, <3>3 DEF Waits
    <3>5. {EventOf(d) : d \in Live \ {c}} = {EventOf(d)' : d \in Live \ {c}}
      BY <2>5
    <3> QED
      BY <1>3, <3>4, <3>5 DEF Waits
  <2> QED
    BY <2>6, <2>7
<1> QED
  BY <1>5, <1>6, <1>7 DEF IInv

-----------------------------------------------------------------------------
(* Whose handler is called: a live client's, and for what it waits for.    *)
LEMMA ReadsWaiting ==
  ASSUME HttpAssumption, IInv, NEW c \in Conn, Reads(c)
  PROVE  c \in Live /\ pc = "select" /\ (reused \/ answer[c] # "file")
<1>1. PICK r \in reg : r[2] = "READ" /\ r[3] = c /\ pc = "select"
  BY DEF Reads, Called
<1>2. c \in Live /\ c # 0
  BY DEF Reads, Live, Conn
<1>3. ASSUME Waits PROVE answer[c] # "file"
  <2>1. PICK d \in Live : r = EventOf(d)
    BY <1>1, <1>2, <1>3 DEF Waits
  <2> QED
    BY <1>1, <2>1 DEF EventOf
<1> QED
  BY <1>1, <1>2, <1>3 DEF IInv

LEMMA WritesWaiting ==
  ASSUME HttpAssumption, IInv, NEW c \in Conn, Writes(c)
  PROVE  c \in Live /\ pc = "select" /\ (reused \/ answer[c] = "file")
<1>1. PICK r \in reg : r[2] = "WRITE" /\ r[3] = c /\ pc = "select"
  BY DEF Writes, Called
<1>2. c \in Live
  BY DEF Writes, Live
<1>3. ASSUME Waits PROVE answer[c] = "file"
  <2>1. PICK d \in Live : r = EventOf(d)
    BY <1>1, <1>3 DEF Waits
  <2> QED
    BY <1>1, <2>1 DEF EventOf
<1> QED
  BY <1>1, <1>2, <1>3 DEF IInv

(* A piece that is received is counted.                                    *)
LEMMA PiecesTyped ==
  ASSUME HttpAssumption, TypeOK, NEW c \in Conn, Receives(c)
  PROVE  /\ pieces' \in [Conn -> (0..(RecvMax + 1)) \X (0..(RecvMax + 1))]
         /\ connected' = connected /\ drained' = drained
<1>1. pieces[c] \in (0..(RecvMax + 1)) \X (0..(RecvMax + 1))
  BY DEF TypeOK
<1>2. pieces[c][2] + 1 \in 0..(RecvMax + 1)
  BY <1>1 DEF Receives, HttpAssumption
<1>3. pieces' = [pieces EXCEPT ![c] = [@ EXCEPT ![2] = pieces[c][2] + 1]]
  BY DEF Receives, TypeOK
<1>4. [pieces[c] EXCEPT ![2] = pieces[c][2] + 1] \in (0..(RecvMax + 1)) \X (0..(RecvMax + 1))
  BY <1>1, <1>2, PieceCounted
<1> QED
  BY <1>3, <1>4 DEF TypeOK, Receives

(* A handler that only counts in its client structure.                     *)
LEMMA CountsIInv ==
  ASSUME HttpAssumption, IInv, NEW c \in Live, NEW new \in ClientState,
         new.live, new.sock = client[c].sock, new.send_fd = client[c].send_fd,
         new.send_off <= new.send_end, peer'[c] # "reported" => new.recv_len >= 0,
         client' = [client EXCEPT ![c] = new],
         fd_table' = fd_table, reg' = reg, pc' = pc, cur' = cur, called_off' = called_off,
         connected' = connected, drained' = drained, answer' = answer, reused' = reused,
         pieces' \in [Conn -> (0..(RecvMax + 1)) \X (0..(RecvMax + 1))],
         peer' \in [Conn -> {"open", "fin", "reset", "reported"}],
         \A d \in Conn \ {c} : peer'[d] = peer[d]
  PROVE  IInv'
<1>1. TypeOK /\ Kept /\ client \in Seq(ClientState) /\ c \in DOMAIN client
  BY ClientTyped DEF IInv, Live
<1>2. /\ DOMAIN client' = DOMAIN client /\ Len(client') = Len(client)
      /\ client' \in Seq(ClientState) /\ client'[c] = new
      /\ \A d \in DOMAIN client : d # c => client'[d] = client[d]
  BY <1>1
<1>3. Live' = Live
  BY <1>1, <1>2 DEF Live
<1>4. \A d \in Live : client'[d].sock = client[d].sock /\ client'[d].send_fd = client[d].send_fd
  BY <1>2 DEF Live
<1>5. \A d \in Live : (Holds(d)' <=> Holds(d)) /\ EventOf(d)' = EventOf(d)
  BY <1>4 DEF Holds, EventOf
<1>6. TypeOK'
  BY <1>1, <1>2 DEF TypeOK, ClientState
<1>7. Kept'
  <2>1. ASSUME NEW d \in DOMAIN client'
        PROVE  /\ peer'[d] # "reported" => client'[d].recv_len >= 0
               /\ client'[d].sock # accept_sock /\ client'[d].send_fd # accept_sock
               /\ client'[d].send_off <= client'[d].send_end
    <3>1. CASE d = c
      BY <1>1, <1>2, <3>1 DEF Kept
    <3>2. CASE d # c
      <4>1. d \in DOMAIN client /\ client'[d] = client[d] /\ peer'[d] = peer[d]
        BY <1>1, <1>2, <3>2, ClientTyped
      <4> QED
        BY <1>1, <4>1 DEF Kept
    <3> QED
      BY <3>1, <3>2
  <2> QED
    BY <1>1, <1>3, <2>1 DEF Kept
<1>8. ASSUME Owned PROVE Owned'
  BY <1>2, <1>3, <1>4, <1>5, <1>8 DEF Owned
<1>9. ASSUME Waits PROVE Waits'
  BY <1>3, <1>5, <1>9 DEF Waits
<1> QED
  BY <1>6, <1>7, <1>8, <1>9 DEF IInv

-----------------------------------------------------------------------------
LEMMA AcceptIInv ==
  ASSUME HttpAssumption, IInv, http_server_select_accept
  PROVE  IInv'
<1>c. PICK c : c = Len(client) + 1
  OBVIOUS
<1>f. PICK fd : fd = LowestFree
  OBVIOUS
<1> DEFINE new == [Cleared EXCEPT !.live = TRUE, !.sock = fd]
<1>1. /\ TypeOK /\ Kept /\ client \in Seq(ClientState)
      /\ pc' = pc /\ cur' = cur /\ called_off' = called_off /\ answer' = answer
      /\ connected' = connected /\ pieces' = pieces /\ peer' = peer /\ drained' = drained
  BY DEF IInv, TypeOK, ClientState, http_server_select_accept, threadVars, remoteVars
<1>2. connected > Len(client)
  BY <1>1 DEF http_server_select_accept, Called, Ready, Kept
<1>3. c \in Conn /\ c \notin DOMAIN client /\ c \notin Live /\ c <= connected
  <2>1. Len(client) \in Nat /\ DOMAIN client = 1..Len(client) /\ connected \in 0..MaxConn
    BY <1>1 DEF TypeOK
  <2>2. c \in 1..MaxConn /\ c \notin DOMAIN client /\ c <= connected
    BY <1>c, <1>2, <2>1 DEF HttpAssumption
  <2> QED
    BY <2>2 DEF Conn, Live
<1>4. fd \in Fd /\ fd_table[fd] = Nothing /\ fd # accept_sock
  BY <1>f, <1>1, LowestIsFree DEF http_server_select_accept, FreeFds, Kept, Nothing
<1>5. /\ fd_table' = [fd_table EXCEPT ![fd] = [kind |-> "sock", conn |-> c]]
      /\ client' = Append(client, new)
      /\ reg' = {r \in reg : <<r[1], r[2]>> # <<fd, "READ">>} \cup {<<fd, "READ", c>>}
      /\ reused' = (reused \/ fd = 0)
  BY <1>c, <1>f DEF http_server_select_accept
<1>6. /\ new \in ClientState /\ new.live /\ new.sock = fd /\ new.recv_len = 0
      /\ new.send_fd = 0 /\ new.send_off = 0 /\ new.send_end = 0
  <2>1. 0 \in Fd /\ 0 \in 0..MaxSize /\ 0 \in -1..RecvMax
    BY DEF Fd, HttpAssumption
  <2>2. Cleared \in ClientState
    BY <2>1 DEF Cleared, ClientState
  <2>3. /\ new.live /\ new.sock = fd /\ new.recv_len = 0
        /\ new.send_fd = 0 /\ new.send_off = 0 /\ new.send_end = 0
    BY DEF Cleared
  <2> QED
    BY <1>4, <2>2, <2>3 DEF ClientState
<1> HIDE DEF new
<1>7. /\ client' \in Seq(ClientState) /\ Len(client') = c /\ client'[c] = new
      /\ DOMAIN client' = DOMAIN client \cup {c}
      /\ \A d \in DOMAIN client : d # c /\ client'[d] = client[d]
  BY <1>c, <1>1, <1>5, <1>6
<1>8. Live' = Live \cup {c}
  BY <1>6, <1>7 DEF Live
<1>9. TypeOK'
  <2>1. fd_table' \in [Fd -> Open]
    BY <1>1, <1>3, <1>5 DEF TypeOK, Open
  <2>2. reg' \subseteq Fd \X {"READ", "WRITE"} \X (0..MaxConn)
    BY <1>1, <1>3, <1>4, <1>5 DEF TypeOK, Conn
  <2> QED
    BY <1>1, <1>3, <1>5, <1>7, <2>1, <2>2 DEF TypeOK, ClientState
<1>10. Kept'
  <2>1. fd_table'[accept_sock] = fd_table[accept_sock]
    BY <1>1, <1>4, <1>5 DEF TypeOK
  <2> QED
    BY <1>1, <1>4, <1>6, <1>7, <1>8, <2>1 DEF Kept, accept_sock
<1>11. ASSUME ~reused', Owned, Waits PROVE Owned' /\ Waits'
  <2>1. fd # 0
    BY <1>5, <1>11
  <2>2. \A n \in Fd \ {fd} : fd_table'[n] = fd_table[n]
    BY <1>1, <1>5 DEF TypeOK
  <2>3. fd_table'[fd] = [kind |-> "sock", conn |-> c]
    BY <1>1, <1>4, <1>5 DEF TypeOK
  <2>4. ASSUME NEW d \in Live
        PROVE  /\ client'[d] = client[d] /\ EventOf(d)' = EventOf(d) /\ Holds(d)'
               /\ client[d].sock # fd
    <3>1. d \in DOMAIN client /\ client[d] \in ClientState /\ Holds(d)
      BY <1>1, <1>11, ClientTyped DEF Live, Owned
    <3>2. client'[d] = client[d]
      BY <1>7, <3>1
    <3>3. client[d].sock \in Fd /\ client[d].send_fd \in Fd
      BY <3>1 DEF ClientState
    <3>4. client[d].sock # fd /\ (answer[d] = "file" => client[d].send_fd # fd)
      BY <1>4, <3>1 DEF Holds, Nothing
    <3> QED
      BY <1>1, <2>2, <3>1, <3>2, <3>3, <3>4 DEF Holds, EventOf
  <2>5. answer[c] = "none"
    BY <1>c, <1>1, <1>3, <1>11 DEF Owned
  <2>6. Owned'
    <3>1. fd_table'[0].kind \notin {"sock", "file"}
      BY <1>11, <2>1, <2>2 DEF Owned, Fd, HttpAssumption
    <3>2. \A d \in Conn : d > Len(client') => answer'[d] = "none"
      BY <1>c, <1>1, <1>7, <1>11 DEF Owned, Conn
    <3>3. ASSUME NEW d \in Live'
          PROVE  /\ client'[d].sock # 0 /\ Holds(d)' /\ answer'[d] \in {"none", "file"}
                 /\ answer'[d] = "none" => client'[d].send_fd = 0
      <4>1. CASE d = c
        BY <1>1, <1>6, <1>7, <2>1, <2>3, <2>5, <4>1 DEF Holds
      <4>2. CASE d # c
        BY <1>1, <1>8, <1>11, <2>4, <4>2 DEF Owned
      <4> QED
        BY <4>1, <4>2
    <3>4. ASSUME NEW n \in Fd, fd_table'[n].kind \in {"sock", "file"}
          PROVE  /\ fd_table'[n].conn \in Live'
                 /\ n \in {client'[fd_table'[n].conn].sock, client'[fd_table'[n].conn].send_fd}
      <4>1. CASE n = fd
        BY <1>6, <1>7, <1>8, <2>3, <4>1
      <4>2. CASE n # fd
        BY <1>8, <1>11, <2>2, <2>4, <3>4, <4>2 DEF Owned
      <4> QED
        BY <4>1, <4>2
    <3> QED
      BY <3>1, <3>2, <3>3, <3>4 DEF Owned
  <2>7. Waits'
    <3>1. EventOf(c)' = <<fd, "READ", c>>
      BY <1>1, <1>6, <1>7, <2>5 DEF EventOf
    <3>2. \A r \in reg : r[1] # fd
      BY <1>4, <1>11, <2>4 DEF Waits, EventOf
    <3>3. reg' = reg \cup {<<fd, "READ", c>>}
      BY <1>5, <3>2
    <3>4. {EventOf(d)' : d \in Live'} = {EventOf(d) : d \in Live} \cup {EventOf(c)'}
      BY <1>8, <2>4
    <3>5. pc' = "sendfile" => answer'[cur'] = "file"
      BY <1>1, <1>11 DEF Waits
    <3> QED
      BY <1>11, <3>1, <3>3, <3>4, <3>5 DEF Waits
  <2> QED
    BY <2>6, <2>7
<1> QED
  BY <1>5, <1>9, <1>10, <1>11 DEF IInv

-----------------------------------------------------------------------------
(* The file of the answer is opened under a number that nobody has.        *)
LEMMA AnsweredIInv ==
  ASSUME HttpAssumption, IInv, NEW c \in Conn, ReadAnswered(c)
  PROVE  IInv'
<1>f. PICK fd : fd = LowestFree
  OBVIOUS
<1>n. PICK n \in 0..MaxSize, readable \in BOOLEAN :
        client' = [client EXCEPT ![c].recv_len = @ + 1, ![c].send_fd = fd,
                                 ![c].send_off = 0, ![c].send_end = n,
                                 ![c].readable = readable]
  BY <1>f DEF ReadAnswered
<1> DEFINE new == [client[c] EXCEPT !.recv_len = client[c].recv_len + 1, !.send_fd = fd,
                                    !.send_off = 0, !.send_end = n,
                                    !.readable = readable]
<1>1. /\ TypeOK /\ Kept /\ client \in Seq(ClientState) /\ c \in DOMAIN client
      /\ client[c] \in ClientState /\ c \in Live /\ pc = "select"
      /\ reused \/ answer[c] # "file"
  BY ReadsWaiting, ClientTyped DEF IInv, ReadAnswered, Receives, Live
<1>2. /\ pc' = pc /\ cur' = cur /\ called_off' = called_off /\ peer' = peer
      /\ connected' = connected /\ drained' = drained
      /\ pieces' \in [Conn -> (0..(RecvMax + 1)) \X (0..(RecvMax + 1))]
      /\ client[c].recv_len < RecvMax /\ ~Broken(c)
  BY <1>1, PiecesTyped DEF ReadAnswered, Receives, threadVars
<1>3. fd \in Fd /\ fd_table[fd] = Nothing /\ fd # accept_sock
  BY <1>f, <1>1, LowestIsFree DEF ReadAnswered, FreeFds, Kept, Nothing
<1>4. /\ fd_table' = [fd_table EXCEPT ![fd] = [kind |-> "file", conn |-> c]]
      /\ reg' = {r \in reg : r[1] # client[c].sock} \cup {<<client[c].sock, "WRITE", c>>}
      /\ answer' = [answer EXCEPT ![c] = "file"]
      /\ reused' = (reused \/ fd = 0)
  BY <1>f DEF ReadAnswered, Opened, WritesInstead
<1>5. /\ new \in ClientState /\ new.live /\ new.sock = client[c].sock
      /\ new.recv_len = client[c].recv_len + 1
      /\ new.send_fd = fd /\ new.send_off = 0 /\ new.send_end = n
  <2>1. client[c].recv_len + 1 \in -1..RecvMax /\ 0 \in 0..MaxSize /\ client[c].live
    BY <1>1, <1>2 DEF ClientState, HttpAssumption, Live
  <2> QED
    BY <1>1, <1>3, <2>1 DEF ClientState
<1>6. client' = [client EXCEPT ![c] = new]
  BY <1>n, <1>1 DEF ClientState
<1> HIDE DEF new
<1>7. /\ client' \in Seq(ClientState) /\ Len(client') = Len(client)
      /\ DOMAIN client' = DOMAIN client /\ client'[c] = new
      /\ \A d \in DOMAIN client : d # c => client'[d] = client[d]
  BY <1>1, <1>5, <1>6
<1>8. Live' = Live
  BY <1>1, <1>5, <1>7 DEF Live
<1>9. TypeOK'
  <2>1. fd_table' \in [Fd -> Open]
    BY <1>1, <1>3, <1>4 DEF TypeOK, Open
  <2>2. reg' \subseteq Fd \X {"READ", "WRITE"} \X (0..MaxConn)
    <3>1. client[c].sock \in Fd /\ c \in 0..MaxConn
      BY <1>1 DEF ClientState, Conn
    <3>2. reg \subseteq Fd \X {"READ", "WRITE"} \X (0..MaxConn)
      BY <1>1 DEF TypeOK
    <3> QED
      BY <1>4, <3>1, <3>2
  <2> QED
    BY <1>1, <1>2, <1>4, <1>7, <2>1, <2>2 DEF TypeOK, ClientState
<1>10. Kept'
  <2>1. fd_table'[accept_sock] = fd_table[accept_sock]
    BY <1>1, <1>3, <1>4 DEF TypeOK
  <2>2. client[c].recv_len >= 0
    BY <1>1, <1>2 DEF Kept, Broken
  <2>3. /\ new.recv_len >= 0 /\ new.sock # accept_sock /\ new.send_fd # accept_sock
        /\ new.send_off <= new.send_end
    BY <1>1, <1>3, <1>5, <2>2 DEF Kept, ClientState
  <2>4. ASSUME NEW d \in DOMAIN client'
        PROVE  /\ peer'[d] # "reported" => client'[d].recv_len >= 0
               /\ client'[d].sock # accept_sock /\ client'[d].send_fd # accept_sock
               /\ client'[d].send_off <= client'[d].send_end
    <3>1. CASE d = c
      BY <1>7, <2>3, <3>1
    <3>2. CASE d # c
      BY <1>1, <1>2, <1>7, <3>2 DEF Kept
    <3> QED
      BY <3>1, <3>2
  <2> QED
    BY <1>1, <1>2, <1>8, <2>1, <2>4 DEF Kept
<1>11. ASSUME ~reused', Owned, Waits PROVE Owned' /\ Waits'
  <2>1. fd # 0 /\ ~reused /\ answer[c] = "none" /\ client[c].send_fd = 0 /\ client[c].sock # 0
    BY <1>1, <1>4, <1>11 DEF Owned
  <2>2. \A m \in Fd \ {fd} : fd_table'[m] = fd_table[m]
    BY <1>1, <1>4 DEF TypeOK
  <2>3. fd_table'[fd] = [kind |-> "file", conn |-> c]
    BY <1>1, <1>3, <1>4 DEF TypeOK
  <2>4. answer'[c] = "file" /\ \A d \in Conn \ {c} : answer'[d] = answer[d]
    BY <1>1, <1>4 DEF TypeOK
  <2>5. ASSUME NEW d \in Live
        PROVE  /\ client[d].sock \in Fd /\ fd_table[client[d].sock] = [kind |-> "sock", conn |-> d]
               /\ fd_table'[client[d].sock] = fd_table[client[d].sock]
    <3>1. d \in DOMAIN client /\ client[d] \in ClientState /\ Holds(d)
      BY <1>1, <1>11, ClientTyped DEF Live, Owned
    <3> QED
      BY <1>3, <2>2, <3>1 DEF ClientState, Holds, Nothing
  <2>6. ASSUME NEW d \in Live, d # c
        PROVE  /\ client'[d] = client[d] /\ answer'[d] = answer[d]
               /\ EventOf(d)' = EventOf(d) /\ Holds(d)'
    <3>1. d \in DOMAIN client /\ client[d] \in ClientState /\ Holds(d) /\ d \in Conn
      BY <1>1, <1>11, ClientTyped DEF Live, Owned
    <3>2. client'[d] = client[d] /\ answer'[d] = answer[d]
      BY <1>7, <2>4, <2>6, <3>1
    <3>3. answer[d] = "file" => fd_table'[client[d].send_fd] = fd_table[client[d].send_fd]
      BY <1>3, <2>2, <3>1 DEF Holds, Nothing, ClientState
    <3> QED
      BY <2>5, <3>1, <3>2, <3>3 DEF Holds, EventOf
  <2>7. Owned'
    <3>1. fd_table'[0].kind \notin {"sock", "file"}
      BY <1>11, <2>1, <2>2 DEF Owned, Fd, HttpAssumption
    <3>2. \A d \in Conn : d > Len(client') => answer'[d] = "none"
      BY <1>1, <1>7, <1>11, <2>4 DEF Owned
    <3>3. ASSUME NEW d \in Live'
          PROVE  /\ client'[d].sock # 0 /\ Holds(d)' /\ answer'[d] \in {"none", "file"}
                 /\ answer'[d] = "none" => client'[d].send_fd = 0
      <4>1. CASE d = c
        BY <1>1, <1>5, <1>7, <2>1, <2>3, <2>4, <2>5, <4>1 DEF Holds
      <4>2. CASE d # c
        BY <1>8, <1>11, <2>6, <4>2 DEF Owned
      <4> QED
        BY <4>1, <4>2
    <3>4. ASSUME NEW m \in Fd, fd_table'[m].kind \in {"sock", "file"}
          PROVE  /\ fd_table'[m].conn \in Live'
                 /\ m \in {client'[fd_table'[m].conn].sock, client'[fd_table'[m].conn].send_fd}
      <4>1. CASE m = fd
        BY <1>1, <1>5, <1>7, <1>8, <2>3, <4>1
      <4>2. CASE m # fd
        <5>1. fd_table'[m] = fd_table[m] /\ m # 0
          BY <1>11, <2>2, <3>4, <4>2 DEF Owned
        <5>2. /\ fd_table[m].conn \in Live
              /\ m \in {client[fd_table[m].conn].sock, client[fd_table[m].conn].send_fd}
          BY <1>11, <3>4, <5>1 DEF Owned
        <5>3. CASE fd_table[m].conn = c
          BY <1>5, <1>7, <1>8, <2>1, <5>1, <5>2, <5>3
        <5>4. CASE fd_table[m].conn # c
          BY <1>8, <2>6, <5>1, <5>2, <5>4
        <5> QED
          BY <5>3, <5>4
      <4> QED
        BY <4>1, <4>2
    <3> QED
      BY <3>1, <3>2, <3>3, <3>4 DEF Owned
  <2>8. Waits'
    <3>1. EventOf(c)' = <<client[c].sock, "WRITE", c>>
      BY <1>5, <1>7, <2>4 DEF EventOf
    <3>2. \A d \in Live : d # c => client[d].sock # client[c].sock
      <4> SUFFICES ASSUME NEW d \in Live, d # c, client[d].sock = client[c].sock PROVE FALSE
        OBVIOUS
      <4>1. Holds(c) /\ Holds(d)
        BY <1>1, <1>11 DEF Owned
      <4>2. fd_table[client[d].sock].conn = d /\ fd_table[client[c].sock].conn = c
        BY <4>1 DEF Holds
      <4> QED
        BY <4>2
    <3>3. \A d \in Live : EventOf(d)[1] = client[d].sock /\ client[d].sock # accept_sock
      BY <1>1 DEF EventOf, Kept, Live
    <3>4. {r \in reg : r[1] # client[c].sock}
            = {<<accept_sock, "READ", 0>>} \cup {EventOf(d) : d \in Live \ {c}}
      BY <1>1, <1>11, <3>2, <3>3 DEF Waits
    <3>5. {EventOf(d)' : d \in Live'} = {EventOf(d) : d \in Live \ {c}} \cup {EventOf(c)'}
      BY <1>1, <1>8, <2>6
    <3> QED
      BY <1>1, <1>2, <1>4, <3>1, <3>4, <3>5 DEF Waits
  <2> QED
    BY <2>7, <2>8
<1> QED
  BY <1>4, <1>9, <1>10, <1>11 DEF IInv

-----------------------------------------------------------------------------
(* The other handlers of a client.                                         *)
LEMMA ClientIInv ==
  ASSUME HttpAssumption, IInv, NEW c \in Conn, Client(c)
  PROVE  IInv'
<1> USE DEF threadVars, remoteVars
<1>1. TypeOK /\ Kept /\ client \in Seq(ClientState) /\ (c \in Live => client[c] \in ClientState)
  BY ClientTyped DEF IInv, Live, TypeOK, ClientState
<1>t. /\ fd_table \in [Fd -> Open]
      /\ pieces \in [Conn -> (0..(RecvMax + 1)) \X (0..(RecvMax + 1))]
      /\ peer \in [Conn -> {"open", "fin", "reset", "reported"}] /\ reused \in BOOLEAN
  BY <1>1 DEF TypeOK
<1>2. CASE ReadTooBig(c)
  <2>1. c \in Live /\ pc = "select"
    BY <1>2, ReadsWaiting DEF ReadTooBig
  <2>2. FreeClient(c, client[c], fd_table) /\ answer' = [answer EXCEPT ![c] = "error"]
    BY <1>2 DEF ReadTooBig, ErrorReply
  <2> QED
    BY <1>2, <1>t, <2>1, <2>2, FreeClientIInv DEF ReadTooBig
<1>3. CASE ReadEof(c)
  <2>1. c \in Live /\ pc = "select"
    BY <1>3, ReadsWaiting DEF ReadEof
  <2> QED
    BY <1>3, <1>t, <2>1, FreeClientIInv DEF ReadEof
<1>4. CASE ReadError(c)
  <2> DEFINE new == [client[c] EXCEPT !.recv_len = client[c].recv_len - 1]
  <2>1. c \in Live /\ client[c] \in ClientState /\ client[c].live
    BY <1>1, <1>4, ReadsWaiting DEF ReadError, Live
  <2>2. client[c].recv_len >= 0
    BY <1>1, <1>4, <2>1 DEF ReadError, Kept, Live
  <2>3. /\ new \in ClientState /\ new.live /\ new.sock = client[c].sock
        /\ new.send_fd = client[c].send_fd /\ new.send_off <= new.send_end
    <3>1. client[c].recv_len - 1 \in -1..RecvMax
      BY <2>1, <2>2 DEF ClientState, HttpAssumption
    <3> QED
      BY <1>1, <2>1, <3>1 DEF ClientState, Kept, Live
  <2>4. client' = [client EXCEPT ![c] = new] /\ peer' = [peer EXCEPT ![c] = "reported"]
    BY <1>4 DEF ReadError
  <2>5. /\ peer'[c] = "reported" /\ \A d \in Conn \ {c} : peer'[d] = peer[d]
        /\ peer' \in [Conn -> {"open", "fin", "reset", "reported"}]
    BY <1>t, <2>4
  <2> HIDE DEF new
  <2> QED
    BY <1>4, <1>t, <2>1, <2>3, <2>4, <2>5, CountsIInv DEF ReadError
<1>5. CASE ReadIncomplete(c)
  <2> DEFINE new == [client[c] EXCEPT !.recv_len = client[c].recv_len + 1]
  <2>1. c \in Live /\ client[c] \in ClientState /\ client[c].live
    BY <1>1, <1>5, ReadsWaiting DEF ReadIncomplete, Receives, Live
  <2>2. client[c].recv_len >= 0 /\ client[c].recv_len < RecvMax
    BY <1>1, <1>5, <2>1 DEF ReadIncomplete, Receives, Kept, Live, Broken
  <2>3. /\ new \in ClientState /\ new.live /\ new.sock = client[c].sock
        /\ new.send_fd = client[c].send_fd /\ new.send_off <= new.send_end
        /\ new.recv_len >= 0
    <3>1. client[c].recv_len + 1 \in -1..RecvMax /\ client[c].recv_len + 1 >= 0
      BY <2>1, <2>2 DEF ClientState, HttpAssumption
    <3>2. client[c].send_off <= client[c].send_end
      BY <1>1, <2>1 DEF Kept, Live
    <3> QED
      BY <2>1, <3>1, <3>2 DEF ClientState
  <2>4. client' = [client EXCEPT ![c] = new]
    BY <1>5 DEF ReadIncomplete
  <2>5. /\ pieces' \in [Conn -> (0..(RecvMax + 1)) \X (0..(RecvMax + 1))]
        /\ connected' = connected /\ drained' = drained
    BY <1>1, <1>5, PiecesTyped DEF ReadIncomplete
  <2> HIDE DEF new
  <2> QED
    BY <1>5, <1>t, <2>1, <2>3, <2>4, <2>5, CountsIInv DEF ReadIncomplete
<1>6. CASE ReadRefused(c)
  <2>1. c \in Live /\ pc = "select" /\ (reused \/ answer[c] # "file")
    BY <1>6, ReadsWaiting DEF ReadRefused, Receives
  <2>2. /\ pieces' \in [Conn -> (0..(RecvMax + 1)) \X (0..(RecvMax + 1))]
        /\ connected' = connected /\ drained' = drained
    BY <1>1, <1>6, PiecesTyped DEF ReadRefused
  <2>3. /\ answer' = [answer EXCEPT ![c] = "error"] /\ peer' = peer /\ reused' = reused
        /\ pc' = pc /\ cur' = cur /\ called_off' = called_off
    BY <1>6 DEF ReadRefused, ErrorReply
  <2>4. CASE FreeClient(c, client[c], fd_table)
    BY <1>t, <2>1, <2>2, <2>3, <2>4, FreeClientIInv
  <2>5. CASE FreeClient(c, [client[c] EXCEPT !.send_fd = -1], fd_table)
    <3> DEFINE cl == [client[c] EXCEPT !.send_fd = -1]
    <3>1. cl.sock = client[c].sock /\ cl.send_fd = -1
      BY <1>1, <2>1 DEF ClientState
    <3>2. FreeClient(c, cl, fd_table)
      BY <2>5
    <3> HIDE DEF cl
    <3> QED
      BY <1>t, <2>1, <2>2, <2>3, <3>1, <3>2, FreeClientIInv
  <2> QED
    BY <1>6, <2>4, <2>5 DEF ReadRefused, ErrorReply
<1>7. CASE ReadAnswered(c)
  BY <1>7, AnsweredIInv
<1>8. CASE ReadHeaderFails(c)
  <2>1. c \in Live /\ pc = "select" /\ (reused \/ answer[c] # "file")
    BY <1>8, ReadsWaiting DEF ReadHeaderFails, Receives
  <2>2. /\ pieces' \in [Conn -> (0..(RecvMax + 1)) \X (0..(RecvMax + 1))]
        /\ connected' = connected /\ drained' = drained
    BY <1>1, <1>8, PiecesTyped DEF ReadHeaderFails
  <2>3. LowestFree \in FreeFds /\ LowestFree \in Fd
    BY <1>8, LowestIsFree DEF ReadHeaderFails, FreeFds
  <2> DEFINE cl == [client[c] EXCEPT !.send_fd = LowestFree]
             table == Opened(c, LowestFree)
  <2>4. /\ table \in [Fd -> Open]
        /\ \A fd \in Fd : fd # LowestFree => table[fd] = fd_table[fd]
    BY <1>t, <2>3 DEF Opened, Open
  <2>5. cl.sock = client[c].sock /\ cl.send_fd = LowestFree
    BY <1>1, <2>1 DEF ClientState
  <2>6. /\ FreeClient(c, cl, table)
        /\ answer' = [answer EXCEPT ![c] = "error"] /\ peer' = [peer EXCEPT ![c] = "reported"]
        /\ reused' = (reused \/ LowestFree = 0)
        /\ pc' = pc /\ cur' = cur /\ called_off' = called_off
    BY <1>8 DEF ReadHeaderFails, ErrorReply
  <2> HIDE DEF cl, table
  <2> QED
    BY <1>t, <2>1, <2>2, <2>3, <2>4, <2>5, <2>6, FreeClientIInv
<1>9. CASE WriteDone(c)
  <2>1. c \in Live /\ pc = "select"
    BY <1>9, WritesWaiting DEF WriteDone
  <2> QED
    BY <1>9, <1>t, <2>1, FreeClientIInv DEF WriteDone
<1>10. CASE CallSendfile(c)
  <2>1. c \in Live /\ (reused \/ answer[c] = "file") /\ client[c].send_off \in 0..MaxSize
    BY <1>1, <1>10, WritesWaiting DEF CallSendfile, ClientState
  <2>2. Live' = Live /\ (\A d : Holds(d)' <=> Holds(d)) /\ \A d : EventOf(d)' = EventOf(d)
    BY <1>10 DEF CallSendfile, Live, Holds, EventOf
  <2>a. cur' \in 0..MaxConn /\ called_off' \in 0..MaxSize /\ pc' = "sendfile"
    BY <1>10, <2>1 DEF CallSendfile, Conn
  <2>b. UNCHANGED <<fd_table, reg, client, connected, pieces, peer, drained, answer, reused>>
    BY <1>10 DEF CallSendfile
  <2>3. TypeOK'
    BY <1>1, <2>a, <2>b DEF TypeOK
  <2>4. Kept'
    BY <1>1, <1>10, <2>1, <2>2 DEF CallSendfile, Kept
  <2>5. Owned => Owned'
    BY <1>10, <2>2 DEF CallSendfile, Owned
  <2>6. ~reused /\ Waits => Waits'
    BY <1>10, <2>1, <2>2 DEF CallSendfile, Waits
  <2> QED
    BY <1>10, <2>3, <2>4, <2>5, <2>6 DEF CallSendfile, IInv
<1> QED
  BY <1>2, <1>3, <1>4, <1>5, <1>6, <1>7, <1>8, <1>9, <1>10 DEF Client

(* What happens while the thread is in sendfile.                           *)
LEMMA SendfileIInv ==
  ASSUME HttpAssumption, IInv, SendBlock \/ SendfileReturns \/ SendfileFails
  PROVE  IInv'
<1> USE DEF threadVars, remoteVars
<1>1. /\ TypeOK /\ Kept /\ client \in Seq(ClientState)
      /\ cur \in Live /\ client[cur] \in ClientState /\ pc = "sendfile"
  <2>1. pc = "sendfile" /\ cur \in Live
    BY DEF IInv, Kept, SendBlock, SendfileReturns, SendfileFails
  <2> QED
    BY <2>1, ClientTyped DEF IInv, Live
<1>t. /\ fd_table \in [Fd -> Open]
      /\ pieces \in [Conn -> (0..(RecvMax + 1)) \X (0..(RecvMax + 1))]
      /\ peer \in [Conn -> {"open", "fin", "reset", "reported"}] /\ reused \in BOOLEAN
  BY <1>1 DEF TypeOK
<1>2. CASE SendBlock
  <2>c. PICK c : c = cur
    OBVIOUS
  <2> DEFINE new == [client[c] EXCEPT !.send_off = client[c].send_off + 1]
  <2>1. client[c].send_off + 1 \in 0..MaxSize /\ client[c].send_off + 1 <= client[c].send_end
    BY <1>1, <1>2, <2>c DEF SendBlock, ClientState, HttpAssumption
  <2>2. /\ new \in ClientState /\ new.live /\ new.sock = client[c].sock
        /\ new.send_fd = client[c].send_fd /\ new.send_off <= new.send_end
        /\ new.recv_len = client[c].recv_len
    BY <1>1, <2>c, <2>1 DEF ClientState, Live
  <2>3. client' = [client EXCEPT ![c] = new]
    BY <1>2, <2>c DEF SendBlock
  <2>4. c \in Live /\ peer' = peer /\ (peer'[c] # "reported" => new.recv_len >= 0)
    BY <1>1, <1>2, <2>c, <2>2 DEF Kept, Live, SendBlock
  <2> HIDE DEF new
  <2> QED
    BY <1>2, <1>t, <2>2, <2>3, <2>4, CountsIInv DEF SendBlock
<1>3. CASE SendfileReturns
  <2>2. Live' = Live /\ (\A d : Holds(d)' <=> Holds(d)) /\ \A d : EventOf(d)' = EventOf(d)
    BY <1>3 DEF SendfileReturns, Live, Holds, EventOf
  <2>3. TypeOK'
    BY <1>1, <1>3 DEF SendfileReturns, TypeOK
  <2>4. Kept'
    BY <1>1, <1>3, <2>2 DEF SendfileReturns, Kept
  <2>5. Owned => Owned'
    BY <1>3, <2>2 DEF SendfileReturns, Owned
  <2>6. Waits => Waits'
    BY <1>3, <2>2 DEF SendfileReturns, Waits
  <2> QED
    BY <1>3, <2>3, <2>4, <2>5, <2>6 DEF SendfileReturns, IInv
<1>4. CASE SendfileFails
  <2>c. PICK c : c = cur
    OBVIOUS
  <2> QED
    BY <1>1, <1>4, <1>t, <2>c, FreeClientIInv DEF SendfileFails
<1> QED
  BY <1>2, <1>3, <1>4

LEMMA NextIInv ==
  ASSUME HttpAssumption, IInv, [Next]_vars
  PROVE  IInv'
<1>1. CASE http_server_select_accept
  BY <1>1, AcceptIInv
<1>2. ASSUME NEW c \in Conn, Client(c) PROVE IInv'
  BY <1>2, ClientIInv
<1>3. CASE SendBlock \/ SendfileReturns \/ SendfileFails
  BY <1>3, SendfileIInv
<1>4. CASE CallbackOnCleared
  <2>1. ASSUME Waits PROVE FALSE
    <3>1. PICK r \in reg : r[3] # 0 /\ ~client[r[3]].live
      BY <1>4 DEF CallbackOnCleared
    <3>2. PICK d \in Live : r = EventOf(d)
      BY <2>1, <3>1 DEF Waits
    <3> QED
      BY <3>1, <3>2 DEF EventOf, Live
  <2>2. TypeOK'
    BY <1>4 DEF CallbackOnCleared, IInv, TypeOK, remoteVars
  <2>3. Kept'
    BY <1>4 DEF CallbackOnCleared, IInv, Kept, remoteVars
  <2> QED
    BY <1>4, <2>1, <2>2, <2>3 DEF CallbackOnCleared, IInv
<1>5. CASE Remote
  BY <1>5, RemoteIInv
<1>6. CASE UNCHANGED vars
  <2>1. Live' = Live /\ (\A d : Holds(d)' <=> Holds(d)) /\ \A d : EventOf(d)' = EventOf(d)
    BY <1>6 DEF vars, Live, Holds, EventOf
  <2>2. TypeOK' /\ Kept'
    BY <1>6, <2>1 DEF vars, threadVars, remoteVars, IInv, TypeOK, Kept
  <2>3. reused' = reused /\ (Owned => Owned') /\ (Waits => Waits')
    BY <1>6, <2>1 DEF vars, threadVars, remoteVars, Owned, Waits
  <2> QED
    BY <2>2, <2>3 DEF IInv
<1> QED
  BY <1>1, <1>2, <1>3, <1>4, <1>5, <1>6 DEF Next, Thread

(* The end of a client whose file was announced comes in one of two        *)
(* places: when all is sent, and when sendfile fails, because the          *)
(* connection is gone or the file cannot be read.                          *)
LEMMA FileSentStep ==
  ASSUME HttpAssumption, IInv, [Next]_vars
  PROVE  FileSent
<1> SUFFICES ASSUME NEW c \in Live, ~reused, answer[c] = "file", client[c].readable,
                    ~client'[c].live
             PROVE  Broken(c) \/ client[c].send_off = client[c].send_end
  BY DEF FileSent
<1>1. /\ c \in DOMAIN client /\ client[c].live /\ client \in Seq(ClientState)
      /\ client[c] \in ClientState
  BY ClientTyped DEF IInv, Live
<1>2. client'[c] # client[c]
  BY <1>1
<1>3. CASE http_server_select_accept
  BY <1>1, <1>2, <1>3 DEF http_server_select_accept
<1>4. ASSUME NEW d \in Conn, Client(d), d # c PROVE FALSE
  BY <1>1, <1>2, <1>4
     DEF Client, ReadTooBig, ReadEof, ReadError, ReadIncomplete, ReadRefused, ReadAnswered,
         ReadHeaderFails, WriteDone, CallSendfile, ErrorReply, FreeClient
<1>5. CASE Client(c) /\ c \in Conn
  <2>1. ~Reads(c)
    BY <1>5, ReadsWaiting
  <2>2. WriteDone(c) \/ CallSendfile(c)
    BY <1>5, <2>1
       DEF Client, ReadTooBig, ReadEof, ReadError, ReadIncomplete, ReadRefused, ReadAnswered,
           ReadHeaderFails, Receives
  <2>3. WriteDone(c)
    BY <1>2, <2>2 DEF CallSendfile
  <2> QED
    BY <1>1, <2>3 DEF WriteDone, Sent, IInv, Kept, ClientState
<1>6. CASE SendBlock
  BY <1>1, <1>6 DEF SendBlock, ClientState
<1>7. CASE SendfileFails
  <2>1. c = cur
    BY <1>1, <1>2, <1>7 DEF SendfileFails, FreeClient
  <2> QED
    BY <1>7, <2>1 DEF SendfileFails, CutShort
<1>8. CASE SendfileReturns \/ CallbackOnCleared \/ Remote \/ UNCHANGED vars
  BY <1>2, <1>8 DEF SendfileReturns, CallbackOnCleared, Remote, vars
<1> QED
  BY <1>3, <1>4, <1>5, <1>6, <1>7, <1>8 DEF Next, Thread

LEMMA IInvImplies == IInv => TypeOK /\ Ownership /\ OneEvent
<1> SUFFICES ASSUME IInv PROVE TypeOK /\ Ownership /\ OneEvent
  OBVIOUS
<1>1. Ownership
  BY DEF IInv, Owned, Ownership
<1>2. OneEvent
  BY DEF IInv, Waits, EventOf, OneEvent
<1> QED
  BY <1>1, <1>2 DEF IInv

-----------------------------------------------------------------------------
(* http_server.c: for any number of connections and descriptors, until     *)
(* descriptor 0 is handed out again, what is open is what the live clients *)
(* hold, each its own, and each waits for the one event it should.         *)
THEOREM DescriptorsOwned ==
  ASSUME HttpAssumption
  PROVE  Spec => [](TypeOK /\ Ownership /\ OneEvent)
<1>1. Init => IInv
  BY InitIInv
<1>2. IInv /\ [Next]_vars => IInv'
  BY NextIInv
<1> QED
  BY <1>1, <1>2, IInvImplies, PTL DEF Spec

(* http_server_client_select_write: no client is freed before the whole of *)
(* its file was given to the kernel, but one whose connection broke or     *)
(* whose file sendfile cannot read.                                        *)
THEOREM FilesSentWhole ==
  ASSUME HttpAssumption
  PROVE  Spec => WholeFile
<1>1. Init => IInv
  BY InitIInv
<1>2. IInv /\ [Next]_vars => IInv' /\ FileSent
  BY NextIInv, FileSentStep
<1> QED
  BY <1>1, <1>2, PTL DEF Spec, WholeFile
=============================================================================
