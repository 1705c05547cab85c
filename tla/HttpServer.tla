----------------------------- MODULE HttpServer -----------------------------
(***************************************************************************)
(* http_server.c: clients of the event loop that read a request, answer    *)
(* with a file and close.  What matters here is which descriptor belongs   *)
(* to whom: the kernel hands out the lowest free number, and a handler     *)
(* closes numbers it finds in its client structure.  Sockets are blocking: *)
(* sendfile keeps the one thread until the file is sent.  A request comes  *)
(* in pieces; what http_header_parse and stat say of it is chosen freely.  *)
(* Files keep their size while they are sent; what was opened may be no    *)
(* file that sendfile can read, such as a directory.                       *)
(***************************************************************************)
EXTENDS Integers, Sequences

CONSTANTS
  MaxConn,  (* bound: how many connections are ever made                   *)
  MaxFd,    (* the last descriptor the process may have                    *)
  RecvMax,  (* HTTP_SERVER_CLIENT_BUF_MAX, in pieces                       *)
  MaxSize,  (* bound: the size of a file, in blocks                        *)
  TxMax     (* blocks the kernel queues before sendfile blocks             *)

(* There is a descriptor for accept_sock.                                  *)
HttpAssumption ==
  /\ MaxConn \in Nat
  /\ MaxFd \in Nat \ {0}
  /\ RecvMax \in Nat
  /\ MaxSize \in Nat
  /\ TxMax \in Nat

Conn == 1..MaxConn

Fd == 0..MaxFd

(* Descriptor 0 is open when the program starts.  Only one other number is *)
(* spent on descriptors that stay open, the one of accept_sock.            *)
accept_sock == 1

VARIABLES
  fd_table,   (* what every descriptor is open on, see Open                *)
  reg,        (* the fdselect registrations: <<fd, event, client>>         *)
  client,     (* the client structures, in the order of their connections  *)
  pc, cur,    (* the thread: in select or in the sendfile of client cur,   *)
              (* or crashed on a client structure that was cleared         *)
  called_off, (* send_off when sendfile was called                         *)
  (* the remote ends, per connection                                       *)
  connected,  (* how many connections were made                            *)
  pieces,     (* <<sent, received>>                                        *)
  peer,       (* "open", "fin", "reset", or "reported" reset               *)
  answer,     (* "none", "file", or "error"                                *)
  drained,    (* blocks of the file the remote end took                    *)
  reused      (* descriptor 0 was handed out again                         *)

remoteVars == <<connected, pieces, peer, drained>>
threadVars == <<pc, cur, called_off>>
vars == <<fd_table, reg, client, threadVars, remoteVars, answer, reused>>

Open == [kind : {"free", "stdin", "accept"}, conn : {0}] \cup [kind : {"sock", "file"}, conn : Conn]

Nothing == [kind |-> "free", conn |-> 0]

FreeFds == {fd \in Fd : fd_table[fd] = Nothing}

LowestFree == CHOOSE fd \in FreeFds : \A other \in FreeFds : fd <= other

(* memset(client, 0, ...).  Whether what send_fd is open on can be read to *)
(* its end is known to nobody, and not in the structure.                   *)
Cleared ==
  [live |-> FALSE, sock |-> 0, recv_len |-> 0, send_fd |-> 0, send_off |-> 0, send_end |-> 0,
   readable |-> TRUE]

Init ==
  /\ fd_table = [fd \in Fd |-> CASE fd = 0           -> [kind |-> "stdin", conn |-> 0]
                                 [] fd = accept_sock -> [kind |-> "accept", conn |-> 0]
                                 [] OTHER            -> Nothing]
  /\ reg = {<<accept_sock, "READ", 0>>}
  /\ client = <<>>
  /\ pc = "select"
  /\ cur = 0
  /\ called_off = 0
  /\ connected = 0
  /\ pieces = [c \in Conn |-> <<0, 0>>]
  /\ peer = [c \in Conn |-> "open"]
  /\ answer = [c \in Conn |-> "none"]
  /\ drained = [c \in Conn |-> 0]
  /\ reused = FALSE

-----------------------------------------------------------------------------
(* The remote ends.                                                        *)
Connect ==
  /\ connected < MaxConn
  /\ connected' = connected + 1
  /\ UNCHANGED <<pieces, peer, drained>>

SendPiece(c) ==
  /\ peer[c] = "open"
  /\ pieces[c][1] <= RecvMax
  /\ pieces' = [pieces EXCEPT ![c][1] = @ + 1]
  /\ UNCHANGED <<connected, peer, drained>>

Leave(c) ==
  /\ peer[c] \in {"open", "fin"}
  /\ peer' \in {[peer EXCEPT ![c] = p] : p \in {"fin", "reset"} \ {peer[c]}}
  /\ UNCHANGED <<connected, pieces, drained>>

Drain(c) ==
  /\ c \in DOMAIN client
  /\ client[c].send_off > drained[c]
  /\ drained' = [drained EXCEPT ![c] = @ + 1]
  /\ UNCHANGED <<connected, pieces, peer>>

Remote ==
  /\ Connect \/ \E c \in 1..connected : SendPiece(c) \/ Leave(c) \/ Drain(c)
  /\ UNCHANGED <<fd_table, reg, client, threadVars, answer, reused>>

-----------------------------------------------------------------------------
Broken(c) == peer[c] \in {"reset", "reported"}

Room(c) == client[c].send_off - drained[c] < TxMax

(* What select(2) reports.  It fails, and no callback is called, when a    *)
(* registered descriptor is not open.                                      *)
Ready(fd, e) ==
  LET c == fd_table[fd].conn
  IN  \/ fd_table[fd].kind = "accept" /\ connected > Len(client)
      \/ fd_table[fd].kind = "sock" /\
           IF e = "READ" THEN pieces[c][1] > pieces[c][2] \/ peer[c] # "open"
                         ELSE Broken(c) \/ Room(c)

Called(r) ==
  /\ pc = "select"
  /\ \A s \in reg : fd_table[s[1]] # Nothing
  /\ r \in reg
  /\ Ready(r[1], r[2])

CloseFd(table, fd) == IF fd \in Fd THEN [table EXCEPT ![fd] = Nothing] ELSE table

(* Mutant: the file stays open.                                            *)
FreeClientKeepsFile(c, cl, table) ==
  /\ fd_table' = IF cl.sock # 0 THEN CloseFd(table, cl.sock) ELSE table
  /\ reg' = IF cl.sock # 0 THEN {r \in reg : r[1] # cl.sock} ELSE reg
  /\ client' = [client EXCEPT ![c] = Cleared]

(* http_server_client_free of a client structure cl that is not cleared.   *)
(* A client that never opened a file has the 0 of memset in send_fd.       *)
FreeClient(c, cl, table) ==
  LET closed == CloseFd(table, cl.send_fd)
  IN  /\ fd_table' = IF cl.sock # 0 THEN CloseFd(closed, cl.sock) ELSE closed
      /\ reg' = IF cl.sock # 0 THEN {r \in reg : r[1] # cl.sock} ELSE reg
      /\ client' = [client EXCEPT ![c] = Cleared]

(* A callback on a cleared client structure: it goes to                    *)
(* http_server_client_free, which clears the null pool.                    *)
CallbackOnCleared ==
  /\ \E r \in reg : Called(r) /\ r[3] # 0 /\ ~client[r[3]].live
  /\ pc' = "crashed"
  /\ UNCHANGED <<fd_table, reg, client, cur, called_off, remoteVars, answer, reused>>

(* http_server_select_accept.  Without a free descriptor accept fails and  *)
(* the connection stays in the queue.                                      *)
http_server_select_accept ==
  /\ Called(<<accept_sock, "READ", 0>>)
  /\ FreeFds # {}
  /\ LET c == Len(client) + 1
         fd == LowestFree
     IN  /\ fd_table' = [fd_table EXCEPT ![fd] = [kind |-> "sock", conn |-> c]]
         /\ client' = Append(client, [Cleared EXCEPT !.live = TRUE, !.sock = fd])
         /\ reg' = {r \in reg : <<r[1], r[2]>> # <<fd, "READ">>} \cup {<<fd, "READ", c>>}
         /\ reused' = (reused \/ fd = 0)
  /\ UNCHANGED <<threadVars, remoteVars, answer>>

-----------------------------------------------------------------------------
(* http_server_client_select_read, one action for each way through it.     *)
Reads(c) ==
  /\ c \in DOMAIN client
  /\ client[c].live
  /\ \E r \in reg : r[2] = "READ" /\ r[3] = c /\ Called(r)

(* An error answer, which may not arrive, and the end of the client.       *)
ErrorReply(c, cl, table) ==
  /\ answer' = [answer EXCEPT ![c] = "error"]
  /\ FreeClient(c, cl, table)

ReadTooBig(c) ==
  /\ Reads(c)
  /\ client[c].recv_len >= RecvMax
  /\ ErrorReply(c, client[c], fd_table)
  /\ UNCHANGED <<threadVars, remoteVars, reused>>

(* The end of the stream: the client is freed without an answer.           *)
ReadEof(c) ==
  /\ Reads(c)
  /\ client[c].recv_len < RecvMax
  /\ peer[c] = "reported" \/ (peer[c] = "fin" /\ pieces[c][1] = pieces[c][2])
  /\ FreeClient(c, client[c], fd_table)
  /\ UNCHANGED <<threadVars, remoteVars, answer, reused>>

(* An error of recv passes the assertion and is counted as -1 bytes; what  *)
(* is there of the request is still incomplete.                            *)
ReadError(c) ==
  /\ Reads(c)
  /\ client[c].recv_len < RecvMax
  /\ peer[c] = "reset"
  /\ peer' = [peer EXCEPT ![c] = "reported"]
  /\ client' = [client EXCEPT ![c].recv_len = @ - 1]
  /\ UNCHANGED <<fd_table, reg, threadVars, connected, pieces, drained, answer, reused>>

(* Mutant: the size of the buffer is not looked at.                        *)
ReceivesMore(c) ==
  /\ Reads(c)
  /\ ~Broken(c)
  /\ pieces[c][1] > pieces[c][2]
  /\ pieces' = [pieces EXCEPT ![c][2] = @ + 1]
  /\ UNCHANGED <<connected, drained>>

(* A piece of the request is received.                                     *)
Receives(c) ==
  /\ Reads(c)
  /\ client[c].recv_len < RecvMax
  /\ ~Broken(c)
  /\ pieces[c][1] > pieces[c][2]
  /\ pieces' = [pieces EXCEPT ![c][2] = @ + 1]
  /\ UNCHANGED <<connected, drained>>

ReadIncomplete(c) ==
  /\ Receives(c)
  /\ client' = [client EXCEPT ![c].recv_len = @ + 1]
  /\ UNCHANGED <<fd_table, reg, threadVars, peer, answer, reused>>

(* The request is malformed, or names no file, or there is no descriptor   *)
(* for the file: then open leaves -1 in send_fd.                           *)
ReadRefused(c) ==
  /\ Receives(c)
  /\ \/ ErrorReply(c, client[c], fd_table)
     \/ FreeFds = {} /\ ErrorReply(c, [client[c] EXCEPT !.send_fd = -1], fd_table)
  /\ UNCHANGED <<threadVars, peer, reused>>

Opened(c, fd) == [fd_table EXCEPT ![fd] = [kind |-> "file", conn |-> c]]

(* Mutant: the client goes on reading.                                     *)
WritesInsteadForgets(c) == reg

(* Mutant: reading is not given up.                                        *)
WritesToo(c) == reg \cup {<<client[c].sock, "WRITE", c>>}

(* Stop reading and start writing.                                         *)
WritesInstead(c) ==
  {r \in reg : r[1] # client[c].sock} \cup {<<client[c].sock, "WRITE", c>>}

(* The file is opened and the header of the answer sent.                   *)
ReadAnswered(c) ==
  /\ Receives(c)
  /\ FreeFds # {}
  /\ \E n \in 0..MaxSize, readable \in BOOLEAN :
       /\ n > 0 \/ readable
       /\ client' = [client EXCEPT ![c].recv_len = @ + 1, ![c].send_fd = LowestFree,
                                   ![c].send_off = 0, ![c].send_end = n,
                                   ![c].readable = readable]
  /\ fd_table' = Opened(c, LowestFree)
  /\ reg' = WritesInstead(c)
  /\ answer' = [answer EXCEPT ![c] = "file"]
  /\ reused' = (reused \/ LowestFree = 0)
  /\ UNCHANGED <<threadVars, peer>>

(* The header cannot be sent: the remote end went after the recv.          *)
ReadHeaderFails(c) ==
  /\ Receives(c)
  /\ peer' = [peer EXCEPT ![c] = "reported"]
  /\ FreeFds # {}
  /\ ErrorReply(c, [client[c] EXCEPT !.send_fd = LowestFree], Opened(c, LowestFree))
  /\ reused' = (reused \/ LowestFree = 0)
  /\ UNCHANGED threadVars

-----------------------------------------------------------------------------
(* http_server_client_select_write.                                        *)
Writes(c) ==
  /\ c \in DOMAIN client
  /\ client[c].live
  /\ \E r \in reg : r[2] = "WRITE" /\ r[3] = c /\ Called(r)

(* Mutant: a file is taken to be sent when its last block is left.         *)
SentOffByOne(c) == client[c].send_off + 1 >= client[c].send_end

Sent(c) == client[c].send_off >= client[c].send_end

WriteDone(c) ==
  /\ Writes(c)
  /\ Sent(c)
  /\ FreeClient(c, client[c], fd_table)
  /\ UNCHANGED <<threadVars, remoteVars, answer, reused>>

CallSendfile(c) ==
  /\ Writes(c)
  /\ ~Sent(c)
  /\ pc' = "sendfile"
  /\ cur' = c
  /\ called_off' = client[c].send_off
  /\ UNCHANGED <<fd_table, reg, client, remoteVars, answer, reused>>

SendBlock ==
  /\ pc = "sendfile"
  /\ client[cur].send_off < client[cur].send_end
  /\ ~Broken(cur)
  /\ Room(cur)
  /\ client' = [client EXCEPT ![cur].send_off = @ + 1]
  /\ UNCHANGED <<fd_table, reg, threadVars, remoteVars, answer, reused>>

(* The remote end has gone, or the file cannot be read.                    *)
CutShort == Broken(cur) \/ ~client[cur].readable

(* sendfile returns what it sent, all of it or less.                       *)
SendfileReturns ==
  /\ pc = "sendfile"
  /\ \/ client[cur].send_off = client[cur].send_end
     \/ CutShort /\ client[cur].send_off > called_off
  /\ pc' = "select"
  /\ UNCHANGED <<fd_table, reg, client, cur, called_off, remoteVars, answer, reused>>

SendfileFails ==
  /\ pc = "sendfile"
  /\ CutShort
  /\ client[cur].send_off = called_off
  /\ FreeClient(cur, client[cur], fd_table)
  /\ pc' = "select"
  /\ UNCHANGED <<cur, called_off, remoteVars, answer, reused>>

Client(c) ==
  \/ ReadTooBig(c)
  \/ ReadEof(c)
  \/ ReadError(c)
  \/ ReadIncomplete(c)
  \/ ReadRefused(c)
  \/ ReadAnswered(c)
  \/ ReadHeaderFails(c)
  \/ WriteDone(c)
  \/ CallSendfile(c)

Thread ==
  \/ http_server_select_accept
  \/ \E c \in Conn : Client(c)
  \/ SendBlock
  \/ SendfileReturns
  \/ SendfileFails
  \/ CallbackOnCleared

Next == Thread \/ Remote

Spec == Init /\ [][Next]_vars

(* The main loop goes on and the remote ends read what is sent to them.    *)
Fairness ==
  /\ WF_vars(Thread)
  /\ \A c \in Conn : WF_vars(Remote /\ Drain(c))

FairSpec == Spec /\ Fairness

-----------------------------------------------------------------------------
TypeOK ==
  /\ fd_table \in [Fd -> Open]
  /\ reg \subseteq Fd \X {"READ", "WRITE"} \X (0..MaxConn)
  /\ client \in Seq([live : BOOLEAN, sock : Fd, recv_len : -1..RecvMax, send_fd : Fd,
                     send_off : 0..MaxSize, send_end : 0..MaxSize, readable : BOOLEAN])
  /\ Len(client) <= connected
  /\ pc \in {"select", "sendfile", "crashed"}
  /\ cur \in 0..MaxConn
  /\ called_off \in 0..MaxSize
  /\ connected \in 0..MaxConn
  /\ pieces \in [Conn -> (0..(RecvMax + 1)) \X (0..(RecvMax + 1))]
  /\ peer \in [Conn -> {"open", "fin", "reset", "reported"}]
  /\ answer \in [Conn -> {"none", "file", "error"}]
  /\ drained \in [Conn -> 0..MaxSize]
  /\ reused \in BOOLEAN

Live == {c \in DOMAIN client : client[c].live}

(* The descriptors a client holds are open on its own socket and its own   *)
(* file.                                                                   *)
Holds(c) ==
  /\ fd_table[client[c].sock] = [kind |-> "sock", conn |-> c]
  /\ answer[c] = "file" => fd_table[client[c].send_fd] = [kind |-> "file", conn |-> c]

(* The open sockets and files are exactly those of the live clients: one  *)
(* client's end, at whatever point and with whatever it has opened, closes *)
(* all of its own descriptors and none that the kernel has meanwhile given *)
(* to another.  True until descriptor 0, which every client that opened no *)
(* file closes ("if( client->send_fd >= 0 )"), is handed out again.        *)
Ownership ==
  reused \/
    /\ \A c \in Live : Holds(c)
    /\ \A fd \in Fd : fd_table[fd].kind \in {"sock", "file"} =>
         /\ fd_table[fd].conn \in Live
         /\ fd \in {client[fd_table[fd].conn].sock, client[fd_table[fd].conn].send_fd}

(* A live client waits for exactly one event, for its request until it was *)
(* answered and for room after that, and nobody else is called.            *)
OneEvent ==
  reused \/
    reg = {<<accept_sock, "READ", 0>>} \cup
          {<<client[c].sock, IF answer[c] = "file" THEN "WRITE" ELSE "READ", c>> : c \in Live}

(* A client whose file was announced, and can be read, is freed only when  *)
(* the whole file was handed to the kernel, or the remote end broke the    *)
(* connection.  The server also announces what cannot be read, and closes  *)
(* after less.                                                             *)
FileSent ==
  \A c \in Live :
    ~reused /\ answer[c] = "file" /\ client[c].readable /\ ~client'[c].live =>
    Broken(c) \/ client[c].send_off = client[c].send_end

WholeFile == [][FileSent]_vars

(* Every client whose file was announced is served to the end and its      *)
(* connection closed, although sendfile blocks the thread for one client   *)
(* after the other.                                                        *)
Served ==
  \A c \in Conn : answer[c] = "file" ~> (c \notin Live \/ reused)
=============================================================================
