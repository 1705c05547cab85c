------------------------------ MODULE MCSystem ------------------------------
(***************************************************************************)
(* What runs in a program of the library: send lists, a server, an update, *)
(* keys, states that are retried, children, and the loop and a service of  *)
(* Windows.  They share no state, so a behaviour is one of them, the       *)
(* others stay as they are: SendList, which this module extends, or one of *)
(* the instances, whose variables are v1 and on.                           *)
(***************************************************************************)
EXTENDS SendList

CONSTANTS
  Machines,                                 (* those of the parts that are run  *)
  MaxConn, MaxFd, RecvMax, MaxSize,         (* the server, see HttpServer       *)
  QueueMax,                                 (* ... what is its TxMax            *)
  CryptHandle, KeyPair, RsaSize, KeyLen,    (* the keys, see CryptBk            *)
  MaxText,
  Table, MaxNow,                            (* the states, see State            *)
  Child,                                    (* the children: Proc and ProcPipe  *)
  InLen, OutLen, stdout_len, Cap, ReadsToEnd,                   (* see ProcWin  *)
  Ctl,                                                       (* see ServiceWin  *)
  WinFd, WinFunc, NoFunc, EventArgs, Handle, HandleCalls    (* see FdselectWin  *)

VARIABLES
  which,
  v1, v2, v3, v4, v5, v6, v7, v8, v9, v10, v11, v12, v13, v14, v15

-----------------------------------------------------------------------------
(* The variables from one on that a part has no use for.                   *)
v15on == <<v15>>
v14on == <<v14, v15on>>
v13on == <<v13, v14on>>
v12on == <<v12, v13on>>
v11on == <<v11, v12on>>
v10on == <<v10, v11on>>
v9on == <<v9, v10on>>
v8on == <<v8, v9on>>
v7on == <<v7, v8on>>
v6on == <<v6, v7on>>
v5on == <<v5, v6on>>
v4on == <<v4, v5on>>
v1on == <<v1, v2, v3, v4on>>
Off15 == v15 = 0
Off14 == v14 = 0 /\ Off15
Off13 == v13 = 0 /\ Off14
Off12 == v12 = 0 /\ Off13
Off11 == v11 = 0 /\ Off12
Off10 == v10 = 0 /\ Off11
Off9 == v9 = 0 /\ Off10
Off8 == v8 = 0 /\ Off9
Off7 == v7 = 0 /\ Off8
Off6 == v6 = 0 /\ Off7
Off5 == v5 = 0 /\ Off6
Off4 == v4 = 0 /\ Off5
Off3 == v3 = 0 /\ Off4
Off2 == v2 = 0 /\ Off3
Off1 == v1 = 0 /\ Off2

allVars == <<which, v1on, vars>>

-----------------------------------------------------------------------------
(* Replies of all kinds: good, wrong and no status, a message, one of one  *)
(* letter or none, spaces after colons or none, both line ends, and        *)
(* headers with an empty value, with two lines, with the length of the     *)
(* data, and with names and values of one letter.                          *)
Header(key, val) == [key |-> key, val |-> val]
Replies(statuses) ==
  [status : statuses, message : {<<>>, <<"a">>, <<"a", "sp", "b">>}, spaced : BOOLEAN,
   crlf : BOOLEAN, body : {<<"nl", "x">>},
   headers : {<<>>,
              <<Header(<<"a", "b">>, <<>>), Header(<<"content-length">>, <<"12">>)>>,
              <<Header(<<"b", "b">>, <<"a", "nl", "sp", "b">>)>>,
              <<Header(<<"content-length">>, <<"5">>), Header(<<"b">>, <<"a">>)>>}]
TheDescription ==
  {[status |-> "200", message |-> <<>>, headers |-> <<>>, spaced |-> TRUE,
    crlf |-> TRUE, body |-> <<>>]}

(* Two states that follow each other, and one whose next is not there.     *)
Entry(state, interval, max, next) ==
  [state |-> state, interval |-> interval, max |-> max, next |-> next]
(* The lengths of two blocks: there is no room for the sums in the second.  *)
TheSizes == <<13, 12>>

TheTable == <<Entry("a", 1, 2, "b"), Entry("b", 2, 1, "a"), Entry("c", 1, 3, "gone")>>

H == INSTANCE HttpServerProofs WITH
       TxMax <- QueueMax,
       fd_table <- v1, reg <- v2, client <- v3, pc <- v4, cur <- v5,
       called_off <- v6, connected <- v7, pieces <- v8, peer <- v9,
       answer <- v10, drained <- v11, reused <- v12
U == INSTANCE Update WITH
       Reply <- Replies({"200", "404", "a"}), BufSz <- 40,
       Description <- TheDescription, Retries <- 1,
       pc <- v1, call <- v2, got <- v3, buf <- v4, err <- v5,
       req_err <- v6, reply <- v7, wire <- v8, body <- v9, told <- v10,
       at <- v11, error <- v12, reported <- v13, file <- v14, runs <- v15
K == INSTANCE CryptBk WITH
       Handle <- CryptHandle,
       crypt <- v1, msg <- v2, broken <- v3
T == INSTANCE State WITH
       current <- v1, retry_timeout <- v2, retry_count <- v3, now <- v4,
       tried <- v5, entered <- v6, left <- v7
P == INSTANCE Proc WITH
       state <- v1, holds <- v2, reaper <- v3, sigchld <- v4, status <- v5,
       callers <- v6
W == INSTANCE ProcPipe WITH
       state <- v1, piped <- v2, stdio <- v3, copies <- v4, ends <- v5,
       holds <- v6, wait <- v7
R == INSTANCE ProcWin WITH
       pc <- v1, step <- v2, open <- v3, total <- v4, sent <- v5,
       infinite <- v6, first <- v7, child <- v8, took <- v9, gave <- v10
V == INSTANCE ServiceWin WITH
       entry <- v1, state <- v2, pc <- v3, handler <- v4,
       g_service_status <- v5, sig_exited <- v6, ctl <- v7
F == INSTANCE FdselectProofs WITH
       Fd <- WinFd, Func <- WinFunc,
       fd_array <- v1, count <- v2, select_break <- v3, pc <- v4,
       cur <- v5, rfds <- v6, wfds <- v7, ready <- v8, since_poll <- v9,
       os_event <- v10, signaled <- v11, net <- v12, in_handle <- v13,
       unowned <- v14

(* What the theorems ask of the constants: bounds are numbers, there is a  *)
(* state to begin with, and room for the zero behind a child's output.     *)
ASSUME SystemAssumption ==
  /\ H!HttpAssumption
  /\ K!CryptAssumption
  /\ T!TableAssumption
  /\ 0 \notin Child
  /\ stdout_len \in Nat \ {0}
  /\ F!FdselectAssumption

-----------------------------------------------------------------------------
PartInit ==
  \/ which = "send" /\ Off1
  \/ which = "server" /\ H!Init /\ Off13
  \/ which = "update" /\ U!Init
  \/ which = "crypt" /\ K!Init /\ Off4
  \/ which = "state" /\ T!state_init /\ Off8
  \/ which = "proc" /\ P!Init /\ Off7
  \/ which = "winpipe" /\ W!Init /\ Off8
  \/ which = "winrun" /\ R!Init /\ Off11
  \/ which = "service" /\ V!Init /\ Off8
  \/ which = "winselect" /\ F!WinInit /\ Off15

AllInit == which \in Machines /\ Init /\ PartInit

SendStep == which = "send" /\ Next /\ UNCHANGED <<which, v1on>>
ServerStep == which = "server" /\ H!Next /\ UNCHANGED <<which, v13on, vars>>
UpdateStep == which = "update" /\ U!Next /\ UNCHANGED <<which, vars>>
CryptStep == which = "crypt" /\ K!Next /\ UNCHANGED <<which, v4on, vars>>
StateStep == which = "state" /\ T!Next /\ UNCHANGED <<which, v8on, vars>>
ProcStep == which = "proc" /\ P!Next /\ UNCHANGED <<which, v7on, vars>>
WinpipeStep == which = "winpipe" /\ W!Next /\ UNCHANGED <<which, v8on, vars>>
WinrunStep == which = "winrun" /\ R!Next /\ UNCHANGED <<which, v11on, vars>>
ServiceStep == which = "service" /\ V!Next /\ UNCHANGED <<which, v8on, vars>>
WinselectStep == which = "winselect" /\ F!WinNext /\ UNCHANGED <<which, v15on, vars>>

AllNext ==
  \/ SendStep
  \/ ServerStep
  \/ UpdateStep
  \/ CryptStep
  \/ StateStep
  \/ ProcStep
  \/ WinpipeStep
  \/ WinrunStep
  \/ ServiceStep
  \/ WinselectStep

AllSpec == AllInit /\ [][AllNext]_allVars

(* Each part is as fair as its module says.                                *)
ThreadStep ==
  \/ which = "send" /\ Thread /\ UNCHANGED <<which, v1on>>
  \/ which = "server" /\ H!Thread /\ UNCHANGED <<which, v13on, vars>>
  \/ which = "proc" /\ P!proc_sigchld_reap /\ UNCHANGED <<which, v7on, vars>>
  \/ which = "winrun" /\ R!Call /\ UNCHANGED <<which, v11on, vars>>
OtherStep ==
  \/ which = "send" /\ Kernel /\ drained' # drained /\ UNCHANGED <<which, v1on>>
  \/ which = "winrun" /\ R!ChildStep /\ UNCHANGED <<which, v11on, vars>>
DrainStep(c) == which = "server" /\ H!Remote /\ H!Drain(c) /\ UNCHANGED <<which, v13on, vars>>

AllFairSpec ==
  /\ AllSpec
  /\ WF_allVars(ThreadStep)
  /\ WF_allVars(OtherStep)
  /\ \A c \in H!Conn : WF_allVars(DrainStep(c))

-----------------------------------------------------------------------------
(* Every descriptor of the server has one owner, and every client waits    *)
(* for one event: see HttpServer.                                          *)
Ownership == which = "server" => H!TypeOK /\ H!Ownership /\ H!OneEvent

(* A client gets all of a file that can be read: see HttpServer.           *)
WholeFile == [][which = "server" => H!FileSent]_allVars

(* ... and is done with some day: see HttpServer.                          *)
Served ==
  \A c \in H!Conn :
    (which = "server" /\ v10[c] = "file") ~> (which # "server" \/ c \notin H!Live \/ v12)

(* The program gets the answer in order and once, with the header as it    *)
(* was sent but for texts of one letter; it is told of an error at most    *)
(* once, and a page that is not there is not installed: see HttpReq and    *)
(* Update.                                                                 *)
AnswerTaken ==
  which = "update" => U!BodyInOrder /\ U!HeaderAsSent /\ U!ErrorOnce /\ U!OnlyFound

(* What was encrypted is decrypted, and nobody frees a key that is not its *)
(* own: see CryptBk.                                                       *)
SecretsKept == which = "crypt" => K!RoundTrip /\ K!OwnsKey

(* A state is tried as often, and as far apart, as its table says: see     *)
(* State.                                                                  *)
TriedInTime == which = "state" => T!TriedInTime

(* On unix children do not keep each other's inputs open in a circle, and  *)
(* nobody keeps the output of one open; on Windows no child has an end of  *)
(* the program's, proc_wait says that a child has ended only when it has,  *)
(* and proc_run_stdbuf leaves no handle open: see Proc, ProcPipe, ProcWin. *)
EndsKept ==
  /\ which = "proc" => P!NoCircle /\ P!OutputEnds
  /\ which = "winpipe" => W!InputEnds /\ W!WaitTold
  /\ which = "winrun" => R!AllClosed

(* Children that exit are collected: see Proc.                             *)
NoZombies ==
  \A c \in Child :
    (which = "proc" /\ v4 /\ v1[c] = "zombie") ~> (which # "proc" \/ v1[c] = "gone")

(* proc_run_stdbuf returns: see ProcWin.                                   *)
Returns == <>(which = "winrun" => v1 = "done")

(* The loop on Windows goes on with registrations that are there, and sees *)
(* what there is to read; the manager does not take a service for stopped  *)
(* while its main runs, nor does an installation of a program that is      *)
(* alone fail: see FdselectWin and ServiceWin.                             *)
WindowsKept ==
  /\ which = "winselect" => F!WinSlotValid /\ F!ReadNoticed
  /\ which = "service" => V!ServiceKept

(* Violated: see Update.                                                   *)
InstallComplete == which = "update" => U!InstallComplete
=============================================================================
