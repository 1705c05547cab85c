# bklib in TLA+

bklib is a C library for network programs: containers, an event loop over
`select(2)`, buffered pipes and send queues on top of it, HTTP and DNS, a packet
tracker, encryption, settings, processes and services, on unix and on Windows.
This directory holds specifications of its parts that have state worth worrying
about, the configurations that check them with TLC, and proofs checked by TLAPS.

Where a definition has the name of a C function or field, it is that function or
field. Modules follow the unix build unless their name ends in `Win` (`ProcPipe` is
Windows too).

- [The system](#the-system): every component, its state, its operations
- [How the components interact](#how-the-components-interact)
- [The modules](#the-modules): what each one models and how it matches the code
- [The runs](#the-runs): what each one asks, with which bounds, and what it shows
- [Fairness](#fairness)
- [The proofs](#the-proofs)
- [Where the code and its documentation disagree](#where-the-code-and-its-documentation-disagree)
- [What the properties leave out](#what-the-properties-leave-out)
- [What is not modelled](#what-is-not-modelled)
- [Plan](#plan)

## The system

### The event loop and what runs on it

| component | state | operations | what makes it correct |
|---|---|---|---|
| `fdselect` (fdselect.c, fdselect_unix.c) | `fd_array` of registrations, `count`, the flag `select_break` | set, unset, clear, break, select; callbacks make the same calls while the array is walked with a raw pointer | one slot per descriptor, none empty; the pointer is never used after the array moved; a callback runs only for an event that is registered; the loop does not spin |
| `fdselect_pipe` | per socket: buffer window `off`, `len`; `err_read`, `err_write`, `err_read_done`; the flags `select_read`, `select_write` | the read handler (receive, then call the peer's write handler), the write handler, the CLOSED event | bytes arrive in order, none lost or repeated; flags and registrations agree; no lost wakeup; end of stream after the last byte; CLOSED arrives, once |
| `sendlist` | the queue `sendbufs` of buffers, file ranges and shutdowns, the registration for WRITE | send, flush, shift, shutdown, close; `free_func` and `flushed_func` run inside the flush | the stream in order, each sendbuf freed once and only when sent, a registration exactly while something is pending |
| `http_server` | the clients with socket, file, offset and received length; the process's descriptors | accept, read (parse, open, answer), write (sendfile), free | a client's end closes its own descriptors and no other's, its registration goes with it, an announced file that can be read is sent whole |
| `dns_proxy` | `req_hash_id` (pending requests by id), `expire` (the next sweep) | forward a query under a fresh id, relay a reply, sweep | one reply per query; a request leaves for a reason and in time |
| `state` | a retry count and an interval against the clock | set, poll | as many tries as the table says, no closer than it says |

### Containers and memory

| component | state | operations | what makes it correct |
|---|---|---|---|
| `array` | one block of `m_max` cells, `m_count` in use | add, insert, remove, sort, search, copy; `realloc` may fail | a list of elements; nothing outside of the block is written |
| `hash` | `m_bucket`, `m_node_count` | init, put, get, remove, clear, growth, foreach with a callback that may free the node | it is a map; the nodes that leave are freed and no others; foreach visits every node once |
| `pool` | a hash of pointers with reference counts | malloc, add, addref, free, realloc, copies, clear | what nobody refers to is freed, once |
| `llist` | the links of the nodes, head and tail | insert, append, add after, remove, to tail | the same list from both ends |
| `debug` (leak, alloc_count) | blocks by pointer, with the places they passed | create, stack, delete, dump | the report names what is still allocated, by the place that allocated it |
| `mmap` | a file mapped as a whole, `max`, `len` | open, write (grow), close (cut) | the file holds what was written |

### Protocols and text

| component | state | operations | what makes it correct |
|---|---|---|---|
| `http` | the reader of a header | parse of a longer and longer buffer, lookup, query strings, URLs | read as written, whatever the pieces |
| `http_req` | buffer, `got_header`, the two errors | connect, send, receive, call the caller's function | the data whole, in order and once, the header as sent |
| `update` | the step, `error`, the file | ask for the description, download, install, run | what is installed is complete; an error is told once |
| `dns` | the message, `ptr`, the counts, offsets of names | pack names with compression, questions, records; parse | read back as packed; a pointer leads to the right name |
| `netpkt` | a frame and its checksums | build, parse, walk and remove options, checksum, adjust | checksums fit; an option walk ends inside the header |
| `ipconntrack` | `m_conn_hash` with, per connection, flags, two sequence trackers per direction and the stream buffers | track a packet, delete a connection | one record for both directions; every byte at its place however packets are repeated, cut or reordered; all bytes passed in the end |
| `sock` | descriptors, blocking or not | loops of send, recv and accept with a timeout; addresses as text, number, sockaddr | what is returned is what was moved; an address is the same in every form |
| `opt`, `vercmp` | none | quoting and splitting, reading a command line; order of versions | split again into the same arguments; numbers compare as numbers |

### The host

| component | state | operations | what makes it correct |
|---|---|---|---|
| `cfg`, `cfg_crypt` | files of values, a list of the last used, the program's certificate | put, get, mru; load, renew, make, save | what was put last is found by the next program |
| `crypto` (cryptbk) | request, certificate, private key, session key | generate, sign, pack, copy, encrypt, decrypt | what one half of a pair encrypted the other half decrypts, and nothing else does; a key has one owner |
| `proc` | children, ends of socket pairs, zombies | start, close, wait, the SIGCHLD handler | children do not keep each other's inputs open in a circle; whoever reads an output sees its end; no zombie stays |
| `ns` | files, mounts and namespaces | create, delete, enter | what was made can be deleted again, also after a kill |
| `util` (dir), `debug` (logs) | directories; log files by prefix and time | mkpath, path text; open, full, remove the oldest | made or told why not; the newest logs stay |
| `interfaces` | an interface of the kernel, the steps of a change | set, get, resolv.conf | what was asked for is set, or the interface is at least up again |
| `win32` | event objects; pipes and handles of a child | the loop, start, wait, run with a buffer | registrations that are there; nothing readable unnoticed; every handle closed |
| `service` | the manager's view, the two threads of a service | run, control, install, start, stop, remove | the manager does not take it for stopped while it runs |

Not modelled: `http_router`, `http_redirect`, `rtt`, `ipconntrack_db`, `variant`, `thread`,
`programs`; see [What is not modelled](#what-is-not-modelled).

### What is hard

Almost everything runs on one thread, but every layer hands control to a callback
in the middle of its own work, and the callback may call back into the layer:
`fdselect` walks an array its callbacks change, `sendlist` frees through a callback
while it holds the head of its queue, `hash_foreach` keeps a raw pointer while its
callback frees the node, and the read handler of a pipe runs the write handler of
the other socket before it has finished. The rest of the difficulty is outside:
short reads and writes, descriptors that fail between two system calls, answers
in pieces, datagrams lost, repeated and late, packets captured in any order,
system calls of which any may fail, children that end or write when they like,
and other programs that use the same files, directories and interfaces. The list
of hazards, with their lines, is in `PROJECT.json`.

## How the components interact

- `array` is under everything: `fdselect` keeps its registrations in one, `sendlist`
  its queue, `hash` one per bucket. `Array` shows that `array.c` implements
  `ElementList`, so the others use a sequence.
- `hash` is under `pool`, `dns_proxy` (requests by id), `ipconntrack` (connections by
  address pair), `dns` (offsets of names) and `debug`. `HashTable` shows that
  `hash.c` implements `FiniteMap`; the models of its users have a function instead.
- `fdselect` calls `fdselect_pipe`, `sendlist` and the HTTP programs when a
  descriptor is ready; they change their registrations in return. `Fdselect` has
  callbacks that make any sequence of calls, so its properties hold for all of
  these clients. The models of the clients keep from it only the set of
  registrations (`reg`, `selected`) and choose among the ready registered
  descriptors in any order.
- `FdselectWin` extends `Fdselect`: on Windows the registrations are the same code,
  with an event object to each slot and another walk.
- `update` is two `http_get` calls with functions of its own; `Update` extends
  `HttpReq`, which extends `HttpText`, the reader of `http.c`. `Texts` extends it too.
- `http_server` composes `http` and `fdselect` directly, over blocking sockets. The
  user of `fdselect_pipe` is its test `fdselect_pipe_t.c`.
- `dns_proxy` composes `dns` and `hash`; `ipconntrack` composes `netpkt` and `hash`;
  `cfg_crypt` composes `cfg` and `cryptbk`.

Parts that share no state are checked side by side: `MCLibrary`, `MCSystem` and
`MCNetwork` extend one component and instantiate the others over variables `v1`,
`v2`, ..., and the variable `which` says which one a behaviour runs. Nothing would be
gained by interleaving them, and one run asks what they all are asked.

## The modules

### Event loop and its clients

**Fdselect.** `fd_array`, `count` and `select_break` are the fields of `fdselect_t`; `rfds`
and `wfds` the local sets of `fdselect_select_os`; `pc` and `cur` say where its loop is
and which slot the pointer `f` names. `since_poll` is history: whether elements were
moved since the sets were built, i.e. whether `f` may dangle. `fdselect_set`,
`fdselect_unset`, `fdselect_clear` and `fdselect_break` are enabled between two selects
and while a callback runs, so a callback is any sequence of calls.
`fdselect_select` builds the sets; `SelectReturn` and `SelectNothing` are the returns of
`select(2)`; `SlotRead`, `ReadReturn`, `SlotWrite`, `WriteReturn` and `LoopEnd` are the steps
of the backward walk. `Kernel` changes what is ready at any time.

**FdselectWin.** The same calls, each with what it does to the event objects
(`WinCall`): `fdselect_set` and `fdselect_unset` close the event of a slot that changes or
goes (`FreeOsEvents`), `fdselect_clear` leaves them open (`LeaveOsEvents`), and `unowned`
keeps those nobody will close; `WinSelect` makes those that are missing, `WaitReturn` is
`WaitForMultipleObjects`, `HandleRead`, `Slot`, `WinReadReturn`, `WriteCheck` and
`WinWriteReturn` the walk. `WinKernel` records a network event once, until the
program has called the function that enables it again.

**FdselectPipe, PipeChannel.** The fields of `struct fdselect_pipe_sock_t` are functions
from the two sockets; `reg` is what is registered with `fdselect`. The handlers are
split at every system call, so that the kernel and the remote ends act in between:

| action | code |
|---|---|
| `Dispatch` | `fdselect` calls a handler |
| `RecvSome`, `RecvStop`, `RecvEnd` | the receive loop of `fdselect_pipe_sock_read`: some bytes, full or would block, end of stream or error |
| `SendSome`, `SendStop`, `SendError` | the send loop of `fdselect_pipe_sock_write` |
| `WriteDone` | its rest: registrations, passing on the end of stream, CLOSED |
| `ReadDone` | the rest of `fdselect_pipe_sock_read` after the nested write |
| `RemoteSend`, `RemoteFin`, `RemoteReset`, `RemoteDrain` | the hosts at the other ends |

Received bytes are numbered by the order the remote end wrote them, so that the
buffer content and what was sent on can be compared. `PipeChannel` is the abstract
specification of one direction: a bounded first-in first-out channel that ends
after its last byte or breaks.

**SendList.** The calls in progress form a `stack` (flush, the `free_func` or
`flushed_func` it is in, close), because callbacks call back. `FlushWrite` is one turn of
the loop in `sendlist_flush`, `FreeReturn` the removal of the head after `free_func`
returned, `FlushEnd` the registration and the call of `flushed_func`. `wire` is what was
written, `freed` every call of `free_func`. `FreeMaySend` says whether a `free_func` may
send, `MaxDepth` how deeply callbacks nest.

**HttpServer.** `fd_table` is the table of descriptors of the process, from which the
kernel hands out the lowest free one; `client` holds the client structures in the
order of their connections, cleared ones included; `reg` is what is registered with
`fdselect`. `http_server_select_accept` is the accept handler;
`http_server_client_select_read` has one action for each way through it: `ReadTooBig`,
`ReadEof`, `ReadError`, `ReadIncomplete`, `ReadRefused` (malformed, no such file, no
descriptor left), `ReadHeaderFails` and `ReadAnswered`. `http_server_client_select_write`
is `WriteDone` or `CallSendfile`, and because the sockets are blocking a sendfile
lasts: `SendBlock`, `SendfileReturns` and `SendfileFails` are its progress, with the
remote ends acting meanwhile and the other clients not. A file may be one that `stat`
finds and `sendfile` cannot read, a directory for instance (`readable`, `CutShort`).
`FreeClient` is
`http_server_client_free`. What the parser and `stat` make of the pieces is a choice.

**DnsProxy.** `req_hash_id` maps an id to the query kept under it. `dns_proxy_forward`
sends a query to the servers (from some server down, since a failed `sendto` ends
the loop), `ForwardNoId` is the error path when every draw was in use,
`dns_proxy_select_recv` a reply, at any time and as often as it likes,
`dns_proxy_poll` the rationed sweep, `Tick` the clock. A message is its id and its
question.

**State.** `current`, `retry_count` and `retry_timeout` are the fields of the structure;
`tried` is when a poll said RETRY since the state was entered. A poll that says NOOP
or TIMEOUT changes nothing.

### Containers and memory

**Array, ElementList.** `Array` has the cells of the block, `m_count` and
`m_max`; `array_add` grows the block by `realloc`, which may fail, and an action with
`failed` leaves what the code leaves: no block, `m_max` raised (`lost`).
`array_qsort` is any order in which no element comes before a smaller one, and
`array_bsearch` the halving of an interval. `ElementList` is the list it promises. In the
modules that only use an array it is a sequence, and `array_remove_idx` is `RemoveAt`.

**HashTable, FiniteMap.** `m_bucket` is the array of buckets; the position of
`hash_foreach` is `at`; `todo` and `extra` record which keys its callback has seen.
`hash_put`, `hash_remove`, `hash_clear` and `hash_init` are one step each; `hash_foreach`
and `Visit` are the walk. `freed` is what the last step gave to the free functions; two
values per key tell what `hash_put` replaces from what it puts in.

**Pool, LList, Debug, Mmap.** One action per call. `Pool` keeps, beside the hash, the
heap and whether something was freed twice; `LList` the links of every node and of
the head; the first half of `Debug` the two hashes of `debug_leak.c` and `alloc_count.c` and what was
created and not deleted since; `Mmap` the file, what each handle has mapped, and what
the same writes would have made of the file.

### Protocols and text

**HttpText, HttpReq, Update.** A text is a sequence of letters; words the code
compares with are one symbol, and `Long` says which symbols are longer than a letter,
because `http_strdup` treats a text of one letter in its own way. `http_header_parse` reads a buffer from its beginning
every time, as the code does: `ReadOp`, `ReadUri`, ... are the branches of its switch.
`HttpReq` has a step per system call and per call of the caller's function, which
answers what it likes; `Recv` gives any number of bytes, `RecvFails` and `Eof` end the
loop, `Leave` is what is left of the two errors. `Update` gives `http_get` the functions
`http_req_buf` and `http_req_prog` and adds the steps of `update`.

**Dns.** The message `buf` is a function from the offsets where something begins to
what begins there. `dns_pack_name` looks up and remembers suffixes, `dns_rr_pack`
appends a record, `Read` parses the message, `Follows` says which pointers a reader can
follow. `wire` is the header.

**NetPkt.** A frame is a record of the fields the code uses, with bytes only where
they are summed or walked. Checksums are computed as the code does.

**IpConnTrack.** Two hosts open, write and finish; `Packets` is every
packet a host may have sent so far (SYN, any run of its bytes, FIN with or without
bytes, acknowledgements before and after). `Capture` is `IpConnTrack_track_pkt` of any of
them, at any time and any number of times, which is loss, repetition, reordering
and resegmentation at once: `Lookup` finds the record in either direction,
`TrackState` and `TrackStream` are `IpConnTrack_track_state` and
`IpConnTrack_track_stream`. `Delete` is the call of the tracker's user. Sequence numbers
are modulo `SeqMod`.

**Sock.** The loop of `sock_func_timeout`: a call that has moved a part,
waits, goes on, times out or fails, at both ends of a connection, and an accept made
through the same loop. The conversions of an address between text, number and
sockaddr are operators beside it, and `AddressKept` speaks of every text.

**Texts.** URLs, versions and command lines: what `http.c`, `vercmp.c` and `opt.c` read from
text. Every state is an input: a URL, written from its parts and parsed; two versions;
arguments and the size of the buffer for them; options on a command line. All
recursive operators of the project are here.

### The host

**Cfg, CfgCrypt.** A put is two steps, the open that empties the file and the close
that writes it, and a program may be killed in between. `cfg_get` is the search through
the directories, `mru` and `cfg_list_pack` the list. `CfgCrypt` has the steps of
`cfg_load_crypt`: get, check, renew or generate, put, with the clock.

**CryptBk.** A handle has its pairs of keys by number, the public half in its certificate
and the private half in `pkey`; a ciphertext is a sequence of cells that say which half
of which pair made them, or which session key. A block is read by the other half of
its pair only (`IsBlock`), and nothing is done with a pair whose blocks have no `Room`
for the session key (cryptbk.c:769). `KeyAfterRsa` is where `seskey` points after
`cryptbk_crypt`.

**Proc, ProcPipe, ProcWin.** `holds` says which ends of pipes each process has open. In
`Proc` the child of a fork closes what `proc_start_stdpipe` closes and has the rest of
what the program had, the program's ends of other children included. In `ProcPipe` the
child inherits the standard input and output of the program at that moment, and its
copies; a start that fails closes what the caller's variables hold, or, before they were
set, whatever they held (`EndsAfterFailure`). `ProcWin` is one call of `proc_run_stdbuf`
with every handle it opens and closes, beside a child that reads and writes through
bounded pipes; a write that fails ends the writing, and the call goes on to read.

**NsTool, Dir, Debug (logs), Ifcfg, ServiceWin.** Each action is a system call, the program's
counter is part of the state, and programs interleave. `NsTool` may be killed anywhere,
`Ifcfg` has an `ioctl` fail anywhere, `Dir` has `errno` as a variable that only failing
calls set, `ServiceWin` has the thread of `ServiceMain` and that of the handler.

## The runs

| run | module | what it shows | distinct states |
|---|---|---|---|
| `fdselect` | `Fdselect` | registrations stay consistent, the walk never uses a moved slot, callbacks run only for what was polled, the loop makes progress | 59,888 |
| `pipe` | `FdselectPipe` | window, flags, wakeups; both directions implement `PipeChannel`, that is, order and the end of stream after the data; bytes, ends and CLOSED arrive | 106,407 |
| `ipconntrack` | `IpConnTrack` | one record per connection (`OneRecord`), bytes in place and repetitions recognised (`StreamsKept`), all bytes passed | 77,412 |
| `library` | `MCLibrary` | hash, array, pool, list, leak, cfg, cert, ns, dir, log, mmap, packet, url, version, options | 463,934 |
| `system` | `MCSystem` | send, server, update, crypt, state, proc, winpipe, winrun, service, winselect | 290,108 |
| `network` | `MCNetwork` | proxy, dns, sock, ifcfg, address | 622,556 |
| `fdselect_starvation` | `Fdselect` | refutes `EveryEventCalled` | |
| `pipe_closed` | `FdselectPipe` | refutes `ClosedOnce` | |
| `sendlist_reenter` | `SendList` | refutes `FreedOnce` when a `free_func` sends | |
| `dns_proxy_no_id` | `DnsProxy` | refutes `KeptUntilAnswered` | |
| `ipconntrack_stream` | `IpConnTrack` | refutes `StreamBytes` | |
| `update_incomplete` | `MCSystem` | refutes `InstallComplete` | |

The properties of the three runs over several parts are the parts' properties under
one name each:

| property | what it says of which part |
|---|---|
| `TableKept`, `IsMap`, `FreedAreGone` | hash: nodes are where they are looked for, a walk visits each once; it implements `FiniteMap`; exactly the nodes that leave are freed, replaced ones included |
| `IsList` | array: implements `ElementList` |
| `MemoryKept` | array: nothing outside of the block is written; pool: counts are the references, nothing is freed early or twice; list: the same from both ends |
| `ConfigKept` | cfg: what was put last is found, the user's before everybody's; the list of the last used; cert: what a program was given is what the next finds |
| `FilesKept` | dir: made, or told why not, and names in paths; log: the newest stay; mmap: the file holds what was written; ns: what is there can be deleted |
| `PacketsRead` | packet: checksums fit, options are walked to their end |
| `ResultsRight` | url, version, options: read as written; `array_bsearch` finds an element or its place; leak: the report is what is allocated |
| `SentInOrder`, `SentOrFailed` | send: the stream, the freeing, the registration; everything is sent or the connection fails |
| `Ownership`, `WholeFile`, `Served` | server: a descriptor has one owner and a client one event; its file is sent whole if it can be read; every client is done with some day |
| `AnswerTaken` | update: the body whole, in order and once, the header as sent but for texts of one letter, an error told once, nothing but an answer 200 installed |
| `SecretsKept` | crypt: decrypted as encrypted with the other half of the pair, and with nothing else; nobody frees a key that is not its own |
| `TriedInTime` | state: as many tries as the table says, at its intervals |
| `EndsKept` | proc: no circle of children keeps each other's inputs open (`NoCircle`), and a child's own end is its alone (`OutputEnds`); winpipe: no child holds an end of the program's (`InputEnds`), `proc_wait` says that a child has ended only when it has (`WaitTold`); winrun: every handle is closed |
| `NoZombies`, `Returns` | proc: children that exit are collected; winrun: the call returns |
| `WindowsKept` | winselect: the walk uses slots that are there, what can be read is noticed; service: the manager does not take it for stopped while its main runs, and an installation of a program that is alone succeeds |
| `RepliesInTime`, `LeavesForCause`, `Released` | proxy: one reply, to the right requester; a request leaves for a reason, in time, in the end |
| `NamesRead` | dns: read back as packed, up to the first CNAME and while pointers can be followed; the best guess of `dns_resolve_reply` is an answer to the question |
| `SocketsKept` | sock: calls return what was moved; ifcfg: what was asked for is set or the interface is up; address: the same in every form |

### Bounds, and why they are enough

- **fdselect**: two descriptors, one callback, masks READ, WRITE and none (which means
  both, or all). The array grows, shrinks, shifts and empties under the pointer, and
  the starved slot of the finding appears. The calls themselves are not bounded.
- **pipe**: buffers of 3 bytes and 1, 3 bytes one way and 1 the other, a kernel queue
  of 1, resets of both. Three cells are the least in which the window can start after
  the first cell and still have space behind it, which is where `off` matters; a
  queue of one makes writes short and makes them block.
- **ipconntrack**: three bytes one way, one deletion, three configurations. `SeqMod` (16)
  stands for 2^32: what the code does with numbers is subtraction and a test of sign,
  so a modulus of which a stream takes less than half (`TrackAssumption`) shows the
  same comparisons. The initial number 13 makes the numbers pass 0 inside the stream.
- **hash**: five keys with two pairs of equal hashes. One bucket takes four nodes
  before the fifth makes it grow, and the colliding keys share a bucket before and
  after. Two values for a key, so that a node that is replaced is told from the new one.
- **array**: blocks of 2 cells, at most 4 cells, so that each array grows twice.
  `AnyInsert = FALSE`: see below. **pool**: three addresses, two references to a block.
  **list**: three nodes. **leak**: two addresses, three places, two of them in one file.
- **cfg**: two programs and two values of different length, so that a short value can
  be left over a long one; a list that keeps two of three. **cert**: two programs, two
  hosts, two keys, certificates that last one tick of three.
- **ns**: two programs, a plain namespace and the one of mounts, which is treated
  differently. **dir**: two programs, paths that share their beginnings; texts of up to six
  letters. **log**: two programs, two files each. **mmap**: two users, blocks of three
  bytes and a file of up to five.
- **packet**: bodies of up to three bytes, so that odd lengths occur; the bytes 0 and
  255, so that the two zeros of ones' complement do; option bytes below 2, above 127
  and past the end. **url**, **version**, **options**: all texts of a few parts.
- **send**: a length of 3 over a kernel queue of 2 is a partial write, 0 a write that
  moves nothing, and with three sendbufs a shutdown can have something before and
  behind it; one nested call. `FileEnd` equals the longest length: files hold what
  callers promise.
- **server**: two connections, descriptors 0 to 4 of which three are free at the start,
  while two clients with a file each need four; one client's end can meet the other
  client at every point of its life, and the next descriptor handed out is one that was
  just closed.
- **update**: replies of all kinds (good, wrong and no status, both line ends, folded and
  empty header values, a message, a value and a length of one letter), cut into any pieces;
  one run of `update`.
- **crypt**: two handles and two pairs of keys, one with blocks that have no room for a
  session key; texts that fit into a block and that do not. **state**: two
  states that follow each other and one whose next is missing. **proc**, **winpipe**: two
  children, so that one inherits from the other. **winrun**: pipes of 2, a buffer of 4 and a
  child that writes 6. **service**: two controlling programs. **winselect**: two descriptors,
  one of them also usable as a plain handle.
- **proxy**: two ids run out; with three queries a late reply meets its id in use by
  another query; the sweep period is longer than the life of a request, so requests
  wait for a sweep. **dns**: names that end alike, a label in another position, labels of 63
  and 52 letters, so that suffixes begin at offsets below and above 128, and CNAMEs, in
  up to three records. **sock**: buffers of up to 3 over a kernel
  queue of 2. **ifcfg**: two programs that set once each. **address**: numbers at and past the
  ends of their ranges.

The configurations of `Fdselect` check deadlock: its system always has a step to
take. All others have `CHECK_DEADLOCK FALSE`: pipes end when they are closed, calls and
programs return, the last parts of `library` and `address` only enumerate inputs, and the
bounds on queries, time and bytes let the rest come to rest.

## Fairness

- `Fdselect`: weak fairness of calling select and of the steps of the walk, because
  the main loops (`http_server.c` and the tests) call `fdselect_select` for ever and
  callbacks return. Strong fairness of `SelectReturn`: not every `select(2)` that could
  report a descriptor is interrupted by a signal or ends by its timeout. Nothing is
  assumed of readiness or of the calls.
- `FdselectPipe`: weak fairness of the thread and of the remote ends taking bytes.
  Nothing makes a remote end send or close.
- `IpConnTrack`: weak fairness of capturing each single byte: a host repeats a byte until
  it is acknowledged, and the tracker sees one of the repetitions.
- `system` (`AllFairSpec`): weak fairness of the thread of `SendList` and of its remote end
  taking bytes; of the thread of `HttpServer` and of each remote end reading (in which
  order ready clients are called is left open); of `proc_sigchld_reap`, since a pending
  signal is delivered; of `proc_run_stdbuf` and of its child's steps. Since one part
  runs in a behaviour, one conjunct serves the threads of all of them.
- `network`: weak fairness of the clock and of the poll after each select. Nothing is
  assumed of servers or network.
- `library` has no fairness: nothing is asked of it that must happen.

## The proofs

Proved for every value of the constants, `Spec => []...` unless said otherwise:

| module | theorems |
|---|---|
| `FdselectProofs` | `Inductive`, `TypeCorrect`, `RegistrationsConsistent`, `SlotAlwaysValid`, and the action property `CallbacksPolled` |
| `FdselectPipeProofs` | `Inductive`, `PipeTypes`, `WindowExact`, `BytesInOrder`, `FlagsAlwaysAgree`, `WakeupsKept`, `EofLast`, and the refinement `ImplementsChannels` |
| `HttpServerProofs` | `DescriptorsOwned`, and the action property `FilesSentWhole` |
| `NetworkProofs` | of `DnsProxy`: `RepliedInTime`, and the action property `LeftForCause`; of the whole `MCNetwork`: `SocketsAlwaysKept` |
| `IpConnTrackProofs` | `OneRecordKept`, `StreamsInPlace` |
| `LibraryProofs` | `TablesKept`, `MemoryAlwaysKept`, the action property `FreedWhenGone`, the refinements `ImplementsMap` and `ArrayIsList`; `ReturnedIsStored` of `CfgCrypt` |
| `FilesProofs` | of `Library`: `FilesAlwaysKept` |
| `SystemProofs` | of the parts: `TriesExact`, `InputsAndOutputsEnd`, `ChildrenSeeTheEnd`, `WaitTellsTruth`; of the whole `MCSystem`: `ServerOwns`, `ServerSendsWhole` (of steps), `StatesTried`, `PipesKept`, `WindowsAlwaysKept`, `SecretsAlwaysKept`; of the part it extends, `SendList`: `SendsInOrder` |

`MCSystem`, `MCNetwork` and `Library` have their parts' bounds as constants too, with values
only in the configurations (of `MCNetwork` those of `Sock` and `Ifcfg`, about which there is a theorem), so that their theorems are about parts of any size and `TheTable`
of `MCSystem` is one table among all. `Library` is what `MCLibrary` checks without the
parts whose operators are recursive.

The assumptions are the named ones of the modules (`FdselectAssumption`,
`PipeAssumption`, `SendListAssumption`, `DnsProxyAssumption`, `HttpAssumption`, `HashAssumption`,
`TrackAssumption`, `SystemAssumption` with `CryptAssumption`, `NetworkAssumption`,
`LibraryAssumption`: the null callback is not a callback, sizes are numbers, an RSA block is longer than its padding, buffers and kernel queues have at least one byte, and the like; TLC
evaluates them in the runs), and those that a theorem itself states:

- `SendsInOrder`: `FreeMaySend = FALSE`. `sendlist_reenter` shows that it is needed.
- `RepliedInTime`: `ExpirePoll # 0`, as the constant in `dns_proxy.c` is.
- `TriesExact`: `TableAssumption`, a table that is not empty, of intervals and of
  numbers of tries of at least one. `TheTable` in `MCSystem` is such a table.
- `InputsAndOutputsEnd`: the program, process 0, is not one of its children.
- `MemoryAlwaysKept`, `ArrayIsList`: `~AnyInsert`, `array_insert` is called where as many
  elements move as are inserted, or none, as the repository calls it. What happens
  otherwise is below, under what the properties leave out.
- `FilesAlwaysKept`: `FirstExists`, `~Concurrent`, `~GoesOn` and `Begins = {}`: the first
  component of every path is there, a file is written through one handle, which is closed
  once a write to it has failed, and no log's name begins another's. Each is needed: with
  any one of them given its other value in `Library.cfg`, TLC finds `FilesKept` violated
  by the behaviours described below.
- `WindowsAlwaysKept`: `~HandleCalls`, the callback of a plain handle leaves the
  registrations alone. `fdselect_select_os` on Windows does not look at the break flag
  after such a callback.
- `StreamsInPlace` rests on the part of `TrackAssumption` that a stream takes less than
  half of the range of numbers, without which their comparison means nothing.

**Event loop.** `SlotValid` is not inductive: it says nothing while a callback runs, which
is when the array moves. The invariant is `TypeOK`, `Registered` and `Dispatch`. `Dispatch`
says what the break flag means: as long as the flag is down, nothing has changed
since the sets were built from `fd_array`, so every set bit is a registered event and
the pointer is inside the array; the loop continues only with the flag down. Every
registration call raises the flag in the step in which it changes the array, hence the
induction. On Windows (`WinIInv`) the same holds of the position, and `Recording` says
what Windows has recorded: it belongs to an event object of a socket, which is set but
for the one slot that was just waited for and is looked at next. What `fdselect_clear`
leaves behind belongs to no slot, and the next wait begins with new objects.

**Pipe.** `FlagsAgree` and `NoLostWakeup` are claims about the moments between handlers and
fail inside them. The invariant has seven parts: `TypeOK`, `Window`, `InOrder`;
`Registrations`, which ties flags to registrations at every point, with the one
exception of the socket that has just seen its end of stream and whose flag still
stands; `Wakeups`, which says for each socket what its registration will be settled to
and when; `Reading`, about the socket being read; and `Ends`, which ties `shut` and the
error flags to each other and says why an end of stream was passed on. The proof has
one step per action and part. The refinement is shown per direction: each action takes
bytes, gives bytes, ends, breaks or stutters.

**Send list.** `SentInOrder` compares the wire with the ids that were freed, but what a
step needs to know is where the head stands. The ids are given in order and a sendbuf
leaves at the head, so `Gone`, the number of those that left, names the head
(`QueueInv`); only the head is sent in part, and what is on the wire of it is exactly
what is before its offset, the last of it at the end (`WireInv`); the calls of
`free_func` are those of `1..Gone`, and of the head while its call runs (`FreedInv`);
below the top of the stack there is only `flushed_func`, since a `free_func` does not
call back (`FrameInv`, where the hypothesis is used); and the registration is settled
between calls (`SettledInv`). `FlushWrite` is the long case: the bytes a write appends
continue the head's, and their number is the head's offset afterwards. `Accounted`
follows at the end by counting ids.

**HTTP server.** `Ownership` follows from `Owned`, which says of every live client by which
of its two descriptors it holds what, that the 0 in the `send_fd` of a client without
a file is nobody's, and that descriptor 0 itself is neither a socket nor a file.
`Waits` ties the registrations to the clients. Both hold up to `reused`; `Kept` is what
holds beyond it and is needed for the types: the listening socket stays open, and the
thread is inside `sendfile` only for a client that lives. The proof goes by the
descriptors: `FreeClientIInv` is the long case, a client's end that closes two
descriptors, or one and the number 0. `FilesSentWhole` is of steps: only the two returns
of `sendfile` and `WriteDone` free a client that writes, and an error with nothing sent
needs a remote end that is gone or a file that cannot be read.

**DNS proxy.** `Kept`: what an id maps to is the youngest query that had the id, and has no
reply yet, so a late reply finds either its own query or one that shares its id.
`SweepInv`: the next sweep is at most one period away, not behind the clock, and early
enough for every request the last one left; this is `ExpiresInTime` for what will be,
not only for what is. `LeavesForCause` is a property of steps and needs no invariant.

**Sockets.** `AddsUp` says how many bytes are between the two ends, but not which. The
invariant (`S!IInv`) adds that the numbers in the channel go on where the data ends, and
that an end without a call has nothing left to report. What an end's calls returned
plus what its call has moved so far is its `Account`; `CallChanges` shows that only
`Advance` adds to it, since a return with all of `done`, `select` and going back to `func`
shift it from one summand to the other, and an end whose call fails is out of the sum.
For the rest the step is about sequences: rows of numbers that are joined or split.
`AddressKept` has no steps: bytes turned round twice are as before (`TurnedTwice`), and a
port within its type is not cut.

**Interfaces.** `SetOrUp` speaks of the end of a call and says nothing while one runs.
The invariant (`I!IInv`) says for the one program that is alone (`UnderWay`) that the
interface is up or down as it was found until the second ioctl, which saves `flags`
meanwhile; that `flags` are then those it found, or those it wants if it did not get so
far; and that, as long as nothing has failed (`AllMade`), the value of each ioctl made is
in the kernel. The step of any other program ends that program's claim, so one lemma
(`OthersTold`) leaves only the program that moves. `IoctlsAre` says of the list of calls
that it starts with the two about flags and has one for each value that is wanted,
whichever fields are set.

**Connections.** `BytesInPlace` compares numbers modulo `SeqMod`, from which nothing can be
concluded about the next packet: a number may be that of several places. `Places`
therefore says that there *is* a place `n` in the stream at which the queue stands and
a place `m`, not after it, at which the tracker of repetitions stands. A packet has its
own place, and since all places of a stream are less than half of the range apart, the
sign of the difference of two numbers is that of their places (`AheadBy`); from there
on the step is arithmetic on places. `n` may be two past the bytes, for SYN and for the
header byte taken after a FIN (see `StreamBytes` below: the byte enters the buffer, but
as one that is no byte of the stream). `OneRecord` needs `FlagsOfEnds`: the flags a
packet gets come in part from the connection.

**Hash table.** `TableKept` is inductive but for two facts: that there are finitely many
keys, and where the walk's pointer is (`HashIInv`). Most of the proof is about the
operators: what taking out a node, adding one and `hash_resize` do to a table that is
`Placed`. For the growth every bucket of the new table is a counting of the positions
whose nodes belong there, so it must be shown that the counting is a bijection
(`Rank`). The refinement maps the table to the function from its keys to their values.

**Memory.** In all three parts the property is inductive with its types and one fact more.
The array (`A!IInv`): what `realloc` failed for was not nothing, so an array that is null
has an `m_max` that is not 0, and nothing is copied to it before it is cleared. Both the refinement and
`InsideBlock` then come down to what the calls do to a sequence: `AddIs` for what
`array_add` leaves on success, from which `array_append` and `array_insert` are insertions
at one place, and `array_remove_idx` is a removal from one, the cells behind `m_count` being
whatever they are. The sort is any permutation in order, so its step needs no algorithm.
The pool (`P!IInv`): nobody holds a reference to the block of a copy but the variable that
is copied to, so that the free of the old block is the last one. The calls are about what
`pool_free`, `pool_add` and `Put` do to a pool whose counts are some function of the pointers
(`Book`); with the holders for that function this is `Counted`. The list (`L!IInv`): no node
is in it twice. `Links` says of each place what the node there points to; adding behind a
place and removing a place each change the links of at most two neighbours, and the
places behind move by one.

**Files.** Four parts, each with an invariant of its own.
Directories (`D!IInv`): a process that walks its path has found the last directory it
tried, or has met an error; after `EACCES` a directory on its way cannot be made, and
everything below it gives `ENOENT` from then on. The second is `Blocked`, a prefix that
is denied and its successor that is not there, and since nobody can make that successor,
whatever the other processes do, it stays so (`Mkdir`); so the `errno` of the last call
decides what is true of the whole path. `NamesAgree` has no steps: it is about the last
separator and the last dot of any text (`LastSepIs`, `WithoutExtension`).
Mappings (`M!IInv`): `FileHolds` says what a file holds when nobody has it open; until
then it holds what was written and zeros behind it, which `ftruncate` cuts, all of it
mapped (`WrittenAndZeros`); a handle that is open for writing is the only one that is open
(`OneWriter`) and knows how much was written.
Namespaces (`N!IInv`): a delete dies at the call that finds something it does not expect.
A command that runs alone meets only what it left itself: behind `unlink` at `i` no name
before `i` is left, at `rmdir` nothing is mounted (`Alone`), and the directory is never
mounted twice. The proof has a lemma per call; a command that begins while another runs
sets `raced`, which ends all claims. Logs (`B!LogIInv`): `NewestKept` is inductive once it is known
that times grow (`InOrder`). The case is the new file: how many of the names are not
before a file is the place of its time from the end (`LoggedCount`), so `RotatedIs`
says exactly which files go.

**Keys.** `RoundTrip` is about what was encrypted last, so the invariant (`K!IInv`) says that
this was done with a key that there is. The rest is about the operators: a block has
`RsaSize` cells, so that what follows it starts where `RestOf` looks (`EncryptedIs`), a
block is one key's only, as its cells name the key, and the cells behind it name the
bytes the block holds and their own place, so that they are read back as they were
(`DecryptedIs`). The cells name the half too, and a pair has two, so a block that one
half made is not a block for the same half. `OwnsKey` is inductive with the types (`OneChanges`).

**State.** `CountInv`: the count is what is left of the tries as long as the state was
entered by `state_set`, and it falls below zero only when the next state is missing;
then it is the number of tries when a poll leaves the state.

**Children and services.** On unix the invariant says that nobody has an end of a
pair whose child was not started: what `fork` copies are ends of others, so a child adds
itself to those that keep earlier inputs open and nobody keeps its own. Of any children
there is then one whose input none of them keeps (`NoCircle`): of those with it the new
one, and of those without it the one there was, since nobody else gains an end
(`FewerEnds`). On Windows
everything that a child can inherit, the standard input and output and the copies of
them, is always an end of a child's side, even though the standard input is never put
back. For `proc_run_stdbuf` (`R!IInv`) the handles that are open follow from the step the
call is at and from how far it came. For the service (`V!IInv`), what the manager was
told last is tied to where `ServiceMain` and the handler stand (`Reports`).

**Certificate.** `AloneInv`: a call that overlapped none so far is the only one, and what
it has loaded is what the file holds.

**The whole.** A behaviour of `MCSystem` is one of one part, because `which` never changes;
`PartsInv` is the parts' invariants, each for its own behaviours, and `PartSteps` that a
step of the whole is a step of the part or none. `MCNetwork` has the same
(`SocketsInv`, `SocketSteps`).

Every inductive invariant was an invariant of a TLC run before it was proved.

**Only model-checked.** Liveness (`Progress`, `Delivered`, `EofPropagates`,
`ClosesEventually`, `SentOrFailed`, `Served`, `Released`, `Reassembled`, `NoZombies`,
`Returns`) is not in reach of TLAPS, nor is `ENABLED`. What recursive definitions and
folds compute would need induction over data: the readers of `Texts` and the halvings of
`array_bsearch` (`ResultsRight`), the readers of `HttpText` (so `AnswerTaken`), the sums
and walks of `PacketsRead`, the packed list in `ConfigKept`, the suffixes of
`NamesRead`. Of `ConfigKept` the part about certificates is proved. `BytesInOrder` and `EofLast` have no run of their own: the run
`pipe` checks them as part of `Channels`.

## Where the code and its documentation disagree

Six runs end in a counterexample; each is a behaviour of the code.

1. **Starvation** (fdselect_unix.c:50). The walk starts at the last slot and ends at the
   first callback that changes a registration. A callback that does so in every pass,
   as every flush of `sendlist` does, keeps lower slots from ever being called.
   fdselect.h: "call func when events occur".
2. **CLOSED twice** (fdselect_pipe.c:200). When the write handler called by the read
   handler fails and the pipe is done, it raises CLOSED, and the read handler raises
   it again; the test's handler deletes the pipe on the first.
3. **Freed twice** (sendlist.c:51). `free_func` runs before the head is removed. If it
   sends, the flush it starts frees the same sendbuf, and the outer call then removes
   one that was not sent.
4. **The wrong request expires** (dns_proxy.c:198). When no id is free, the error path
   frees the pending request the last draw found.
5. **A header byte in the stream** (ipconntrack.c:451). The test for the future is
   `diff > 1`. A packet one ahead moves `src` one byte in front of its payload; since FIN
   is not counted, the acknowledgement after it is such a packet.
6. **A part of the new version is installed** (http_req.c:72 and 173). `http_get` returns
   0 when the connection ends or fails in the middle, and for a file when the caller's
   function stops it; a piece that could not be written is passed over (update.c:125).
   `update` installs what there is.

Some modules state what a header or a comment says and the code does not do, without
a run of their own; the states are reached in the runs above:

| property | what happens |
|---|---|
| `FdselectWin`, `WriteCalled` | fdselect_win32.c says it always sets the event for writing; a socket that stays writable is called once, as Windows records it once |
| `Proc`, `ReturnsOnce` | when `exec` fails, `proc_start_stdpipe` returns in the child as well |
| `ProcPipe`, `WaitTold` (what it leaves out) | proc.h:39-43 says that `proc_wait` returns 0 when the child has ended and -2 at a timeout. On Windows the handle of `OpenProcess(SYNCHRONIZE)` does not allow `GetExitCodeProcess` (proc_win32.c:66 and 86), so a child that has ended is reported by -3 and never by 0; on unix the timeout is ignored (proc_unix.c:16), so -2 is never returned |
| `ProcPipe`, `OutputEnds` | the program keeps the writing end of a child's output as its own, and never reads the end of it |
| `Ifcfg`, `HostOrder` | the addresses of `ifcfg_get_dns_addrs` are in network order |
| `HttpReq`, `StopsWhenTold` | the function is called again, with ERROR, after it has returned nonzero |
| `Sock`, `ErrorAcceptedNone` | `sock_func_accept` returns the descriptor, which the loop takes for bytes of the address: an accept may return an error and have accepted |
| `FdselectWin`, `EventsClosed` | `fdselect_clear` drops the slots without closing their event objects (fdselect.c:56-61), as `fdselect_unset` does: nobody closes them any more |
| `ServiceWin`, `RunningOnlyInMain` | the handler sets RUNNING from its thread while `ServiceMain` reports STOPPED (service_win32.c:31 and 65): the manager is told last that the service runs |
| `HttpReq`, `HeaderWhole` | `http_strdup` never looks at the first letter when it strips space from the end (http.c:90-92), so that a text of one letter is read as empty: the uri "/" of HTTP/0.9, a name or value of one letter, and the length in "Content-Length: 5" |
| `Dns`, `AllReadBack` | the low byte of a pointer is read as a signed char (dns.c:218), so a name compressed to an offset such as 129 is refused; behind a CNAME the length of the data is added to where its name ended (dns.c:352-378), so the records behind it are looked for too far on |
| `Dns`, `QueryReady` | `dns_pack_query_in_a` returns -1 always, the message being packed all the same |

## What the properties leave out

Behaviour that a model has, or could have, and that its properties exclude, so that
they say what does hold beside it:

- `HttpServer`: a client that opened no file closes descriptor 0 (http_server.c:83,
  `send_fd` is 0 after `memset`). Once `accept` or `open` hands out 0 again, a later such
  end closes the descriptor of somebody else, `select` fails for ever if it was a
  registered socket, and a client whose own socket is 0 is cleared without being
  closed (line 86), after which its callback runs on the cleared structure
  (`CallbackOnCleared`). The properties hold up to the moment 0 is handed out (`reused`).
- `HttpServer`: when `sendfile` fails at once although the remote end is there, as it does
  for a directory, the client is freed after "200 Ok" and a length have been sent
  (http_server.c:289-294). `WholeFile` says nothing of such a file (`readable`).
- `Proc`: a child inherits the program's ends of the children before it, and nothing is
  closed on `exec` (proc_unix.c:118-132): when the program closes the input of a child, the
  child sees the end of it only when the later ones have ended. `NoCircle` says that
  there is always one that does.
- `Array`: `array_insert` is right when as many elements move as are inserted, or none,
  which is how the repository uses it (array.c:197). With `AnyInsert = TRUE`, `IsList` and
  `InsideBlock` are violated.
- `Pool`: adding a pointer that is in the pool frees it and keeps it (pool.c:112), and
  `pool_copy_buf` from inside the old buffer copies what was freed (line 178). The model
  adds new pointers and copies from elsewhere.
- `Cfg`: two writers of one value at the same time (cfg.c:197) write over each other byte by
  byte. `ConfigKept` is about what is found when writers took turns.
- `HashTable`: the free functions run before the node leaves (hash.c:196); callbacks that
  change the table from there are not modelled.
- `SendList`: with a file shorter than its range `sendfile` returns 0 for ever
  (sendlist.c:138) and `SentOrFailed` fails; `FileEnd` excludes it.
- `IpConnTrack`: a connection stays in the table after FIN or reset, so the same pair of
  ports used again continues the old numbers (ipconntrack.c:317). One connection is
  modelled.
- `CryptBk`: `seskey` points into the stack of `cryptbk_crypt` while it works, and an RSA
  call that fails leaves it there (cryptbk.c:754-840). `OwnsKey` shows that nothing else
  does; the model goes on only with calls that do not touch the key. To decrypt with the
  half that encrypted is such a failed call. Unpacking the
  binary form leaves `seskey_len` as it was (1219-1231), so a key copied into a new handle
  cannot be copied on.
- `CfgCrypt`: a renewed certificate has the serial of the old one, because `info.serial++`
  gives the value before the addition. Overlapping programs may return different
  certificates; `StoredAsReturned` excludes them (`quiet`).
- `Dir`: `errno` is asked after the loop, where nothing need have set it (dir.c:103). With
  `FirstExists = FALSE` a stale value decides.
- `Mmap`: two writers, and a program that goes on after a failed write, lose what the
  other wrote or grew: `Concurrent` and `GoesOn` are FALSE.
- `Debug`: a program takes the logs of another for its own if its prefix begins the
  other's (debug_stdio.c:94) and removes them: `Begins` is empty.
- `NetPkt`: an adjusted UDP sum of 0 is written as 0xFFFF, which `netpkt_cksum_check` does
  not take for it; types and lengths of IP options are signed, so types from 128 on
  never match.
- `ServiceWin`: a handler that runs while `ServiceMain` returns may report RUNNING after
  STOPPED (service_win32.c:31 and 65). `StoppedAfterMain` is the direction that holds.
  When `RegisterServiceCtrlHandler` fails (line 53), `ServiceMain` returns and nothing is
  reported: the manager waits.
- `NsTool`: two commands at once can mount the directory over itself twice, after which
  one delete is not enough (`raced`).
- `ProcWin`: a child that reads its input to the end never sees it (`ReadsToEnd`).
- `Texts`: an argument of a query with an empty key or value, and one so long that it alone
  fills the buffer, are lost (http.c:401-472); versions in which a number meets a word, and
  parts longer than their buffer, are left out; `opt_get_argv` does not report a number it
  cannot read (opt.c:507-512), which `opt_argv2optv` does, and an empty argument is left out:
  `opt_cat` writes nothing for it.
- `Ifcfg`: `resolv.conf` is empty in the run (`MaxLines = 0`): its properties are about the
  interface.

## What is not modelled

- `http_router.c`, `http_redirect.c`, `rtt.c`, `ipconntrack_db.c`, `mmapdb.c`, `select.c`: not
  built, and most cannot be: they use members, functions and headers that do not
  exist. What `http_router` is meant to be is `FdselectPipe` with its test.
- `sock_win32.c`, `console_win32.c`, `ifcfg_win32.cpp`, the registry: tables of calls into a
  system that is not in the repository, without a protocol of their own.
- Raw sockets, multicast options, descriptor passing, daemon start-up, log-in,
  environment: one system call each. `thread`: wrappers; `thread_queue.h` only declares.
- Certificate verification, extensions and the set-up of OpenSSL: the state is in
  OpenSSL. RSA, AES, SHA and the random numbers are external.
- Output and the conversion of text where no property is about it: `debug` messages,
  `opt_print`, `netpkt_dump`, `variant`, formatting of times, packets and tables.
- In modelled components: `hash_stat` and the string hash functions; requests that
  `dns_proxy` cannot parse (no state change); UDP, counters, times and
  `IpConnTrack_clear` of `ipconntrack`; `http_cgi_enc`. `realloc` fails in `Array`; elsewhere
  memory does not run out, unless a module says so.

`PROJECT.json` names every component with its reason.

## Plan

Next, in this order:

1. Proofs: the part of `ConfigKept` that needs no texts (`Layered`).
2. `IpConnTrack`: a second connection on the same ports, UDP, `IpConnTrack_clear`.
3. `HttpServer` over `HttpText` instead of a parser that is a choice.
4. `HashTable` with free functions that call back.
