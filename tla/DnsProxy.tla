------------------------------ MODULE DnsProxy ------------------------------
(***************************************************************************)
(* dns_proxy.c: a DNS request is forwarded to every server under a fresh   *)
(* id, kept in a hash table by that id, and the first reply with the id is *)
(* relayed to the requester.  Requests that get no reply expire.  The      *)
(* network loses, delays, reorders and duplicates datagrams.  Queries are  *)
(* numbered in the order they arrive; the table is the map FiniteMap that  *)
(* HashTable implements.                                                   *)
(***************************************************************************)
EXTENDS Integers, Sequences

CONSTANTS
  Id,           (* the ids rand_u32 draws from                             *)
  NServers,     (* how many addresses are in forward_addrs                 *)
  ExpireReq,    (* DNS_PROXY_EXPIRE_REQ, in clock ticks                    *)
  ExpirePoll,   (* DNS_PROXY_EXPIRE_POLL, in clock ticks                   *)
  MaxQueries,   (* bound: how many queries arrive                          *)
  MaxTime       (* bound: the clock                                        *)

ASSUME DnsProxyAssumption ==
  /\ NServers \in Nat \ {0}
  /\ ExpireReq \in Nat
  /\ ExpirePoll \in Nat
  /\ MaxQueries \in Nat
  /\ MaxTime \in Nat

VARIABLES
  req_hash_id,   (* id -> the query kept under it, 0 for none              *)
  expire,        (* proxy->expire: when the next sweep is due              *)
  query,         (* every query: its proxied id and its time to expire     *)
  replies,       (* <<query, server>>: forwarded, so that a reply may      *)
                 (* arrive: never, once or several times                   *)
  relayed,       (* per query: the queries whose replies were relayed to   *)
                 (* its requester                                          *)
  done,          (* the queries whose id a reply arrived for               *)
  now,           (* the clock                                              *)
  polled         (* the main loop has polled since the last tick           *)

vars == <<req_hash_id, expire, query, replies, relayed, done, now, polled>>

Query == 1..Len(query)

Server == 1..NServers

Free == {id \in Id : req_hash_id[id] = 0}

Init ==
  /\ req_hash_id = [id \in Id |-> 0]
  /\ expire = 0
  /\ query = <<>>
  /\ replies = {}
  /\ relayed = <<>>
  /\ done = {}
  /\ now = 0
  /\ polled = FALSE

(* Queries that come too late to expire within MaxTime are left out.       *)
Arrives == Len(query) < MaxQueries /\ now + ExpireReq + ExpirePoll < MaxTime

(* Mutant: the id is drawn without looking whether it is in use.           *)
dns_proxy_forward_any(id) ==
  /\ Arrives
  /\ req_hash_id' = [req_hash_id EXCEPT ![id] = Len(query) + 1]
  /\ query' = Append(query, [id |-> id, expire |-> now + ExpireReq])
  /\ relayed' = Append(relayed, <<>>)
  /\ replies' = replies \cup {<<Len(query) + 1, s>> : s \in Server}
  /\ UNCHANGED <<expire, done, now, polled>>

(* dns_proxy_forward with an unused id.  Servers are sent to from the last *)
(* one down; a failed sendto ends the loop and the call still succeeds.    *)
dns_proxy_forward(id) ==
  /\ Arrives
  /\ id \in Free
  /\ req_hash_id' = [req_hash_id EXCEPT ![id] = Len(query) + 1]
  /\ query' = Append(query, [id |-> id, expire |-> now + ExpireReq])
  /\ relayed' = Append(relayed, <<>>)
  /\ \E first \in 1..(NServers + 1) :
       replies' = replies \cup {<<Len(query) + 1, s>> : s \in first..NServers}
  /\ UNCHANGED <<expire, done, now, polled>>

(* dns_proxy_forward when every draw was in use: node is the request found *)
(* by the last draw, and the error path frees it.                          *)
ForwardNoId(id) ==
  /\ Arrives
  /\ Free = {}
  /\ req_hash_id' = [req_hash_id EXCEPT ![id] = 0]
  /\ UNCHANGED <<expire, query, replies, relayed, done, now, polled>>

(* Mutant: the request stays after its reply was relayed.                  *)
RelayKeeps(id, answer, ok) ==
  /\ done' = done \cup {req_hash_id[id]}
  /\ relayed' = IF ok THEN [relayed EXCEPT ![req_hash_id[id]] = Append(@, answer)] ELSE relayed
  /\ UNCHANGED req_hash_id

(* The reply is sent to the requester (which may fail) and the request is  *)
(* freed either way.                                                       *)
Relay(id, answer, ok) ==
  /\ done' = done \cup {req_hash_id[id]}
  /\ relayed' = IF ok THEN [relayed EXCEPT ![req_hash_id[id]] = Append(@, answer)] ELSE relayed
  /\ req_hash_id' = [req_hash_id EXCEPT ![id] = 0]

(* dns_proxy_select_recv: a reply arrives.  Only its id is looked at.      *)
dns_proxy_select_recv(q, s) ==
  /\ <<q, s>> \in replies
  /\ \/ /\ query[q].id \notin Free
        /\ \E ok \in BOOLEAN : Relay(query[q].id, q, ok)
     \/ /\ query[q].id \in Free
        /\ UNCHANGED <<req_hash_id, relayed, done>>
  /\ UNCHANGED <<expire, query, replies, now, polled>>

(* Mutant: the comparison is the wrong way round.                          *)
ExpiredInverted(q) == now < query[q].expire

(* dns_proxy_foreach_expire.                                               *)
Expired(q) == now > query[q].expire

(* Mutant: every other sweep is left out.                                  *)
NextSweepLate == now + 2 * ExpirePoll

(* Mutant: the period is taken away.                                       *)
NextSweepBack == now - ExpirePoll

NextSweep == now + ExpirePoll

(* dns_proxy_poll, from the main loop after every select: a sweep when one *)
(* is due.                                                                 *)
dns_proxy_poll ==
  /\ ~polled
  /\ polled' = TRUE
  /\ IF now < expire
     THEN UNCHANGED <<expire, req_hash_id>>
     ELSE /\ expire' = NextSweep
          /\ req_hash_id' = [id \in Id |-> IF id \notin Free /\ Expired(req_hash_id[id])
                                           THEN 0 ELSE req_hash_id[id]]
  /\ UNCHANGED <<query, replies, relayed, done, now>>

(* The select before each poll waits at most one tick.                     *)
Tick ==
  /\ polled
  /\ now < MaxTime
  /\ now' = now + 1
  /\ polled' = FALSE
  /\ UNCHANGED <<req_hash_id, expire, query, replies, relayed, done>>

Next ==
  \/ \E id \in Id : dns_proxy_forward(id)
  \/ \E id \in Id : ForwardNoId(id)
  \/ \E q \in Query, s \in Server : dns_proxy_select_recv(q, s)
  \/ dns_proxy_poll
  \/ Tick

Spec == Init /\ [][Next]_vars

(* Time passes and the main loop goes round; nothing is assumed of the     *)
(* servers and the network.                                                *)
FairSpec == Spec /\ WF_vars(Tick) /\ WF_vars(dns_proxy_poll)

-----------------------------------------------------------------------------
TypeOK ==
  /\ req_hash_id \in [Id -> 0..MaxQueries]
  /\ expire \in Nat
  /\ query \in Seq([id : Id, expire : Nat])
  /\ replies \subseteq (1..MaxQueries) \X Server
  /\ relayed \in Seq(Seq(1..MaxQueries))
  /\ Len(relayed) = Len(query)
  /\ done \subseteq 1..MaxQueries
  /\ now \in Nat
  /\ polled \in BOOLEAN

(* A requester gets at most one reply however many servers answer, and     *)
(* however often; and a reply to another query reaches it only if that     *)
(* query had the same id earlier.                                          *)
OneReply ==
  \A q \in Query :
    /\ Len(relayed[q]) <= 1
    /\ \A i \in DOMAIN relayed[q] : /\ relayed[q][i] <= q
                                    /\ query[relayed[q][i]].id = query[q].id

(* A request is kept until a reply with its id arrives or its time is up.  *)
(* A request that is gone for another reason never gets its reply, and     *)
(* its requester is not told.                                              *)
KeptUntilAnswered ==
  \A q \in Query : req_hash_id[query[q].id] = q \/ q \in done \/ now > query[q].expire

(* As long as there are unused ids, a request leaves the table only        *)
(* because a reply with its id arrived or its time is up.                  *)
LeavesForCause ==
  [][\A id \in Id \ Free : req_hash_id'[id] # req_hash_id[id] =>
       Free = {} \/ req_hash_id[id] \in done'
       \/ now > query[req_hash_id[id]].expire]_vars

(* "max time for forwarded reply": no request is kept longer than that and *)
(* one polling period.                                                     *)
ExpiresInTime ==
  \A q \in Query : req_hash_id[query[q].id] = q => now <= query[q].expire + ExpirePoll

(* A requester gets one reply at most, however many servers answer, and    *)
(* none is waited for too long, although sweeps are rationed.              *)
RepliesInTime == TypeOK /\ OneReply /\ ExpiresInTime

(* Every request leaves the table in the end.                              *)
Released ==
  \A id \in Id : \A q \in 1..MaxQueries : req_hash_id[id] = q ~> req_hash_id[id] # q

-----------------------------------------------------------------------------
(* What is kept under an id is the youngest query that had it, and got no  *)
(* reply yet.                                                              *)
Kept ==
  \A id \in Id \ Free :
    /\ req_hash_id[id] \in Query
    /\ query[req_hash_id[id]].id = id
    /\ relayed[req_hash_id[id]] = <<>>
    /\ \A q \in Query : query[q].id = id => q <= req_hash_id[id]

(* The next sweep is never far, nor behind the clock, and comes in time    *)
(* for every request that the last one has left.                           *)
SweepInv ==
  /\ expire <= now + ExpirePoll
  /\ now <= expire
  /\ polled => now < expire
  /\ \A id \in Id \ Free : expire <= query[req_hash_id[id]].expire + ExpirePoll

Forwarded == \A r \in replies : r[1] \in Query

IInv == TypeOK /\ Len(query) <= MaxQueries /\ Forwarded /\ Kept /\ OneReply /\ SweepInv
=============================================================================
