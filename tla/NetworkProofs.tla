--------------------------- MODULE NetworkProofs ---------------------------
(***************************************************************************)
(* The proofs about what MCNetwork composes: the DNS proxy, the calls of a *)
(* socket and the addresses, the set-up of an interface, and the whole.    *)
(* Liveness, and the packed messages, are left to TLC.                     *)
(***************************************************************************)
EXTENDS MCNetwork, SequenceTheorems, TLAPS

-----------------------------------------------------------------------------
(* The DNS proxy, an instance of its own.                                  *)
LEMMA InSeq ==
  ASSUME NEW T, NEW s \in Seq(T), NEW i \in DOMAIN s
  PROVE  s[i] \in T
  OBVIOUS

LEMMA QueryTyped ==
  ASSUME TypeOK, NEW q \in Query
  PROVE  /\ q \in Nat \ {0} /\ q \in DOMAIN query /\ q \in 1..Len(query)
         /\ query[q].id \in Id /\ query[q].expire \in Nat
<1> DEFINE Row == [id : Id, expire : Nat]
<1>1. query \in Seq(Row) /\ q \in 1..Len(query)
  BY DEF TypeOK, Query
<1> HIDE DEF Row
<1>2. q \in DOMAIN query
  BY <1>1
<1>3. query[q] \in Row
  BY <1>1, <1>2, InSeq
<1> QED
  BY <1>1, <1>2, <1>3 DEF Row

LEMMA InitIInv == Init => IInv
<1> SUFFICES ASSUME Init PROVE IInv
  OBVIOUS
<1>1. Query = {} /\ Free = Id
  BY DEF Init, Query, Free
<1>2. query \in Seq([id : Id, expire : Nat]) /\ relayed \in Seq(Seq(1..MaxQueries))
  BY DEF Init
<1>3. TypeOK
  <2>1. req_hash_id \in [Id -> 0..MaxQueries] /\ Len(relayed) = Len(query)
    BY DnsProxyAssumption DEF Init, DnsProxyAssumption
  <2>2. /\ expire \in Nat /\ now \in Nat /\ polled \in BOOLEAN
        /\ replies = {} /\ done = {}
    BY DEF Init
  <2> QED
    BY <1>2, <2>1, <2>2 DEF TypeOK
<1>4. Forwarded /\ Kept /\ OneReply
  BY <1>1 DEF Init, Forwarded, Kept, OneReply
<1>5. SweepInv
  BY <1>1, DnsProxyAssumption DEF Init, SweepInv, DnsProxyAssumption
<1>6. Len(query) <= MaxQueries
  BY DnsProxyAssumption DEF Init, DnsProxyAssumption
<1> QED
  BY <1>2, <1>3, <1>4, <1>5, <1>6 DEF IInv

(* A query arrives and is kept under an id nobody else has.                *)
LEMMA ForwardIInv ==
  ASSUME IInv, NEW id \in Id, dns_proxy_forward(id)
  PROVE  IInv'
<1> DEFINE n == Len(query) + 1
<1>1. /\ n \in Nat /\ n \in 1..MaxQueries /\ Len(query') = n /\ Len(relayed') = n
      /\ query'[n] = [id |-> id, expire |-> now + ExpireReq] /\ relayed'[n] = <<>>
      /\ \A q \in 1..Len(query) : query'[q] = query[q] /\ relayed'[q] = relayed[q]
      /\ query' \in Seq([id : Id, expire : Nat])
      /\ relayed' \in Seq(Seq(1..MaxQueries))
  <2>1. n \in Nat /\ n \in 1..MaxQueries
    BY DnsProxyAssumption DEF IInv, TypeOK, dns_proxy_forward, Arrives, DnsProxyAssumption
  <2>2. [id |-> id, expire |-> now + ExpireReq] \in [id : Id, expire : Nat]
    BY DnsProxyAssumption DEF IInv, TypeOK, DnsProxyAssumption
  <2>3. <<>> \in Seq(1..MaxQueries)
    OBVIOUS
  <2> QED
    BY <2>1, <2>2, <2>3 DEF IInv, TypeOK, dns_proxy_forward
<1>2. /\ req_hash_id' = [req_hash_id EXCEPT ![id] = n] /\ req_hash_id[id] = 0
      /\ req_hash_id'[id] = n
      /\ \A d \in Id \ {id} : req_hash_id'[d] = req_hash_id[d]
  BY DEF dns_proxy_forward, Free, IInv, TypeOK
<1>3. Query' = 1..n /\ Query = 1..Len(query) /\ Free' = Free \ {id} /\ id \in Free
  BY <1>1, <1>2 DEF Query, Free
<1> HIDE DEF n
<1>4. TypeOK' /\ Forwarded' /\ Len(query') <= MaxQueries
  <2>1. PICK first \in 1..(NServers + 1) :
          replies' = replies \cup {<<n, s>> : s \in first..NServers}
    BY DEF dns_proxy_forward, n
  <2>2. replies' \subseteq (1..MaxQueries) \X Server /\ Forwarded'
    <3>1. \A s \in first..NServers : s \in Server
      BY DnsProxyAssumption DEF Server, DnsProxyAssumption
    <3>2. \A r \in replies : r \in (1..MaxQueries) \X Server /\ r[1] \in 1..Len(query)
      BY <1>3 DEF IInv, TypeOK, Forwarded
    <3>3. \A q \in 1..Len(query) : q \in 1..n
      BY <1>1 DEF n
    <3>4. \A r \in replies' : r \in (1..MaxQueries) \X Server /\ r[1] \in 1..n
      BY <1>1, <2>1, <3>1, <3>2, <3>3
    <3> QED
      BY <1>3, <3>4 DEF Forwarded
  <2>3. req_hash_id' \in [Id -> 0..MaxQueries]
    BY <1>1, <1>2 DEF IInv, TypeOK
  <2> QED
    BY <1>1, <2>2, <2>3 DEF IInv, TypeOK, dns_proxy_forward
<1>5. Kept'
  <2> SUFFICES ASSUME NEW d \in Id \ Free'
               PROVE  /\ req_hash_id'[d] \in Query'
                      /\ query'[req_hash_id'[d]].id = d
                      /\ relayed'[req_hash_id'[d]] = <<>>
                      /\ \A q \in Query' : query'[q].id = d => q <= req_hash_id'[d]
    BY DEF Kept
  <2>1. CASE d = id
    BY <1>1, <1>2, <1>3, <2>1
  <2>2. CASE d # id
    <3>1. d \in Id \ Free /\ req_hash_id'[d] = req_hash_id[d] /\ query'[n].id # d
      BY <1>1, <1>2, <1>3, <2>2
    <3>2. /\ req_hash_id[d] \in 1..Len(query)
          /\ query[req_hash_id[d]].id = d /\ relayed[req_hash_id[d]] = <<>>
          /\ \A q \in 1..Len(query) : query[q].id = d => q <= req_hash_id[d]
      BY <1>3, <3>1 DEF IInv, Kept
    <3>3. \A q \in 1..n : q # n => q \in 1..Len(query)
      BY <1>1 DEF n
    <3>4. \A q \in Query' : query'[q].id = d => q <= req_hash_id'[d]
      BY <1>1, <1>3, <3>1, <3>2, <3>3
    <3>5. req_hash_id'[d] \in 1..n
      BY <1>1, <3>1, <3>2 DEF n
    <3> QED
      BY <1>1, <1>3, <3>1, <3>2, <3>4, <3>5
  <2> QED
    BY <2>1, <2>2
<1>6. OneReply'
  <2> SUFFICES ASSUME NEW q \in Query'
               PROVE  /\ Len(relayed'[q]) <= 1
                      /\ \A i \in DOMAIN relayed'[q] :
                           /\ relayed'[q][i] <= q
                           /\ query'[relayed'[q][i]].id = query'[q].id
    BY DEF OneReply
  <2>1. CASE q = n
    BY <1>1, <2>1
  <2>2. CASE q # n
    <3>1. q \in 1..Len(query)
      BY <1>1, <1>3, <2>2 DEF n
    <3>2. /\ Len(relayed[q]) <= 1
          /\ \A i \in DOMAIN relayed[q] :
               relayed[q][i] <= q /\ query[relayed[q][i]].id = query[q].id
      BY <1>3, <3>1 DEF IInv, OneReply
    <3>3. \A i \in DOMAIN relayed[q] : relayed[q][i] \in 1..Len(query)
      <4>1. relayed[q] \in Seq(1..MaxQueries)
        BY <3>1 DEF IInv, TypeOK
      <4>2. \A i \in DOMAIN relayed[q] : relayed[q][i] \in 1..MaxQueries
        BY <4>1, InSeq
      <4>3. q <= Len(query) /\ q \in Nat
        BY <3>1
      <4> QED
        BY <3>2, <4>2, <4>3
    <3> QED
      BY <1>1, <3>1, <3>2, <3>3
  <2> QED
    BY <2>1, <2>2
<1>7. SweepInv'
  <2>1. expire' = expire /\ now' = now /\ polled' = polled
    BY DEF dns_proxy_forward
  <2>2. /\ now \in Nat /\ expire \in Nat /\ expire <= now + ExpirePoll
        /\ ExpireReq \in Nat /\ ExpirePoll \in Nat
    BY DnsProxyAssumption DEF IInv, TypeOK, SweepInv, DnsProxyAssumption
  <2>3. query'[n].expire = now + ExpireReq
    BY <1>1
  <2>4. ASSUME NEW d \in Id \ Free'
        PROVE  expire <= query'[req_hash_id'[d]].expire + ExpirePoll
    <3>1. CASE d = id
      BY <1>2, <2>2, <2>3, <3>1
    <3>2. CASE d # id
      <4>1. d \in Id \ Free /\ req_hash_id'[d] = req_hash_id[d]
        BY <1>2, <1>3, <3>2
      <4>2. req_hash_id[d] \in 1..Len(query)
        BY <1>3, <4>1 DEF IInv, Kept
      <4> QED
        BY <1>1, <4>1, <4>2 DEF IInv, SweepInv
    <3> QED
      BY <3>1, <3>2
  <2> QED
    BY <2>1, <2>4 DEF IInv, SweepInv
<1> QED
  BY <1>4, <1>5, <1>6, <1>7 DEF IInv

(* What stays in the table when entries only leave it.                     *)
LEMMA EntriesLeave ==
  ASSUME IInv, query' = query, relayed' = relayed,
         req_hash_id' \in [Id -> 0..MaxQueries],
         \A id \in Id : req_hash_id'[id] \in {0, req_hash_id[id]}
  PROVE  /\ Free \subseteq Free' /\ Query' = Query
         /\ \A id \in Id \ Free' : req_hash_id'[id] = req_hash_id[id]
         /\ Kept' /\ OneReply'
<1>1. /\ Free \subseteq Free' /\ Query' = Query
      /\ \A id \in Id \ Free' : id \in Id \ Free /\ req_hash_id'[id] = req_hash_id[id]
  BY DEF Free, Query
<1>2. Kept'
  BY <1>1 DEF IInv, Kept
<1>3. OneReply'
  BY <1>1 DEF IInv, OneReply
<1> QED
  BY <1>1, <1>2, <1>3

(* The requester of the youngest query that had the id gets the reply; it  *)
(* had none before.                                                        *)
LEMMA ReplyIInv ==
  ASSUME IInv, NEW a \in Query, NEW s \in Server, dns_proxy_select_recv(a, s)
  PROVE  IInv'
<1>1. CASE query[a].id \in Free
  <2>1. UNCHANGED vars
    BY <1>1 DEF dns_proxy_select_recv, vars
  <2> QED
    BY <2>1 DEF vars, IInv, TypeOK, Forwarded, Kept, OneReply, SweepInv, Query, Free
<1>2. CASE query[a].id \notin Free
  <2> DEFINE id == query[a].id
             p == req_hash_id[id]
  <2>1. PICK ok \in BOOLEAN : Relay(id, a, ok)
    BY <1>2 DEF dns_proxy_select_recv
  <2>2. a \in 1..Len(query) /\ Query = 1..Len(query) /\ Len(query) \in Nat
    BY DEF Query, IInv, TypeOK
  <2>3. id \in Id
    BY QueryTyped DEF IInv
  <2>4. /\ p \in Query /\ query[p].id = id /\ relayed[p] = <<>>
        /\ a <= p /\ p \in 1..MaxQueries /\ a \in 1..MaxQueries
    <3>1. p \in Query /\ query[p].id = id /\ relayed[p] = <<>> /\ a <= p
      BY <1>2, <2>3 DEF IInv, Kept
    <3>2. Len(query) <= MaxQueries /\ MaxQueries \in Nat
      BY DnsProxyAssumption DEF IInv, DnsProxyAssumption
    <3> QED
      BY <2>2, <3>1, <3>2
  <2>5. UNCHANGED <<expire, query, replies, now, polled>>
    BY DEF dns_proxy_select_recv
  <2>6. /\ done' = done \cup {p}
        /\ req_hash_id' = [req_hash_id EXCEPT ![id] = 0]
        /\ relayed' = IF ok THEN [relayed EXCEPT ![p] = Append(@, a)] ELSE relayed
    BY <2>1 DEF Relay
  <2> HIDE DEF id, p
  <2>7. /\ relayed' \in Seq(Seq(1..MaxQueries)) /\ Len(relayed') = Len(relayed)
        /\ relayed'[p] \in {<<>>, <<a>>}
        /\ \A q \in Query : q # p => relayed'[q] = relayed[q]
    <3> DEFINE Lists == Seq(1..MaxQueries)
    <3>1. <<a>> \in Lists /\ Append(<<>>, a) = <<a>>
      BY <2>4
    <3>2. relayed \in Seq(Lists) /\ Query = DOMAIN relayed
      BY <2>2 DEF IInv, TypeOK
    <3> HIDE DEF Lists
    <3>3. ok => relayed' = [relayed EXCEPT ![p] = <<a>>]
      BY <2>4, <2>6, <3>1
    <3>4. CASE ok
      <4>1. p \in 1..Len(relayed) /\ relayed' = [relayed EXCEPT ![p] = <<a>>]
        BY <2>4, <3>2, <3>3, <3>4
      <4>2. /\ relayed' \in Seq(Lists) /\ Len(relayed') = Len(relayed)
            /\ \A j \in 1..Len(relayed) : relayed'[j] = IF j = p THEN <<a>> ELSE relayed[j]
        BY <3>1, <3>2, <4>1, ExceptSeq
      <4> QED
        BY <3>2, <4>1, <4>2 DEF Lists
    <3>5. CASE ~ok
      BY <2>4, <2>6, <3>2, <3>5 DEF Lists
    <3> QED
      BY <3>4, <3>5
  <2>8. TypeOK'
    <3>1. req_hash_id' \in [Id -> 0..MaxQueries]
      BY <2>3, <2>6, DnsProxyAssumption DEF IInv, TypeOK, DnsProxyAssumption
    <3>2. done' \subseteq 1..MaxQueries
      BY <2>4, <2>6 DEF IInv, TypeOK
    <3> QED
      BY <2>5, <2>7, <3>1, <3>2 DEF IInv, TypeOK
  <2>9. /\ Query' = Query /\ Free' = Free \cup {id}
        /\ \A d \in Id \ Free' : d \in Id \ Free /\ d # id /\ req_hash_id'[d] = req_hash_id[d]
    BY <2>3, <2>5, <2>6 DEF Query, Free, IInv, TypeOK
  <2>10. Kept'
    <3> SUFFICES ASSUME NEW d \in Id \ Free'
                 PROVE  /\ req_hash_id'[d] \in Query'
                        /\ query'[req_hash_id'[d]].id = d
                        /\ relayed'[req_hash_id'[d]] = <<>>
                        /\ \A q \in Query' : query'[q].id = d => q <= req_hash_id'[d]
      BY DEF Kept
    <3>1. req_hash_id[d] \in Query /\ query[req_hash_id[d]].id = d /\ req_hash_id[d] # p
      BY <2>4, <2>9 DEF IInv, Kept
    <3> QED
      BY <2>5, <2>7, <2>9, <3>1 DEF IInv, Kept
  <2>11. OneReply'
    <3> SUFFICES ASSUME NEW q \in Query
                 PROVE  /\ Len(relayed'[q]) <= 1
                        /\ \A i \in DOMAIN relayed'[q] :
                             /\ relayed'[q][i] <= q
                             /\ query[relayed'[q][i]].id = query[q].id
      BY <2>5, <2>9 DEF OneReply
    <3>1. CASE q = p /\ relayed'[q] = <<>>
      BY <3>1
    <3>2. CASE q = p /\ relayed'[q] = <<a>>
      BY <2>4, <3>2 DEF id
    <3>3. CASE q # p
      BY <2>7, <3>3 DEF IInv, OneReply
    <3> QED
      BY <2>7, <3>1, <3>2, <3>3
  <2>12. SweepInv' /\ Forwarded' /\ Len(query') <= MaxQueries
    BY <2>5, <2>9 DEF IInv, SweepInv, Forwarded
  <2> QED
    BY <2>8, <2>10, <2>11, <2>12 DEF IInv
<1> QED
  BY <1>1, <1>2

(* The error path and the sweep take entries out.                          *)
LEMMA NoIdIInv ==
  ASSUME IInv, NEW id \in Id, ForwardNoId(id)
  PROVE  IInv'
<1>1. /\ req_hash_id' \in [Id -> 0..MaxQueries]
      /\ \A d \in Id : req_hash_id'[d] \in {0, req_hash_id[d]}
  BY DnsProxyAssumption DEF ForwardNoId, IInv, TypeOK, DnsProxyAssumption
<1>2. UNCHANGED <<expire, query, replies, relayed, done, now, polled>>
  BY DEF ForwardNoId
<1>3. /\ Free \subseteq Free' /\ Query' = Query
      /\ \A d \in Id \ Free' : req_hash_id'[d] = req_hash_id[d]
      /\ Kept' /\ OneReply'
  BY <1>1, <1>2, EntriesLeave
<1> QED
  BY <1>1, <1>2, <1>3 DEF IInv, TypeOK, Forwarded, SweepInv

LEMMA PollIInv ==
  ASSUME ExpirePoll # 0, IInv, dns_proxy_poll
  PROVE  IInv'
<1>1. UNCHANGED <<query, replies, relayed, done, now>> /\ polled' = TRUE
  BY DEF dns_proxy_poll
<1>2. now \in Nat /\ expire \in Nat /\ ExpirePoll \in Nat /\ ExpirePoll > 0
  BY DnsProxyAssumption DEF IInv, TypeOK, DnsProxyAssumption
<1>3. CASE now < expire
  <2>1. UNCHANGED <<expire, req_hash_id>>
    BY <1>3 DEF dns_proxy_poll
  <2> QED
    BY <1>1, <1>3, <2>1 DEF IInv, TypeOK, Forwarded, Kept, OneReply, SweepInv, Query, Free
<1>4. CASE ~(now < expire)
  <2>1. /\ expire' = now + ExpirePoll
        /\ req_hash_id' = [id \in Id |-> IF id \notin Free /\ Expired(req_hash_id[id])
                                         THEN 0 ELSE req_hash_id[id]]
    BY <1>4 DEF dns_proxy_poll, NextSweep
  <2>2. /\ req_hash_id' \in [Id -> 0..MaxQueries]
        /\ \A d \in Id : req_hash_id'[d] \in {0, req_hash_id[d]}
    BY <2>1, DnsProxyAssumption DEF IInv, TypeOK, DnsProxyAssumption
  <2>3. /\ Free \subseteq Free' /\ Query' = Query
        /\ \A d \in Id \ Free' : req_hash_id'[d] = req_hash_id[d]
        /\ Kept' /\ OneReply'
    BY <1>1, <2>2, EntriesLeave
  <2>4. ASSUME NEW d \in Id \ Free'
        PROVE  expire' <= query[req_hash_id'[d]].expire + ExpirePoll
    <3>1. d \in Id \ Free /\ req_hash_id'[d] = req_hash_id[d] /\ req_hash_id'[d] # 0
      BY <2>3 DEF Free
    <3>2. req_hash_id[d] \in Query
      BY <3>1 DEF IInv, Kept
    <3>3. ~Expired(req_hash_id[d])
      BY <2>1, <3>1
    <3>4. query[req_hash_id[d]].expire \in Nat
      BY <3>2, QueryTyped DEF IInv
    <3>5. now <= query[req_hash_id[d]].expire
      BY <1>2, <3>3, <3>4 DEF Expired
    <3> QED
      BY <1>2, <2>1, <3>1, <3>4, <3>5
  <2>5. SweepInv'
    BY <1>1, <1>2, <2>1, <2>4 DEF SweepInv
  <2>6. TypeOK' /\ Forwarded' /\ Len(query') <= MaxQueries
    BY <1>1, <1>2, <2>1, <2>2, <2>3 DEF IInv, TypeOK, Forwarded
  <2> QED
    BY <2>3, <2>5, <2>6 DEF IInv
<1> QED
  BY <1>3, <1>4

LEMMA NextIInv == ASSUME ExpirePoll # 0 PROVE IInv /\ [Next]_vars => IInv'
<1> SUFFICES ASSUME IInv, [Next]_vars PROVE IInv'
  OBVIOUS
<1>1. CASE Tick
  <2>1. now' = now + 1 /\ polled' = FALSE /\ now < expire
        /\ UNCHANGED <<req_hash_id, expire, query, replies, relayed, done>>
    BY <1>1 DEF Tick, IInv, SweepInv
  <2>2. now \in Nat /\ expire \in Nat /\ ExpirePoll \in Nat
    BY DnsProxyAssumption DEF IInv, TypeOK, DnsProxyAssumption
  <2>3. SweepInv'
    BY <2>1, <2>2 DEF IInv, SweepInv, Free
  <2>4. TypeOK'
    <3>1. now' \in Nat
      BY <2>1, <2>2
    <3>2. polled' \in BOOLEAN
      BY <2>1
    <3> QED
      BY <2>1, <3>1, <3>2 DEF IInv, TypeOK
  <2>5. Forwarded' /\ Kept' /\ OneReply' /\ Len(query') <= MaxQueries
    BY <2>1 DEF IInv, Forwarded, Kept, OneReply, Query, Free
  <2> QED
    BY <2>3, <2>4, <2>5 DEF IInv
<1>2. CASE UNCHANGED vars
  BY <1>2 DEF vars, IInv, TypeOK, Forwarded, Kept, OneReply, SweepInv, Query, Free
<1> QED
  BY <1>1, <1>2, ForwardIInv, NoIdIInv, ReplyIInv, PollIInv DEF Next

(* Replies are never given twice, nor to a query younger than the one they *)
(* answer, and dns_proxy_poll leaves no request in the table for longer    *)
(* than its time and one period: for any number of ids, servers and        *)
(* queries, whatever the network does.                                     *)
THEOREM RepliedInTime ==
  ASSUME ExpirePoll # 0
  PROVE  Spec => []RepliesInTime
<1>1. IInv => RepliesInTime
  <2> SUFFICES ASSUME IInv, NEW q \in Query, req_hash_id[query[q].id] = q
               PROVE  now <= query[q].expire + ExpirePoll
    BY DEF RepliesInTime, ExpiresInTime, IInv
  <2>1. query[q].id \in Id \ Free /\ query[q].expire \in Nat
    BY QueryTyped DEF Free, IInv
  <2>2. expire <= query[q].expire + ExpirePoll /\ now <= expire
    BY <2>1 DEF IInv, SweepInv
  <2> QED
    BY <2>1, <2>2, DnsProxyAssumption DEF IInv, TypeOK, DnsProxyAssumption
<1> QED
  BY <1>1, InitIInv, NextIInv, PTL DEF Spec

(* As long as there are unused ids, only a reply or the clock takes a      *)
(* request out of the table, whatever arrives between.                     *)
THEOREM LeftForCause == Spec => LeavesForCause
<1> DEFINE Cause == \A id \in Id \ Free : req_hash_id'[id] # req_hash_id[id] =>
                      Free = {} \/ req_hash_id[id] \in done'
                      \/ now > query[req_hash_id[id]].expire
           Table == req_hash_id \in [Id -> Nat]
<1>1. Init => Table
  BY DEF Init
<1>2. Table /\ [Next]_vars => Table' /\ Cause
  <2> SUFFICES ASSUME Table, [Next]_vars PROVE Table' /\ Cause
    OBVIOUS
  <2>1. ASSUME NEW id \in Id, dns_proxy_forward(id) PROVE Table' /\ Cause
    <3>1. Len(query) + 1 \in Nat
      BY <2>1 DEF dns_proxy_forward
    <3> QED
      BY <2>1, <3>1 DEF dns_proxy_forward, Free
  <2>2. ASSUME NEW id \in Id, ForwardNoId(id) PROVE Table' /\ Cause
    BY <2>2 DEF ForwardNoId
  <2>3. ASSUME NEW q \in Query, NEW s \in Server, dns_proxy_select_recv(q, s)
        PROVE  Table' /\ Cause
    BY <2>3 DEF dns_proxy_select_recv, Relay
  <2>4. CASE dns_proxy_poll
    BY <2>4 DEF dns_proxy_poll, Expired
  <2>5. CASE Tick \/ UNCHANGED vars
    BY <2>5 DEF Tick, vars
  <2> QED
    BY <2>1, <2>2, <2>3, <2>4, <2>5 DEF Next
<1>3. Table /\ [Next]_vars => Table'
  BY <1>2
<1>4. Table /\ [Next]_vars => [Cause]_vars
  BY <1>2
<1> HIDE DEF Table
<1> QED
  BY <1>1, <1>3, <1>4, PTL DEF Spec, LeavesForCause

-----------------------------------------------------------------------------
(* sock.c.  Numbers one after another: the first of them, and the others.  *)
Numbers(first, s) == s = [i \in 1..Len(s) |-> first + i]

(* Numbers that go on where others end make up one row of them.            *)
LEMMA NumbersJoin ==
  ASSUME NEW m \in Nat, NEW s \in Seq(Nat), NEW t \in Seq(Nat),
         Numbers(m, s), Numbers(m + Len(s), t)
  PROVE  s \o t \in Seq(Nat) /\ Len(s \o t) = Len(s) + Len(t) /\ Numbers(m, s \o t)
<1> DEFINE u == s \o t
<1>1. /\ u \in Seq(Nat) /\ Len(u) = Len(s) + Len(t)
      /\ \A i \in 1..(Len(s) + Len(t)) : u[i] = IF i <= Len(s) THEN s[i] ELSE t[i - Len(s)]
  BY ConcatProperties, Zenon
<1> HIDE DEF u
<1>2. /\ \A i \in 1..Len(s) : s[i] = m + i
      /\ \A i \in 1..Len(t) : t[i] = m + Len(s) + i
  BY DEF Numbers
<1>3. ASSUME NEW i \in 1..Len(u) PROVE u[i] = m + i
  <2>1. u[i] = IF i <= Len(s) THEN s[i] ELSE t[i - Len(s)]
    BY <1>1
  <2>2. CASE i <= Len(s)
    BY <1>2, <2>1, <2>2
  <2>3. CASE ~(i <= Len(s))
    <3>1. i - Len(s) \in 1..Len(t)
      BY <1>1, <2>3
    <3>2. t[i - Len(s)] = m + Len(s) + (i - Len(s))
      BY <1>2, <3>1
    <3> QED
      BY <2>1, <2>3, <3>1, <3>2
  <2> QED
    BY <2>2, <2>3
<1>4. u = [i \in 1..Len(u) |-> m + i]
  BY <1>1, <1>3
<1> QED
  BY <1>1, <1>4 DEF u, Numbers

(* A row of numbers can be taken apart again.                              *)
LEMMA NumbersSplit ==
  ASSUME NEW m \in Nat, NEW s \in Seq(Nat), Numbers(m, s), NEW n \in 1..Len(s)
  PROVE  /\ SubSeq(s, 1, n) \in Seq(Nat) /\ Len(SubSeq(s, 1, n)) = n
         /\ Numbers(m, SubSeq(s, 1, n))
         /\ SubSeq(s, n + 1, Len(s)) \in Seq(Nat)
         /\ Len(SubSeq(s, n + 1, Len(s))) = Len(s) - n
         /\ Numbers(m + n, SubSeq(s, n + 1, Len(s)))
<1>1. /\ n \in Nat /\ n >= 1 /\ n <= Len(s) /\ Len(s) \in Nat
      /\ \A i \in 1..Len(s) : s[i] = m + i
  BY DEF Numbers
<1>2. /\ SubSeq(s, 1, n) \in Seq(Nat) /\ Len(SubSeq(s, 1, n)) = n
      /\ SubSeq(s, 1, n) = [i \in 1..n |-> m + i]
  BY <1>1
<1>3. /\ SubSeq(s, n + 1, Len(s)) \in Seq(Nat)
      /\ Len(SubSeq(s, n + 1, Len(s))) = Len(s) - n
      /\ SubSeq(s, n + 1, Len(s)) = [i \in 1..(Len(s) - n) |-> m + n + i]
  BY <1>1
<1> QED
  BY <1>2, <1>3 DEF Numbers

(* At first nothing is sent, and no call is made.                          *)
LEMMA SockInitIInv == S!Init => S!IInv
<1> SUFFICES ASSUME S!Init PROVE S!IInv
  OBVIOUS
<1>1. /\ v3 = <<>> /\ v7 = <<>> /\ v8 = 0 /\ v6 = {}
      /\ v4 = [e \in S!End |-> S!Idle] /\ v5 = [e \in S!End |-> 0]
  BY DEF S!Init
<1>2. <<>> = [i \in 1..0 |-> i] /\ <<>> = [i \in 1..0 |-> 0 + i] /\ Len(<<>>) = 0
  OBVIOUS
<1>3. /\ S!Idle.at = "idle" /\ S!Idle.done = 0
      /\ S!Idle \in [at : {"idle", "func", "select"}, len : Nat, done : Nat]
  BY DEF S!Idle
<1>4. S!TypeOK
  BY <1>1, <1>3 DEF S!TypeOK, S!End
<1>5. S!AddsUp
  BY <1>1, <1>2, <1>3 DEF S!AddsUp
<1> QED
  BY <1>1, <1>2, <1>3, <1>4, <1>5 DEF S!IInv

(* What IInv says of the calls, and what an end's calls account for.       *)
Calls ==
  /\ v4 \in [S!End -> [at : {"idle", "func", "select"}, len : Nat, done : Nat]]
  /\ v5 \in [S!End -> Nat]
  /\ v6 \subseteq S!End
  /\ \A e \in S!End : v4[e].at = "idle" => v4[e].done = 0

Account(e) == v5[e] + v4[e].done

(* A step of one end leaves the other's account alone.                     *)
LEMMA OneCall ==
  ASSUME Calls, NEW e \in S!End,
         NEW c \in [at : {"idle", "func", "select"}, len : Nat, done : Nat], NEW k \in Nat,
         c.at = "idle" => c.done = 0,
         v4' = [v4 EXCEPT ![e] = c], v5' = [v5 EXCEPT ![e] = k], v6' \subseteq S!End
  PROVE  /\ Calls' /\ Account(e)' = k + c.done
         /\ \A f \in S!End \ {e} : Account(f)' = Account(f)
<1>1. /\ v4'[e] = c /\ v5'[e] = k
      /\ \A f \in S!End \ {e} : v4'[f] = v4[f] /\ v5'[f] = v5[f]
  BY DEF Calls
<1>2. \A f \in S!End : v4'[f].at = "idle" => v4'[f].done = 0
  BY <1>1 DEF Calls
<1>3. /\ v4' \in [S!End -> [at : {"idle", "func", "select"}, len : Nat, done : Nat]]
      /\ v5' \in [S!End -> Nat]
  BY DEF Calls
<1> QED
  BY <1>1, <1>2, <1>3 DEF Calls, Account

(* The call of an end, further on.                                         *)
LEMMA Further ==
  ASSUME NEW c \in [at : {"idle", "func", "select"}, len : Nat, done : Nat],
         NEW d \in Nat, NEW k \in Nat
  PROVE  /\ [c EXCEPT !.done = d, !.len = k]
              \in [at : {"idle", "func", "select"}, len : Nat, done : Nat]
         /\ [c EXCEPT !.done = d, !.len = k].at = c.at
         /\ [c EXCEPT !.done = d, !.len = k].done = d
  OBVIOUS

(* Only what Advance moves is added to an account; the other ways on, and  *)
(* a return of what was moved, change none.                                *)
LEMMA CallChanges ==
  ASSUME Calls, NEW e \in S!End, v4[e].at # "idle"
  PROVE  /\ \A n \in Nat : n <= v4[e].len /\ S!Advance(e, n) =>
              /\ Calls' /\ v6' = v6 /\ Account(e)' = Account(e) + n
              /\ \A f \in S!End \ {e} : Account(f)' = Account(f)
         /\ S!Return(e, v4[e].done) =>
              /\ Calls' /\ v6' = v6 /\ \A f \in S!End : Account(f)' = Account(f)
         /\ S!Fail(e) =>
              /\ Calls' /\ v6' = v6 \cup {e}
              /\ \A f \in S!End \ {e} : Account(f)' = Account(f)
         /\ \A at \in {"func", "select"} :
              v4' = [v4 EXCEPT ![e].at = at] /\ UNCHANGED <<v5, v6>> =>
                /\ Calls' /\ v6' = v6 /\ \A f \in S!End : Account(f)' = Account(f)
<1> DEFINE Call == [at : {"idle", "func", "select"}, len : Nat, done : Nat]
<1>1. /\ v4[e] \in Call /\ v5[e] \in Nat /\ v6 \subseteq S!End
      /\ v4[e].len \in Nat /\ v4[e].done \in Nat
      /\ v5 = [v5 EXCEPT ![e] = v5[e]]
  BY DEF Calls
<1>2. S!Idle \in Call /\ S!Idle.at = "idle" /\ S!Idle.done = 0
  BY DEF S!Idle
<1>3. ASSUME NEW k \in Nat, S!Return(e, k)
      PROVE  /\ Calls' /\ v6' = v6 /\ Account(e)' = v5[e] + k
             /\ \A f \in S!End \ {e} : Account(f)' = Account(f)
  <2>1. /\ v4' = [v4 EXCEPT ![e] = S!Idle] /\ v5' = [v5 EXCEPT ![e] = v5[e] + k] /\ v6' = v6
    BY <1>1, <1>3 DEF S!Return, Calls
  <2>2. v5[e] + k \in Nat
    BY <1>1
  <2> HIDE DEF Call
  <2>3. /\ Calls' /\ Account(e)' = v5[e] + k + S!Idle.done
        /\ \A f \in S!End \ {e} : Account(f)' = Account(f)
    BY <1>1, <1>2, <2>1, <2>2, OneCall DEF Call
  <2> QED
    BY <1>1, <1>2, <2>1, <2>3
<1>4. ASSUME NEW n \in Nat, n <= v4[e].len, S!Advance(e, n)
      PROVE  /\ Calls' /\ v6' = v6 /\ Account(e)' = Account(e) + n
             /\ \A f \in S!End \ {e} : Account(f)' = Account(f)
  <2>1. CASE v4[e].len = n
    <3>1. S!Return(e, v4[e].done + n) /\ v4[e].done + n \in Nat
      BY <1>1, <1>4, <2>1 DEF S!Advance, S!Moved
    <3> QED
      BY <1>1, <1>3, <3>1 DEF Account
  <2>2. CASE v4[e].len # n
    <3> DEFINE c == [v4[e] EXCEPT !.done = v4[e].done + n, !.len = v4[e].len - n]
    <3>1. c \in Call /\ c.at = v4[e].at /\ c.done = v4[e].done + n
      <4>1. v4[e].done + n \in Nat /\ v4[e].len - n \in Nat
        BY <1>1, <1>4
      <4> QED
        BY <1>1, <4>1, Further
    <3>2. v4' = [v4 EXCEPT ![e] = c] /\ v5' = v5 /\ v6' = v6
      BY <1>4, <2>2 DEF S!Advance, S!Moved, Calls
    <3> HIDE DEF c, Call
    <3>3. /\ Calls' /\ Account(e)' = v5[e] + c.done
          /\ \A f \in S!End \ {e} : Account(f)' = Account(f)
      BY <1>1, <3>1, <3>2, OneCall DEF Call
    <3> QED
      BY <1>1, <3>1, <3>2, <3>3 DEF Account
  <2> QED
    BY <2>1, <2>2
<1>5. ASSUME S!Fail(e)
      PROVE  /\ Calls' /\ v6' = v6 \cup {e}
             /\ \A f \in S!End \ {e} : Account(f)' = Account(f)
  <2>1. v4' = [v4 EXCEPT ![e] = S!Idle] /\ v5' = v5 /\ v6' = v6 \cup {e}
    BY <1>5 DEF S!Fail
  <2> HIDE DEF Call
  <2> QED
    BY <1>1, <1>2, <2>1, OneCall DEF Call
<1>6. ASSUME NEW at \in {"func", "select"}, v4' = [v4 EXCEPT ![e].at = at],
             UNCHANGED <<v5, v6>>
      PROVE  /\ Calls' /\ v6' = v6 /\ \A f \in S!End : Account(f)' = Account(f)
  <2> DEFINE c == [v4[e] EXCEPT !.at = at]
  <2>1. c \in Call /\ c.at = at /\ c.done = v4[e].done
    BY <1>1
  <2>2. v4' = [v4 EXCEPT ![e] = c] /\ v5' = v5 /\ v6' = v6
    BY <1>6 DEF Calls
  <2> HIDE DEF c, Call
  <2>3. /\ Calls' /\ Account(e)' = v5[e] + c.done
        /\ \A f \in S!End \ {e} : Account(f)' = Account(f)
    BY <1>1, <2>1, <2>2, OneCall DEF Call
  <2> QED
    BY <2>1, <2>2, <2>3 DEF Account
<1>7. ASSUME S!Return(e, v4[e].done)
      PROVE  /\ Calls' /\ v6' = v6 /\ \A f \in S!End : Account(f)' = Account(f)
  BY <1>1, <1>3, <1>7 DEF Account
<1> QED
  BY <1>4, <1>5, <1>6, <1>7, Zenon

SockInv ==
  /\ Calls
  /\ v3 \in Seq(Nat) /\ v7 \in Seq(Nat) /\ v8 = Len(v7) + Len(v3)
  /\ Numbers(0, v7) /\ Numbers(Len(v7), v3)
  /\ \A e \in S!End \ v6 : Account(e) = IF e = "a" THEN v8 ELSE Len(v7)

(* The same as the invariant of the module, said with the accounts.        *)
LEMMA SockKept == SockInv <=> S!IInv
<1>1. ASSUME v7 \in Seq(Nat)
      PROVE  Numbers(0, v7) <=> v7 = [i \in 1..Len(v7) |-> i]
  <2>1. [i \in 1..Len(v7) |-> 0 + i] = [i \in 1..Len(v7) |-> i]
    BY <1>1
  <2> QED
    BY <2>1 DEF Numbers
<1> QED
  BY <1>1 DEF S!IInv, S!TypeOK, S!AddsUp, SockInv, Calls, Numbers, Account

LEMMA SockKeptNext == SockInv' <=> S!IInv'
  BY SockKept, PTL

(* The sender puts numbers into the channel that go on where it ends.      *)
LEMMA SendIInv ==
  ASSUME S!IInv, S!sock_func_send
  PROVE  S!IInv'
<1>1. /\ Calls /\ v3 \in Seq(Nat) /\ v7 \in Seq(Nat) /\ v8 = Len(v7) + Len(v3)
      /\ Numbers(0, v7) /\ Numbers(Len(v7), v3)
      /\ \A e \in S!End \ v6 : Account(e) = IF e = "a" THEN v8 ELSE Len(v7)
  BY SockKept DEF SockInv
<1>2. "a" \in S!End /\ v4["a"].at # "idle" /\ v7' = v7
  BY DEF S!sock_func_send, S!End
<1>3. CASE \E n \in 1..MaxLen :
             /\ n <= Cap - Len(v3) /\ n <= v4["a"].len
             /\ S!Advance("a", n)
             /\ v3' = v3 \o [i \in 1..n |-> v8 + i]
             /\ v8' = v8 + n
  <2>1. PICK n \in 1..MaxLen : /\ n <= v4["a"].len /\ S!Advance("a", n)
                               /\ v3' = v3 \o [i \in 1..n |-> v8 + i] /\ v8' = v8 + n
    BY <1>3
  <2>2. n \in Nat
    BY <2>1
  <2>3. /\ Calls' /\ v6' = v6 /\ Account("a")' = Account("a") + n
        /\ \A f \in S!End \ {"a"} : Account(f)' = Account(f)
    BY <1>1, <1>2, <2>1, <2>2, CallChanges
  <2> DEFINE t == [i \in 1..n |-> v8 + i]
  <2>4. t \in Seq(Nat) /\ Len(t) = n /\ Numbers(Len(v7) + Len(v3), t)
    <3>1. v8 \in Nat /\ v8 = Len(v7) + Len(v3)
      BY <1>1
    <3>2. t \in Seq(Nat) /\ Len(t) = n
      BY <2>2, <3>1
    <3> QED
      BY <3>1, <3>2 DEF Numbers
  <2>5. v3' = v3 \o t
    BY <2>1
  <2> HIDE DEF t
  <2>6. v3' \in Seq(Nat) /\ Len(v3') = Len(v3) + n /\ Numbers(Len(v7), v3')
    <3>1. Len(v7) \in Nat
      BY <1>1
    <3> QED
      BY <1>1, <2>4, <2>5, <3>1, NumbersJoin, Zenon
  <2>7. \A e \in S!End \ v6' : Account(e)' = IF e = "a" THEN v8' ELSE Len(v7')
    BY <1>1, <1>2, <2>1, <2>3
  <2>8. v8' = Len(v7') + Len(v3')
    BY <1>1, <1>2, <2>1, <2>2, <2>6
  <2> QED
    BY <1>1, <1>2, <2>3, <2>6, <2>7, <2>8, SockKeptNext DEF SockInv
<1>4. CASE (S!Select("a") \/ S!Fail("a")) /\ UNCHANGED <<v3, v8>>
  <2>1. /\ Calls' /\ v6 \subseteq v6'
        /\ \A f \in S!End \ v6' : Account(f)' = Account(f)
    <3>1. CASE S!Select("a")
      BY <1>1, <1>2, <3>1, CallChanges DEF S!Select
    <3>2. CASE S!Fail("a")
      BY <1>1, <1>2, <3>2, CallChanges
    <3> QED
      BY <1>4, <3>1, <3>2
  <2>2. \A e \in S!End \ v6' : Account(e)' = IF e = "a" THEN v8' ELSE Len(v7')
    BY <1>1, <1>2, <1>4, <2>1
  <2> QED
    BY <1>1, <1>2, <1>4, <2>1, <2>2, SockKeptNext DEF SockInv
<1> QED
  BY <1>3, <1>4 DEF S!sock_func_send

(* The receiver takes the first of the channel and puts them to its data.  *)
LEMMA RecvIInv ==
  ASSUME S!IInv, S!sock_func_recv
  PROVE  S!IInv'
<1>1. /\ Calls /\ v3 \in Seq(Nat) /\ v7 \in Seq(Nat) /\ v8 = Len(v7) + Len(v3)
      /\ Numbers(0, v7) /\ Numbers(Len(v7), v3)
      /\ \A e \in S!End \ v6 : Account(e) = IF e = "a" THEN v8 ELSE Len(v7)
  BY SockKept DEF SockInv
<1>2. "b" \in S!End /\ v4["b"].at # "idle" /\ v8' = v8
  BY DEF S!sock_func_recv, S!End
<1>3. CASE \E n \in 1..MaxLen :
             /\ n <= Len(v3) /\ n <= v4["b"].len
             /\ S!Advance("b", n)
             /\ v7' = v7 \o SubSeq(v3, 1, n)
             /\ v3' = SubSeq(v3, n + 1, Len(v3))
  <2>1. PICK n \in 1..MaxLen : /\ n <= Len(v3) /\ n <= v4["b"].len /\ S!Advance("b", n)
                               /\ v7' = v7 \o SubSeq(v3, 1, n)
                               /\ v3' = SubSeq(v3, n + 1, Len(v3))
    BY <1>3
  <2>2. n \in Nat /\ n \in 1..Len(v3)
    BY <1>1, <2>1
  <2>3. /\ Calls' /\ v6' = v6 /\ Account("b")' = Account("b") + n
        /\ \A f \in S!End \ {"b"} : Account(f)' = Account(f)
    BY <1>1, <1>2, <2>1, <2>2, CallChanges
  <2> DEFINE t == SubSeq(v3, 1, n)
  <2>4. /\ t \in Seq(Nat) /\ Len(t) = n /\ Numbers(0 + Len(v7), t)
        /\ v3' \in Seq(Nat) /\ Len(v3') = Len(v3) - n /\ Numbers(Len(v7) + n, v3')
    <3>1. Len(v7) \in Nat /\ 0 + Len(v7) = Len(v7)
      BY <1>1
    <3> QED
      BY <1>1, <2>1, <2>2, <3>1, NumbersSplit
  <2>5. v7' = v7 \o t
    BY <2>1
  <2> HIDE DEF t
  <2>6. v7' \in Seq(Nat) /\ Len(v7') = Len(v7) + n /\ Numbers(0, v7')
    <3>1. 0 \in Nat
      OBVIOUS
    <3> QED
      BY <1>1, <2>4, <2>5, <3>1, NumbersJoin, Zenon
  <2>7. \A e \in S!End \ v6' : Account(e)' = IF e = "a" THEN v8' ELSE Len(v7')
    BY <1>1, <1>2, <2>3, <2>6 DEF S!End
  <2>8. v8' = Len(v7') + Len(v3') /\ Numbers(Len(v7'), v3')
    BY <1>1, <1>2, <2>2, <2>4, <2>6
  <2> QED
    BY <1>2, <2>3, <2>4, <2>6, <2>7, <2>8, SockKeptNext DEF SockInv
<1>4. CASE (S!Select("b") \/ S!Fail("b")) /\ UNCHANGED <<v7, v3>>
  <2>1. /\ Calls' /\ v6 \subseteq v6'
        /\ \A f \in S!End \ v6' : Account(f)' = Account(f)
    <3>1. CASE S!Select("b")
      BY <1>1, <1>2, <3>1, CallChanges DEF S!Select
    <3>2. CASE S!Fail("b")
      BY <1>1, <1>2, <3>2, CallChanges
    <3> QED
      BY <1>4, <3>1, <3>2
  <2>2. \A e \in S!End \ v6' : Account(e)' = IF e = "a" THEN v8' ELSE Len(v7')
    BY <1>1, <1>2, <1>4, <2>1
  <2> QED
    BY <1>1, <1>2, <1>4, <2>1, <2>2, SockKeptNext DEF SockInv
<1> QED
  BY <1>3, <1>4 DEF S!sock_func_recv

(* The other calls of a socket move nothing.                               *)
LEMMA SockNextIInv == S!IInv /\ [S!Next]_(S!vars) => S!IInv'
<1> SUFFICES ASSUME S!IInv, [S!Next]_(S!vars) PROVE S!IInv'
  OBVIOUS
<1>1. Calls
  BY SockKept DEF SockInv
<1>2. ASSUME Calls', v3' = v3, v7' = v7, v8' = v8, v6' = v6,
             \A e \in S!End : Account(e)' = Account(e)
      PROVE  S!IInv'
  BY <1>2, SockKept, SockKeptNext DEF SockInv
<1>3. ASSUME UNCHANGED <<v3, v4, v5, v6, v7, v8>>
      PROVE  S!IInv'
  BY <1>1, <1>2, <1>3 DEF Calls, Account
<1>4. ASSUME NEW e \in S!End, NEW len \in 1..MaxLen, S!Begin(e, len)
      PROVE  S!IInv'
  <2> DEFINE Call == [at : {"idle", "func", "select"}, len : Nat, done : Nat]
             c == [at |-> "func", len |-> len, done |-> 0]
  <2>1. v4[e].at = "idle" /\ v4[e].done = 0 /\ v5[e] \in Nat
    BY <1>1, <1>4 DEF S!Begin, Calls
  <2>2. c \in Call /\ c.at # "idle" /\ c.done = 0
    OBVIOUS
  <2>3. /\ v4' = [v4 EXCEPT ![e] = c] /\ v5' = [v5 EXCEPT ![e] = v5[e]]
        /\ UNCHANGED <<v3, v5, v6, v7, v8>> /\ v6' \subseteq S!End
    BY <1>1, <1>4 DEF S!Begin, Calls
  <2> HIDE DEF c, Call
  <2>4. /\ Calls' /\ Account(e)' = v5[e] + c.done
        /\ \A f \in S!End \ {e} : Account(f)' = Account(f)
    BY <1>1, <2>1, <2>2, <2>3, OneCall DEF Call
  <2>5. \A f \in S!End : Account(f)' = Account(f)
    BY <2>1, <2>2, <2>4 DEF Account
  <2> QED
    BY <1>2, <2>3, <2>4, <2>5
<1>5. ASSUME NEW e \in S!End, S!select(e)
      PROVE  S!IInv'
  <2>1. /\ v4[e].at # "idle" /\ UNCHANGED <<v3, v7, v8>>
        /\ \/ v4' = [v4 EXCEPT ![e].at = "func"] /\ UNCHANGED <<v5, v6>>
           \/ S!Return(e, v4[e].done)
    BY <1>5 DEF S!select
  <2>2. /\ Calls' /\ v6' = v6 /\ \A f \in S!End : Account(f)' = Account(f)
    BY <1>1, <2>1, CallChanges
  <2> QED
    BY <1>2, <2>1, <2>2
<1>6. CASE \/ \E e \in S!End : (\E on \in BOOLEAN : S!sock_nonblock(e, on)) \/ S!sock_close(e)
           \/ \E fd \in 3..MaxFd : S!sock_func_accept(fd)
           \/ UNCHANGED S!vars
  BY <1>3, <1>6 DEF S!sock_nonblock, S!sock_close, S!sock_func_accept, S!vars
<1> QED
  BY <1>4, <1>5, <1>6, SendIInv, RecvIInv DEF S!Next

(* Addresses: turning the bytes round twice leaves them as they were.      *)
LEMMA TurnedTwice ==
  ASSUME NEW t \in Seq(Nat)
  PROVE  S!Reverse(S!Reverse(t)) = t
<1> DEFINE r == [i \in 1..Len(t) |-> t[(Len(t) - i) + 1]]
<1>1. Len(t) \in Nat /\ r \in Seq(Nat) /\ Len(r) = Len(t)
  BY DEF S!Reverse
<1>2. \A i \in 1..Len(t) : r[(Len(t) - i) + 1] = t[i]
  BY <1>1
<1>3. S!Reverse(t) = r /\ S!Reverse(r) = [i \in 1..Len(r) |-> r[(Len(r) - i) + 1]]
  BY DEF S!Reverse
<1> HIDE DEF r
<1>4. [i \in 1..Len(r) |-> r[(Len(r) - i) + 1]] = t
  BY <1>1, <1>2
<1> QED
  BY <1>3, <1>4

-----------------------------------------------------------------------------
(* ifcfg_unix.c.  The calls for some fields: two of them, then the values. *)
CallsFor(s) ==
  /\ s \in Seq(I!Values \cup {"save", "down"}) /\ Len(s) >= 2
  /\ s[1] = "save" /\ s[2] = "down"
  /\ \A i \in 3..Len(s) : s[i] \in I!Values

Sets(s) == {s[i] : i \in 3..Len(s)}

(* Calls for values may be appended.                                       *)
LEMMA OneMore ==
  ASSUME NEW s, CallsFor(s), NEW t \in Seq(I!Values)
  PROVE  /\ CallsFor(s \o t)
         /\ Sets(s) \subseteq Sets(s \o t)
         /\ \A j \in 1..Len(t) : t[j] \in Sets(s \o t)
<1> DEFINE u == s \o t
           Word == I!Values \cup {"save", "down"}
<1>1. s \in Seq(Word) /\ t \in Seq(Word) /\ Len(s) \in Nat /\ Len(t) \in Nat /\ Len(s) >= 2
  BY DEF CallsFor
<1> HIDE DEF Word
<1>2. /\ u \in Seq(Word) /\ Len(u) = Len(s) + Len(t)
      /\ \A i \in 1..(Len(s) + Len(t)) : u[i] = IF i <= Len(s) THEN s[i] ELSE t[i - Len(s)]
  BY <1>1, ConcatProperties, Zenon
<1> HIDE DEF u
<1>3. \A i \in 1..Len(s) : i \in 1..(Len(s) + Len(t)) /\ u[i] = s[i]
  BY <1>1, <1>2
<1>4. \A j \in 1..Len(t) : Len(s) + j \in 3..Len(u) /\ u[Len(s) + j] = t[j]
  <2> TAKE j \in 1..Len(t)
  <2>1. /\ Len(s) + j \in 1..(Len(s) + Len(t)) /\ ~(Len(s) + j <= Len(s))
        /\ (Len(s) + j) - Len(s) = j /\ Len(s) + j \in 3..Len(u)
    BY <1>1, <1>2
  <2> QED
    BY <1>2, <2>1
<1>5. \A i \in 3..Len(u) : u[i] \in I!Values
  <2> TAKE i \in 3..Len(u)
  <2>1. CASE i <= Len(s)
    BY <1>1, <1>3, <2>1 DEF CallsFor
  <2>2. CASE ~(i <= Len(s))
    <3>1. i - Len(s) \in 1..Len(t) /\ Len(s) + (i - Len(s)) = i
      BY <1>1, <1>2, <2>2
    <3> QED
      BY <1>4, <3>1
  <2> QED
    BY <2>1, <2>2
<1>6. u[1] = "save" /\ u[2] = "down" /\ Len(u) >= 2
  BY <1>1, <1>2, <1>3 DEF CallsFor
<1>7. CallsFor(u)
  BY <1>2, <1>5, <1>6 DEF CallsFor, Word
<1>8. Sets(s) \subseteq Sets(u)
  BY <1>1, <1>2, <1>3 DEF Sets
<1>9. \A j \in 1..Len(t) : t[j] \in Sets(u)
  BY <1>4 DEF Sets
<1> QED
  BY <1>7, <1>8, <1>9 DEF u

(* There is a call for each value that is wanted.                          *)
LEMMA IoctlsAre ==
  ASSUME NEW fields
  PROVE  CallsFor(I!Ioctls(fields)) /\ I!Wanted(fields) \subseteq Sets(I!Ioctls(fields))
<1> DEFINE first == <<"save", "down">>
           addr == IF "IPADDR" \in fields THEN <<"ipaddr", "netmask">> ELSE <<>>
           cast == IF "BROADCAST" \in fields THEN <<"broadcast">> ELSE <<>>
           size == IF "MTU" \in fields THEN <<"mtu">> ELSE <<>>
<1>1. CallsFor(first)
  BY DEF CallsFor
<1>2. /\ addr \in Seq(I!Values) /\ cast \in Seq(I!Values) /\ size \in Seq(I!Values)
  <2>1. /\ "ipaddr" \in I!Values /\ "netmask" \in I!Values /\ "broadcast" \in I!Values
        /\ "mtu" \in I!Values
    BY DEF I!Values
  <2>2. /\ <<"ipaddr", "netmask">> \in Seq(I!Values) /\ <<"broadcast">> \in Seq(I!Values)
        /\ <<"mtu">> \in Seq(I!Values) /\ <<>> \in Seq(I!Values)
    BY <2>1
  <2> QED
    BY <2>2
<1>3. /\ "IPADDR" \in fields => /\ 1 \in 1..Len(addr) /\ addr[1] = "ipaddr"
                                /\ 2 \in 1..Len(addr) /\ addr[2] = "netmask"
      /\ "BROADCAST" \in fields => 1 \in 1..Len(cast) /\ cast[1] = "broadcast"
      /\ "MTU" \in fields => 1 \in 1..Len(size) /\ size[1] = "mtu"
  OBVIOUS
<1>4. I!Ioctls(fields) = ((first \o addr) \o cast) \o size
  BY DEF I!Ioctls
<1> HIDE DEF first, addr, cast, size
<1>5. /\ CallsFor(first \o addr) /\ \A j \in 1..Len(addr) : addr[j] \in Sets(first \o addr)
  BY <1>1, <1>2, OneMore, Zenon
<1>6. /\ CallsFor((first \o addr) \o cast) /\ Sets(first \o addr) \subseteq Sets((first \o addr) \o cast)
      /\ \A j \in 1..Len(cast) : cast[j] \in Sets((first \o addr) \o cast)
  BY <1>2, <1>5, OneMore, Zenon
<1> DEFINE two == (first \o addr) \o cast
<1>7. /\ CallsFor(two \o size) /\ Sets(two) \subseteq Sets(two \o size)
      /\ \A j \in 1..Len(size) : size[j] \in Sets(two \o size)
  BY <1>2, <1>6, OneMore, Zenon
<1> DEFINE one == first \o addr
           all == two \o size
<1>8. /\ \A j \in 1..Len(addr) : addr[j] \in Sets(one)
      /\ Sets(one) \subseteq Sets(two) /\ \A j \in 1..Len(cast) : cast[j] \in Sets(two)
      /\ Sets(two) \subseteq Sets(all) /\ \A j \in 1..Len(size) : size[j] \in Sets(all)
      /\ CallsFor(all) /\ I!Ioctls(fields) = all
  BY <1>4, <1>5, <1>6, <1>7, Zenon
<1> HIDE DEF one, two, all
<1>9. I!Wanted(fields) \subseteq Sets(all)
  BY <1>3, <1>8 DEF I!Wanted
<1> QED
  BY <1>8, <1>9

(* The same for the program p and its calls t.                             *)
LEMMA TodoIs ==
  ASSUME NEW p, NEW t, t = I!Todo(p)
  PROVE  /\ Len(t) \in Nat /\ Len(t) >= 2 /\ DOMAIN t = 1..Len(t)
         /\ t[1] = "save" /\ t[2] = "down"
         /\ \A i \in 3..Len(t) : t[i] \in I!Values
         /\ \A v \in I!Wanted(v2[p].fields) : \E i \in 3..Len(t) : t[i] = v
<1>1. CallsFor(t) /\ I!Wanted(v2[p].fields) \subseteq Sets(t)
  BY IoctlsAre DEF I!Todo
<1> QED
  BY <1>1 DEF CallsFor, Sets

Settings ==
  [fields : SUBSET I!Fields, step : Nat, flags : BOOLEAN, err : {0, -1},
   alone : BOOLEAN, wasUp : BOOLEAN, again : BOOLEAN, calls : Nat]

(* At first no program is alone with a call.                               *)
LEMMA IfcfgInitIInv == I!Init => I!IInv
<1> SUFFICES ASSUME I!Init PROVE I!IInv
  OBVIOUS
<1> DEFINE new == [fields |-> {}, step |-> 0, flags |-> FALSE, err |-> -1,
                   alone |-> FALSE, wasUp |-> FALSE, again |-> FALSE, calls |-> 0]
<1>1. new \in Settings /\ new.step = 0 /\ ~new.alone
  BY DEF Settings
<1>2. v2 = [p \in Proc |-> new] /\ v1 = [v \in I!Values \cup {"up"} |-> IF v = "up" THEN 1 ELSE 0]
  BY DEF I!Init
<1>3. v1 \in [I!Values \cup {"up"} -> Nat] /\ v1.up \in {0, 1}
  BY <1>2 DEF I!Values
<1> HIDE DEF new
<1>4. v2 \in [Proc -> Settings]
  BY <1>1, <1>2
<1> QED
  BY <1>1, <1>2, <1>3, <1>4 DEF I!IInv, I!TypeOK, Settings, I!SetOrUp, I!Busy

(* A step of one program.  The others are no longer alone, so all there is *)
(* to show is about the one.                                               *)
LEMMA OneGoesOn ==
  ASSUME I!IInv, NEW p \in Proc, NEW s \in Settings,
         v2' = [q \in Proc |-> IF q = p THEN s ELSE [v2[q] EXCEPT !.alone = FALSE]],
         v1' \in [I!Values \cup {"up"} -> Nat], v1'.up \in {0, 1}
  PROVE  /\ I!TypeOK' /\ v2'[p] = s
         /\ \A q \in Proc \ {p} : ~v2'[q].alone
<1>1. \A q \in Proc : v2[q] \in Settings
  BY DEF I!IInv, I!TypeOK, Settings
<1>2. \A q \in Proc : [v2[q] EXCEPT !.alone = FALSE] \in Settings
                      /\ ~[v2[q] EXCEPT !.alone = FALSE].alone
  BY <1>1 DEF Settings
<1>3. v2' \in [Proc -> Settings]
  BY <1>2
<1>4. \A q \in Proc \ {p} : ~v2'[q].alone
  BY <1>2
<1> QED
  BY <1>3, <1>4 DEF I!TypeOK, Settings

(* What IInv says of one program.                                          *)
Told(p) ==
  /\ I!Busy(p) /\ v2[p].alone => I!UnderWay(p)
  /\ ~I!Busy(p) /\ v2[p].alone /\ v2[p].again =>
       /\ "IPADDR" \in v2[p].fields /\ v2[p].wasUp => v1.up = 1
       /\ v2[p].err = 0 =>
            /\ \A v \in I!Wanted(v2[p].fields) : v \in DOMAIN I!ifcfg_get /\ I!ifcfg_get[v] = p
            /\ v1.up = 1 <=> "IPADDR" \in v2[p].fields

(* It is the whole of it.                                                  *)
LEMMA IfcfgInv == I!IInv <=> I!TypeOK /\ \A p \in Proc : Told(p)
  BY DEF I!IInv, I!SetOrUp, Told

LEMMA IfcfgInvNext == (I!TypeOK /\ \A p \in Proc : Told(p))' <=> I!IInv'
  BY IfcfgInv, PTL

(* Of the other programs there is nothing to show.                         *)
LEMMA OthersTold ==
  ASSUME I!TypeOK', NEW p \in Proc, Told(p)', \A q \in Proc \ {p} : ~v2'[q].alone
  PROVE  I!IInv'
<1>1. \A q \in Proc \ {p} : Told(q)'
  BY DEF Told
<1> QED
  BY <1>1, IfcfgInvNext

(* ifcfg_set is called: whether the interface is up is as it was.          *)
LEMMA BeginIInv ==
  ASSUME I!IInv, NEW p \in Proc, I!Begin(p)
  PROVE  I!IInv'
<1>1. PICK fields \in SUBSET I!Fields :
        I!Becomes(p, [fields |-> fields, step |-> 1, flags |-> FALSE, err |-> -1,
                      alone |-> \A q \in Proc \ {p} : ~I!Busy(q), wasUp |-> v1.up = 1,
                      again |-> FALSE, calls |-> v2[p].calls + 1])
  BY DEF I!Begin
<1> DEFINE s == [fields |-> fields, step |-> 1, flags |-> FALSE, err |-> -1,
                 alone |-> \A q \in Proc \ {p} : ~I!Busy(q), wasUp |-> v1.up = 1,
                 again |-> FALSE, calls |-> v2[p].calls + 1]
<1>2. v1' = v1 /\ I!TypeOK /\ v2[p].calls + 1 \in Nat
  BY DEF I!Begin, I!IInv, I!TypeOK
<1>3. /\ s \in Settings /\ s.step = 1 /\ ~s.again /\ s.err = -1
      /\ s.wasUp <=> v1.up = 1
  BY <1>2 DEF Settings
<1>4. v2' = [q \in Proc |-> IF q = p THEN s ELSE [v2[q] EXCEPT !.alone = FALSE]]
  BY <1>1 DEF I!Becomes
<1> HIDE DEF s
<1>5. I!TypeOK' /\ v2'[p] = s /\ \A q \in Proc \ {p} : ~v2'[q].alone
  BY <1>2, <1>3, <1>4, OneGoesOn DEF I!TypeOK
<1> DEFINE t == I!Ioctls(s.fields)
<1>6. Len(t) \in Nat /\ I!Todo(p)' = t
  <2>1. CallsFor(t)
    BY IoctlsAre
  <2> QED
    BY <1>5, <2>1 DEF CallsFor, I!Todo
<1> HIDE DEF t
<1>7. Told(p)'
  BY <1>2, <1>3, <1>5, <1>6 DEF Told, I!UnderWay, I!AllMade, I!Busy
<1> QED
  BY <1>5, <1>7, OthersTold

(* The steps of a call: p is busy and goes on with s for the same fields.  *)
LEMMA GoesOn ==
  ASSUME I!IInv, NEW p \in Proc, NEW s \in Settings, I!Becomes(p, s), s.fields = v2[p].fields,
         v1' \in [I!Values \cup {"up"} -> Nat], v1'.up \in {0, 1}
  PROVE  /\ I!TypeOK' /\ v2'[p] = s /\ \A q \in Proc \ {p} : ~v2'[q].alone
         /\ I!Todo(p)' = I!Todo(p)
<1>1. /\ I!TypeOK' /\ v2'[p] = s /\ \A q \in Proc \ {p} : ~v2'[q].alone
  BY OneGoesOn DEF I!Becomes
<1> QED
  BY <1>1 DEF I!Todo

(* A call was made.                                                        *)
Made(c, err, flags) == [[c EXCEPT !.step = @ + 1, !.err = err] EXCEPT !.flags = flags]

(* Its fields, one by one.                                                 *)
Follows(m, c, e, f) ==
  /\ m \in Settings /\ m.fields = c.fields /\ m.step = c.step + 1 /\ m.err = e
  /\ m.alone = c.alone /\ m.wasUp = c.wasUp /\ m.again = c.again /\ m.flags = f

LEMMA MadeIs ==
  ASSUME NEW c \in Settings, NEW e \in {0, -1}, NEW f \in BOOLEAN
  PROVE  /\ Follows(Made(c, e, f), c, e, f)
         /\ Made(c, e, c.flags) = [c EXCEPT !.step = @ + 1, !.err = e]
<1>1. /\ c = [fields |-> c.fields, step |-> c.step, flags |-> c.flags, err |-> c.err,
              alone |-> c.alone, wasUp |-> c.wasUp, again |-> c.again, calls |-> c.calls]
      /\ c.fields \in SUBSET I!Fields /\ c.step + 1 \in Nat /\ c.alone \in BOOLEAN
      /\ c.wasUp \in BOOLEAN /\ c.again \in BOOLEAN /\ c.calls \in Nat
  BY DEF Settings
<1> DEFINE n(k, g, h) == [fields |-> c.fields, step |-> k, flags |-> g, err |-> h,
                          alone |-> c.alone, wasUp |-> c.wasUp, again |-> c.again,
                          calls |-> c.calls]
<1>2. c = n(c.step, c.flags, c.err)
  BY <1>1
<1> DEFINE stepped(x) == [x EXCEPT !.step = c.step + 1]
           told(x) == [x EXCEPT !.err = e]
           flagged(x, g) == [x EXCEPT !.flags = g]
<1>3. /\ \A k, g, h : stepped(n(k, g, h)) = n(c.step + 1, g, h)
      /\ \A k, g, h : told(n(k, g, h)) = n(k, g, e)
      /\ \A k, g, h, x : flagged(n(k, g, h), x) = n(k, x, h)
  OBVIOUS
<1>4. n(c.step + 1, f, e) \in Settings
  BY <1>1 DEF Settings
<1>5. Follows(n(c.step + 1, f, e), c, e, f)
  BY <1>4 DEF Follows
<1>6. /\ Made(c, e, f) = flagged(told(stepped(c)), f)
      /\ Made(c, e, c.flags) = flagged(told(stepped(c)), c.flags)
      /\ [c EXCEPT !.step = @ + 1, !.err = e] = told(stepped(c))
  BY DEF Made
<1> HIDE DEF n, stepped, told, flagged
<1>7. stepped(c) = n(c.step + 1, c.flags, c.err)
  BY <1>2, <1>3
<1>8. told(stepped(c)) = n(c.step + 1, c.flags, e)
  BY <1>3, <1>7
<1>9. flagged(told(stepped(c)), f) = n(c.step + 1, f, e)
  BY <1>3, <1>8
<1>10. flagged(told(stepped(c)), c.flags) = told(stepped(c))
  BY <1>3, <1>8
<1> QED
  BY <1>5, <1>6, <1>9, <1>10, Zenon

(* An ioctl succeeds: the flags are read, put down, or a value is set.     *)
LEMMA IoctlIInv ==
  ASSUME I!IInv, NEW p \in Proc, I!Ioctl(p)
  PROVE  I!IInv'
<1> DEFINE s == v2[p]
           t == I!Todo(p)
           err == IF s.step = Len(t) THEN 0 ELSE -1
<1>1. /\ s \in Settings /\ s.step \in Nat /\ v1 \in [I!Values \cup {"up"} -> Nat]
      /\ v1.up \in {0, 1} /\ Told(p)
  BY IfcfgInv DEF I!TypeOK, Settings
<1>2. /\ Len(t) \in Nat /\ Len(t) >= 2 /\ DOMAIN t = 1..Len(t)
      /\ t[1] = "save" /\ t[2] = "down" /\ \A i \in 3..Len(t) : t[i] \in I!Values
  BY TodoIs
<1>3. "save" \notin I!Values /\ "down" \notin I!Values /\ "up" \notin I!Values
  BY DEF I!Values
<1>4. s.step \in 1..Len(t) /\ I!Busy(p)
  BY <1>1, <1>2 DEF I!Ioctl, I!Busy
<1>5. s.alone => I!UnderWay(p)
  BY <1>1, <1>4 DEF Told
<1> HIDE DEF t
<1>6. ASSUME NEW c \in Settings, I!Becomes(p, c), c.fields = s.fields, c.step = s.step + 1,
             c.err = err, c.alone = s.alone, c.wasUp = s.wasUp, c.again = s.again,
             v1' \in [I!Values \cup {"up"} -> Nat], v1'.up \in {0, 1},
             s.alone /\ I!UnderWay(p) =>
               /\ c.step <= 2 => (s.wasUp <=> v1'.up = 1)
               /\ c.flags \in {s.wasUp, "IPADDR" \in s.fields}
               /\ c.step > 2 =>
                    /\ c.flags = ("IPADDR" \in s.fields)
                    /\ \A i \in 3..s.step : v1'[t[i]] = p
      PROVE  I!IInv'
  <2>1. /\ I!TypeOK' /\ v2'[p] = c /\ \A q \in Proc \ {p} : ~v2'[q].alone
        /\ I!Todo(p)' = t
    BY <1>6, GoesOn DEF t
  <2>2. ASSUME c.alone
        PROVE  I!UnderWay(p)'
    <3>1. /\ ~c.again /\ c.step <= Len(t) + 1 /\ (c.err = 0 => c.step = Len(t) + 1)
      BY <1>2, <1>4, <1>5, <1>6, <2>2 DEF I!UnderWay
    <3>2. c.step - 1 = s.step
      BY <1>1, <1>6
    <3> QED
      BY <1>5, <1>6, <2>1, <2>2, <3>1, <3>2 DEF I!UnderWay, I!AllMade
  <2>3. I!Busy(p)'
    BY <1>1, <1>6, <2>1 DEF I!Busy
  <2>4. Told(p)'
    BY <2>1, <2>2, <2>3 DEF Told
  <2> QED
    BY <2>1, <2>4, OthersTold
<1>7. /\ s.flags \in BOOLEAN /\ s.wasUp \in BOOLEAN /\ err \in {0, -1}
      /\ \A f \in BOOLEAN : Follows(Made(s, err, f), s, err, f)
  <2>1. s.flags \in BOOLEAN /\ s.wasUp \in BOOLEAN /\ err \in {0, -1}
    BY <1>1 DEF Settings
  <2>2. s \in Settings
    BY <1>1
  <2> HIDE DEF s, err
  <2> QED
    BY <2>1, <2>2, MadeIs, Zenon
<1>8. CASE t[s.step] = "save" /\ I!Becomes(p, Made(s, err, v1.up = 1)) /\ v1' = v1
  <2>1. s.step = 1
    BY <1>2, <1>3, <1>4, <1>8
  <2> DEFINE up == v1.up = 1
  <2>2. up \in BOOLEAN /\ I!Becomes(p, Made(s, err, up))
    BY <1>8
  <2>3. I!UnderWay(p) => (s.wasUp <=> up)
    BY <2>1 DEF I!UnderWay
  <2>4. I!UnderWay(p) => s.wasUp = up
    BY <1>7, <2>2, <2>3, Zenon
  <2>5. up <=> v1'.up = 1
    BY <1>8
  <2> HIDE DEF err, up
  <2> QED
    BY <1>1, <1>6, <1>7, <1>8, <2>1, <2>2, <2>4, <2>5 DEF Follows
<1>9. CASE /\ t[s.step] = "down" /\ I!Becomes(p, Made(s, err, "IPADDR" \in s.fields))
           /\ v1' = [v1 EXCEPT !["up"] = 0]
  <2>1. s.step = 2
    BY <1>2, <1>3, <1>4, <1>9
  <2>2. v1' \in [I!Values \cup {"up"} -> Nat] /\ v1'.up \in {0, 1}
    BY <1>1, <1>9
  <2> DEFINE c == Made(s, err, "IPADDR" \in s.fields)
  <2>3. ("IPADDR" \in s.fields) \in BOOLEAN
    OBVIOUS
  <2>4. /\ c \in Settings /\ c.fields = s.fields /\ c.step = s.step + 1 /\ c.err = err
        /\ c.alone = s.alone /\ c.wasUp = s.wasUp /\ c.again = s.again
        /\ c.flags = ("IPADDR" \in s.fields)
    BY <1>7, <2>3, Zenon DEF Follows
  <2>5. I!Becomes(p, c)
    BY <1>9
  <2> HIDE DEF err, c
  <2>6. c.step = 3 /\ 3..s.step = {}
    BY <2>1, <2>4
  <2>7. c.flags \in {s.wasUp, "IPADDR" \in s.fields}
    BY <2>4, Zenon
  <2> HIDE DEF s
  <2> QED
    BY <1>6, <2>2, <2>4, <2>5, <2>6, <2>7
<1>10. CASE /\ t[s.step] \in I!Values /\ I!Becomes(p, Made(s, err, s.flags))
            /\ v1' = [v1 EXCEPT ![t[s.step]] = p]
  <2>1. s.step > 2
    BY <1>2, <1>3, <1>4, <1>10
  <2>2. /\ v1' \in [I!Values \cup {"up"} -> Nat] /\ v1'.up = v1.up
        /\ \A v \in I!Values : v1'[v] = IF v = t[s.step] THEN p ELSE v1[v]
    <3>1. p \in Nat
      BY NetworkAssumption DEF I!IfcfgAssumption
    <3> QED
      BY <1>1, <1>3, <1>10, <3>1
  <2>3. I!UnderWay(p) =>
          /\ s.flags = ("IPADDR" \in s.fields)
          /\ \A i \in 3..s.step : v1'[t[i]] = p
    <3>1. I!AllMade(p)
      BY <1>4, <2>1 DEF I!AllMade, t
    <3>2. ASSUME I!UnderWay(p), NEW i \in 3..s.step
          PROVE  v1'[t[i]] = p
      <4>1. i \in 3..Len(t) /\ t[i] \in I!Values /\ (i = s.step \/ i \in 3..(s.step - 1))
        BY <1>1, <1>2, <1>4, <3>2
      <4>2. i \in 3..(s.step - 1) => v1[t[i]] = p
        BY <3>1, <3>2 DEF I!UnderWay, t
      <4> QED
        BY <2>2, <4>1, <4>2
    <3> QED
      BY <3>1, <3>2 DEF I!UnderWay
  <2>4. s.flags \in BOOLEAN
    BY <1>1 DEF Settings
  <2> HIDE DEF err
  <2> QED
    BY <1>1, <1>4, <1>6, <1>7, <1>10, <2>1, <2>2, <2>3, <2>4 DEF Follows
<1>11. \/ t[s.step] = "save" /\ I!Becomes(p, Made(s, err, v1.up = 1)) /\ v1' = v1
       \/ /\ t[s.step] = "down" /\ I!Becomes(p, Made(s, err, "IPADDR" \in s.fields))
          /\ v1' = [v1 EXCEPT !["up"] = 0]
       \/ /\ t[s.step] \in I!Values /\ I!Becomes(p, Made(s, err, s.flags))
          /\ v1' = [v1 EXCEPT ![t[s.step]] = p]
  <2>1. Made(s, err, s.flags) = [s EXCEPT !.step = @ + 1, !.err = err]
    <3>1. s \in Settings /\ err \in {0, -1} /\ s.flags \in BOOLEAN
      BY <1>1, <1>7
    <3> HIDE DEF s, err
    <3> QED
      BY <3>1, MadeIs, Zenon
  <2> QED
    BY <2>1 DEF I!Ioctl, I!FlagsAfterDown, Made, t
<1> QED
  BY <1>8, <1>9, <1>10, <1>11

(* An ioctl fails: either no flags are set again, or those as they are.    *)
LEMMA IoctlFailsIInv ==
  ASSUME I!IInv, NEW p \in Proc, I!IoctlFails(p)
  PROVE  I!IInv'
<1> DEFINE s == v2[p]
           t == I!Todo(p)
           k == IF s.step = 1 THEN 0 ELSE Len(t) + 1
           c == [s EXCEPT !.step = k]
<1>1. /\ s \in Settings /\ s.step \in Nat /\ v1' = v1 /\ Told(p) /\ s.err \in {0, -1}
      /\ v1 \in [I!Values \cup {"up"} -> Nat] /\ v1.up \in {0, 1}
  BY IfcfgInv DEF I!TypeOK, Settings, I!IoctlFails
<1>2. Len(t) \in Nat /\ Len(t) >= 2 /\ DOMAIN t = 1..Len(t)
  BY TodoIs
<1>3. s.step \in 1..Len(t) /\ I!Busy(p)
  BY <1>1, <1>2 DEF I!IoctlFails, I!Busy
<1>4. s.alone => I!UnderWay(p)
  BY <1>1, <1>3 DEF Told
<1>5. /\ c \in Settings /\ c.step = k /\ c.fields = s.fields /\ c.err = s.err
      /\ c.alone = s.alone /\ c.wasUp = s.wasUp /\ c.again = s.again /\ c.flags = s.flags
  <2>1. k \in Nat
    BY <1>2
  <2> HIDE DEF k
  <2> QED
    BY <1>1, <2>1 DEF Settings
<1>6. I!Becomes(p, c)
  BY DEF I!IoctlFails
<1> HIDE DEF c, t
<1>7. /\ I!TypeOK' /\ v2'[p] = c /\ \A q \in Proc \ {p} : ~v2'[q].alone
      /\ I!Todo(p)' = t
  BY <1>1, <1>5, <1>6, GoesOn DEF t
<1>8. s.alone => ~s.again /\ s.err = -1 /\ (s.step >= 2 => s.flags \in {s.wasUp, "IPADDR" \in s.fields})
  <2> SUFFICES ASSUME s.alone
               PROVE  /\ ~s.again /\ s.err = -1
                      /\ s.step >= 2 => s.flags \in {s.wasUp, "IPADDR" \in s.fields}
    OBVIOUS
  <2>1. /\ ~s.again /\ (s.err = 0 => s.step = Len(t) + 1)
        /\ s.step >= 2 => s.flags \in {s.wasUp, "IPADDR" \in s.fields}
    BY <1>4 DEF I!UnderWay, t
  <2> QED
    BY <1>1, <1>2, <1>3, <2>1
<1>9. Told(p)'
  <2>1. CASE s.step = 1
    BY <1>5, <1>7, <1>8, <2>1 DEF Told, I!Busy
  <2>2. CASE s.step # 1
    <3>1. c.step = Len(t) + 1 /\ c.step > 2 /\ s.step >= 2
      BY <1>2, <1>3, <1>5, <2>2
    <3>2. c.alone => I!UnderWay(p)'
      BY <1>2, <1>5, <1>7, <1>8, <3>1 DEF I!UnderWay, I!AllMade
    <3> QED
      BY <1>7, <3>1, <3>2 DEF Told, I!Busy
  <2> QED
    BY <2>1, <2>2
<1> QED
  BY <1>7, <1>9, OthersTold

(* The flags are set again, the step that SetOrUp is about.                *)
LEMMA RestoreIInv ==
  ASSUME I!IInv, NEW p \in Proc, I!Restore(p)
  PROVE  I!IInv'
<1> DEFINE s == v2[p]
           t == I!Todo(p)
           r == [s EXCEPT !.step = 0]
           c == [r EXCEPT !.again = TRUE]
<1>1. /\ s \in Settings /\ Told(p) /\ s.flags \in BOOLEAN
      /\ v1 \in [I!Values \cup {"up"} -> Nat] /\ v1.up \in {0, 1}
      /\ p \in Nat \ {0}
  BY IfcfgInv, NetworkAssumption DEF I!TypeOK, Settings, I!IfcfgAssumption
<1>2. /\ Len(t) \in Nat /\ Len(t) >= 2 /\ s.step = Len(t) + 1 /\ I!Busy(p)
      /\ \A i \in 3..Len(t) : t[i] \in I!Values
      /\ \A v \in I!Wanted(s.fields) : \E i \in 3..Len(t) : t[i] = v
  <2>1. s.step = Len(t) + 1
    BY DEF I!Restore
  <2>2. CallsFor(t) /\ I!Wanted(s.fields) \subseteq Sets(t)
    BY IoctlsAre DEF I!Todo
  <2> HIDE DEF s, t
  <2>3. /\ Len(t) \in Nat /\ Len(t) >= 2 /\ \A i \in 3..Len(t) : t[i] \in I!Values
        /\ \A v \in I!Wanted(s.fields) : \E i \in 3..Len(t) : t[i] = v
    BY <2>2 DEF CallsFor, Sets
  <2> QED
    BY <2>1, <2>3 DEF I!Busy, s
<1>3. s.alone => I!UnderWay(p)
  BY <1>1, <1>2 DEF Told
<1>4. /\ r \in Settings /\ r.step = 0 /\ r.fields = s.fields /\ r.err = s.err
      /\ r.alone = s.alone /\ r.wasUp = s.wasUp /\ r.flags = s.flags
  BY <1>1 DEF Settings
<1>5. I!Becomes(p, c)
  BY DEF I!Restore
<1> HIDE DEF r
<1>6. /\ c \in Settings /\ c.step = 0 /\ c.fields = s.fields /\ c.err = s.err
      /\ c.alone = s.alone /\ c.wasUp = s.wasUp /\ c.again
  BY <1>4 DEF Settings
<1> HIDE DEF c, t
<1>7. /\ v1' \in [I!Values \cup {"up"} -> Nat] /\ v1'.up = IF s.flags THEN 1 ELSE 0
      /\ \A v \in I!Values : v1'[v] = v1[v]
  BY <1>1 DEF I!Restore, I!Values
<1>8. /\ I!TypeOK' /\ v2'[p] = c /\ \A q \in Proc \ {p} : ~v2'[q].alone
  BY <1>5, <1>6, <1>7, GoesOn
<1>9. ASSUME s.alone
      PROVE  /\ "IPADDR" \in s.fields /\ s.wasUp => v1'.up = 1
             /\ s.err = 0 =>
                  /\ \A v \in I!Wanted(s.fields) : v \in I!Values /\ v1'[v] = p
                  /\ v1'.up = 1 <=> "IPADDR" \in s.fields
  <2>1. "IPADDR" \in s.fields /\ s.wasUp => v1'.up = 1
    <3>1. s.flags \in {s.wasUp, "IPADDR" \in s.fields}
      BY <1>2, <1>3, <1>9 DEF I!UnderWay
    <3> QED
      BY <1>7, <3>1
  <2>2. ASSUME s.err = 0
        PROVE  /\ s.flags = ("IPADDR" \in s.fields)
               /\ \A i \in 3..Len(t) : v1[t[i]] = p
    <3>1. I!AllMade(p) /\ s.step - 1 = Len(t)
      BY <1>2, <2>2 DEF I!AllMade
    <3> QED
      BY <1>3, <1>9, <3>1 DEF I!UnderWay, t
  <2>3. s.err = 0 => \A v \in I!Wanted(s.fields) : v \in I!Values /\ v1'[v] = p
    BY <1>2, <1>7, <2>2
  <2>4. s.err = 0 => (v1'.up = 1 <=> "IPADDR" \in s.fields)
    <3>1. v1'.up = 1 <=> s.flags
      BY <1>1, <1>7
    <3> QED
      BY <2>2, <3>1, Zenon
  <2> QED
    BY <2>1, <2>3, <2>4
<1>10. \A v \in I!Values : v1'[v] = p => v \in (DOMAIN I!ifcfg_get)' /\ I!ifcfg_get'[v] = p
  BY <1>1 DEF I!ifcfg_get
<1>11. Told(p)'
  BY <1>6, <1>8, <1>9, <1>10 DEF Told, I!Busy
<1> QED
  BY <1>8, <1>11, OthersTold

(* They could not be set: SetOrUp promises nothing.                        *)
LEMMA RestoreFailsIInv ==
  ASSUME I!IInv, NEW p \in Proc, I!RestoreFails(p)
  PROVE  I!IInv'
<1> DEFINE s == v2[p]
           c == [s EXCEPT !.step = 0]
<1>1. /\ s \in Settings /\ Told(p) /\ v1' = v1
      /\ v1 \in [I!Values \cup {"up"} -> Nat] /\ v1.up \in {0, 1}
  BY IfcfgInv DEF I!TypeOK, Settings, I!RestoreFails
<1>2. I!Busy(p)
  BY TodoIs DEF I!RestoreFails, I!Busy
<1>3. s.alone => ~s.again
  BY <1>1, <1>2 DEF Told, I!UnderWay
<1>4. /\ c \in Settings /\ c.step = 0 /\ c.fields = s.fields
      /\ c.alone = s.alone /\ c.again = s.again
  BY <1>1 DEF Settings
<1>5. I!Becomes(p, c)
  BY DEF I!RestoreFails
<1> HIDE DEF c
<1>6. /\ I!TypeOK' /\ v2'[p] = c /\ \A q \in Proc \ {p} : ~v2'[q].alone
  BY <1>1, <1>4, <1>5, GoesOn
<1>7. Told(p)'
  BY <1>3, <1>4, <1>6 DEF Told, I!Busy
<1> QED
  BY <1>6, <1>7, OthersTold

(* Every step of a program, and the reading of resolv.conf.                *)
LEMMA IfcfgNextIInv == I!IInv /\ [I!Next]_(I!vars) => I!IInv'
<1> SUFFICES ASSUME I!IInv, [I!Next]_(I!vars) PROVE I!IInv'
  OBVIOUS
<1>1. ASSUME v1' = v1, v2' = v2
      PROVE  I!IInv'
  <2>1. I!TypeOK /\ \A p \in Proc : Told(p)
    BY IfcfgInv
  <2>2. I!TypeOK'
    BY <1>1, <2>1 DEF I!TypeOK
  <2>3. ASSUME NEW p \in Proc
        PROVE  Told(p)'
    BY <1>1, <2>1 DEF Told, I!Busy, I!UnderWay, I!AllMade, I!Todo, I!ifcfg_get
  <2> QED
    BY <2>2, <2>3, IfcfgInvNext
<1>2. CASE I!ifcfg_get_dns_addrs \/ UNCHANGED I!vars
  BY <1>1, <1>2 DEF I!ifcfg_get_dns_addrs, I!vars
<1>3. CASE \E p \in Proc : I!ifcfg_set(p)
  BY <1>3, BeginIInv, IoctlIInv, IoctlFailsIInv, RestoreIInv, RestoreFailsIInv DEF I!ifcfg_set
<1> QED
  BY <1>2, <1>3 DEF I!Next

-----------------------------------------------------------------------------
(* sock_unix.c, the addresses: however many bytes and ports there are.     *)
LEMMA AddressesKept == S!AddressKept
<1> SUFFICES ASSUME NEW text \in S!Texts, S!Bytes(text.parts)
             PROVE  /\ (text.parts # S!NONE /\ text.port <= MaxPort) =>
                         /\ S!iaddr_parse(text) # <<>>
                         /\ S!iaddr_fmt(S!iaddr_parse(text)[1]) = text
                    /\ S!iaddr_ntoa(S!htonl(S!iaddr_aton(text.parts))) = text.parts
                    /\ text.parts # S!NONE => S!inet_resolve(text.parts) = S!iaddr_aton(text.parts)
  BY DEF S!AddressKept
<1>1. PICK parts \in {<<>>} \cup [1..3 -> Part] \cup [1..4 -> Part], port \in Port :
        text = S!TextOf(parts, parts # <<>>, port)
  BY DEF S!Texts
<1>2. text.parts = parts /\ text.port = port /\ (text.colon <=> parts # <<>>)
  BY <1>1 DEF S!TextOf
<1>3. parts \in Seq(Nat) /\ Len(parts) = 4 /\ S!Bytes(parts)
  <2>1. Part \subseteq Nat
    BY NetworkAssumption DEF S!SockAssumption
  <2>2. S!Bytes(parts) /\ Len(parts) = 4
    BY <1>2 DEF S!Bytes
  <2>3. parts \in [1..4 -> Part] => parts \in Seq(Nat)
    <3>1. parts \in [1..4 -> Part] => parts \in [1..4 -> Nat]
      BY <2>1
    <3>2. [1..4 -> Nat] \in {[1..n -> Nat] : n \in Nat}
      OBVIOUS
    <3> QED
      BY <3>1, <3>2, SeqDef
  <2>4. parts \in [1..3 -> Part] => Len(parts) = 3
    OBVIOUS
  <2>5. parts = <<>> => Len(parts) = 0
    OBVIOUS
  <2>6. parts = <<>> \/ parts \in [1..3 -> Part] \/ parts \in [1..4 -> Part]
    BY <1>1
  <2> QED
    BY <2>2, <2>3, <2>4, <2>5, <2>6
<1>4. text.colon /\ text = S!TextOf(parts, TRUE, port)
  <2>1. parts # <<>>
    <3>1. Len(<<>>) = 0 /\ 4 # 0
      OBVIOUS
    <3> QED
      BY <1>3, <3>1, Zenon
  <2>2. (parts # <<>>) = TRUE
    BY <2>1, Zenon
  <2> QED
    BY <1>1, <1>2, <2>1, <2>2, Zenon
<1>5. S!Reverse(S!Reverse(parts)) = parts
  BY <1>3, TurnedTwice
<1>6. S!inet_resolve(parts) = parts /\ S!iaddr_aton(parts) = parts
  BY <1>3, <1>5 DEF S!inet_resolve, S!ntohl, S!inet_addr, S!htonl, S!iaddr_aton
<1>7. S!iaddr_ntoa(S!htonl(parts)) = parts
  BY <1>5 DEF S!iaddr_ntoa, S!inet_ntoa, S!htonl
<1>8. ASSUME parts # S!NONE, port <= MaxPort
      PROVE  S!iaddr_parse(text) # <<>> /\ S!iaddr_fmt(S!iaddr_parse(text)[1]) = text
  <2> DEFINE addr == S!iaddr_pack(parts, port)
  <2>1. S!iaddr_parse(text) = <<addr>>
    BY <1>2, <1>4, <1>6, <1>8 DEF S!iaddr_parse
  <2>2. port % (MaxPort + 1) = port
    <3>1. port \in Nat /\ MaxPort \in Nat
      BY NetworkAssumption DEF S!SockAssumption
    <3> QED
      BY <1>8, <3>1
  <2>3. addr.sin_addr = S!Reverse(parts) /\ addr.sin_port = port
    BY <2>2 DEF S!iaddr_pack, S!htonl
  <2> HIDE DEF addr
  <2>4. S!iaddr_fmt(addr) = text
    BY <1>4, <1>5, <2>3 DEF S!iaddr_fmt, S!inet_ntoa
  <2> QED
    BY <2>1, <2>4
<1> QED
  BY <1>2, <1>6, <1>7, <1>8

-----------------------------------------------------------------------------
(* A step of the composition is a step of its part, which stays the same.  *)
LEMMA SocketSteps ==
  ASSUME [AllNext]_allVars
  PROVE  /\ which' = which
         /\ which = "sock" => [S!Next]_(S!vars)
         /\ which = "ifcfg" => [I!Next]_(I!vars)
<1>1. CASE AllNext
  BY <1>1 DEF AllNext, ProxyStep, DnsStep, SockStep, IfcfgStep
<1>2. CASE UNCHANGED allVars
  BY <1>2 DEF allVars, v1on, v2on, v5on, v6on, S!vars, I!vars
<1> QED
  BY <1>1, <1>2

(* The invariants of the parts, each for the behaviours that are its own.  *)
SocketsInv ==
  /\ which = "sock" => S!IInv
  /\ which = "ifcfg" => I!IInv

(* sock.c and ifcfg_unix.c, for buffers and a kernel of any size, any      *)
(* number of programs, and bytes and ports of any width: what the calls of *)
(* a socket returned adds up to what was moved, in order; who set up an    *)
(* interface alone finds what it set, and does not leave one down that it  *)
(* found up; and an address is written as it was read.                     *)
THEOREM SocketsAlwaysKept == AllFairSpec => []SocketsKept
<1>1. AllInit => SocketsInv
  BY SockInitIInv, IfcfgInitIInv DEF AllInit, PartInit, SocketsInv
<1>2. SocketsInv /\ [AllNext]_allVars => SocketsInv'
  <2> SUFFICES ASSUME SocketsInv, [AllNext]_allVars PROVE SocketsInv'
    OBVIOUS
  <2>1. which = "sock" => S!IInv'
    BY SocketSteps, SockNextIInv DEF SocketsInv
  <2>2. which = "ifcfg" => I!IInv'
    BY SocketSteps, IfcfgNextIInv DEF SocketsInv
  <2> QED
    BY <2>1, <2>2, SocketSteps DEF SocketsInv
<1>3. SocketsInv => SocketsKept
  BY AddressesKept DEF SocketsInv, SocketsKept, S!IInv, I!IInv
<1> QED
  BY <1>1, <1>2, <1>3, PTL DEF AllFairSpec, AllSpec
=============================================================================
