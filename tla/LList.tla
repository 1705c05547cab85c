------------------------------- MODULE LList -------------------------------
(***************************************************************************)
(* llist.h: a list linked both ways.  The head is a node of the list's own *)
(* structure, which the first node does not point back to.                 *)
(***************************************************************************)
EXTENDS Integers, SequencesExt

CONSTANT Node           (* the nodes: positive integers                    *)

Null == 0
HeadNode == -1

VARIABLES
  links,     (* the struct: next and prev of every node, and tail          *)
  list       (* history: the order the calls asked for                     *)

vars == <<links, list>>

(* llist_init.  The nodes' own links are not initialized by anyone.        *)
Init ==
  /\ links = [next |-> [n \in Node \cup {HeadNode} |-> Null],
              prev |-> [n \in Node \cup {HeadNode} |-> Null],
              tail |-> Null]
  /\ list = <<>>

(* n->field = to, if n is a node.                                          *)
Link(s, field, n, to) == IF n = Null THEN s ELSE [s EXCEPT ![field][n] = to]

(* Mutant: the tail only moves when the list was empty.                    *)
TailWhenEmpty(s, prev, node) == IF s.tail = Null THEN node ELSE s.tail

TailAfterAdd(s, prev, node) == IF s.tail \in {Null, prev} THEN node ELSE s.tail

(* llist_add_after: behind prev, or at the front.                          *)
llist_add_after(s, after, node) ==
  LET prev == IF after = Null THEN HeadNode ELSE after
      next == s.next[prev]
      back == IF prev = HeadNode THEN Null ELSE prev
      s1   == Link(Link(s, "next", node, next), "prev", next, node)
  IN  [Link(Link(s1, "next", prev, node), "prev", node, back)
         EXCEPT !.tail = TailAfterAdd(s, prev, node)]

(* llist_remove: the first node is joined to the head while it leaves; the *)
(* node keeps its own links.                                               *)
llist_remove(s, node) ==
  LET tail == IF node = s.tail THEN s.prev[node] ELSE s.tail
      s1   == IF s.next[HeadNode] = node THEN Link(s, "prev", node, HeadNode) ELSE s
      s2   == Link(s1, "next", s1.prev[node], s1.next[node])
      s3   == Link(s2, "prev", s2.next[node], s2.prev[node])
  IN  [Link(s3, "prev", s3.next[HeadNode], Null) EXCEPT !.tail = tail]

llist_insert ==
  \E node \in Node \ Range(list) :
    /\ links' = llist_add_after(links, HeadNode, node)
    /\ list' = <<node>> \o list

llist_append ==
  \E node \in Node \ Range(list) :
    /\ links' = llist_add_after(links, links.tail, node)
    /\ list' = Append(list, node)

AddAfter ==
  \E i \in DOMAIN list : \E node \in Node \ Range(list) :
    /\ links' = llist_add_after(links, list[i], node)
    /\ list' = InsertAt(list, i + 1, node)

RemoveNode ==
  \E i \in DOMAIN list :
    /\ links' = llist_remove(links, list[i])
    /\ list' = RemoveAt(list, i)

llist_to_tail ==
  \E i \in DOMAIN list :
    LET s == llist_remove(links, list[i])
    IN  /\ links' = llist_add_after(s, s.tail, list[i])
        /\ list' = Append(RemoveAt(list, i), list[i])

Next == llist_insert \/ llist_append \/ AddAfter \/ RemoveNode \/ llist_to_tail

Spec == Init /\ [][Next]_vars

-----------------------------------------------------------------------------
(* The node at place i of a list, Null before the first and behind the     *)
(* last.                                                                   *)
Nth(l, i) == IF i \in DOMAIN l THEN l[i] ELSE Null

(* From the head along next and from the tail along prev one finds the     *)
(* nodes of l, in their order.                                             *)
Links(s, l) ==
  /\ s.next[HeadNode] = Nth(l, 1)
  /\ s.tail = Nth(l, Len(l))
  /\ \A i \in DOMAIN l :
       /\ s.next[l[i]] = Nth(l, i + 1)
       /\ s.prev[l[i]] = Nth(l, i - 1)

(* The list is the same from both ends, in the order the nodes were put    *)
(* in.                                                                     *)
BothWays == Links(links, list)

(* Its inductive strengthening: no node is in the list twice.              *)
Fields ==
  [next : [Node \cup {HeadNode} -> Node \cup {Null, HeadNode}],
   prev : [Node \cup {HeadNode} -> Node \cup {Null, HeadNode}],
   tail : Node \cup {Null, HeadNode}]

Once(l) == l \in Seq(Node) /\ \A i, j \in DOMAIN l : l[i] = l[j] => i = j

IInv == links \in Fields /\ Once(list) /\ BothWays
=============================================================================
