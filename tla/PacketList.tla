----------------------------- MODULE PacketList -----------------------------
(***************************************************************************)
(* The circular doubly linked lists of packets of listUtils.c, with their  *)
(* pointers.  A heap is a record of the fields of every cell; each function *)
(* of listUtils.c becomes an operator from heaps to heaps.                 *)
(***************************************************************************)
EXTENDS Integers, FiniteSets, FiniteSetsExt

CONSTANT NumNodes   \* nodes malloc can give out

(* Cells: the nodes are positive, the heads of the lists negative. *)
NULL == 0
ToSendHead == -1
ToAckHead  == -2
Heads == {ToSendHead, ToAckHead}
Addresses == 1 .. NumNodes
Cells == Heads \cup Addresses \cup {NULL}

(* allocHead for each list: a head is its own neighbour.  The fields of NULL
   are never read; they are there to make the functions total. *)
EmptyHeap(noPacket) ==
    [next   |-> [c \in Cells |-> IF c \in Heads THEN c ELSE NULL],
     prev   |-> [c \in Cells |-> IF c \in Heads THEN c ELSE NULL],
     head   |-> [c \in Cells |-> NULL],
     length |-> [c \in Cells |-> IF c \in Heads THEN 0 ELSE -1],
     packet |-> [n \in Addresses |-> noPacket],
     used   |-> {}]

-----------------------------------------------------------------------------
(* What a traversal meets. *)

(* The nodes from a head until it is met again, as while (iter != head). *)
Chain(head, link) ==
    LET at[k \in 0 .. NumNodes + 1] == IF k = 0 THEN head ELSE link[at[k - 1]]
        back == {k \in 1 .. NumNodes + 1 : at[k] = head}
    IN  [k \in 1 .. Min(back \cup {NumNodes + 2}) - 1 |-> at[k]]

Forward(h, head)  == Chain(head, h.next)
Backward(h, head) == Chain(head, h.prev)

(* The first node whose id satisfies the test, or otherwise. *)
FirstWith(h, head, Test(_), otherwise) ==
    LET chain == Forward(h, head)
        hits  == {k \in DOMAIN chain : Test(h.packet[chain[k]].id)}
    IN  IF hits = {} THEN otherwise ELSE chain[Min(hits)]

-----------------------------------------------------------------------------
(* The node malloc returns: the lowest free one, so that freed nodes are
   used again as soon as can be. *)
FreshNode(h) == Min(Addresses \ h.used)

AllocNode(h, p) ==
    LET n == FreshNode(h)
    IN  [h EXCEPT !.next[n] = n, !.prev[n] = n, !.packet[n] = p,
                  !.used = @ \cup {n}]

(* clearNode, and what becomes of a node that nobody points to any more: its
   memory is lost, and so the model may give it out again. *)
ClearNode(h, n, noPacket) ==
    IF n = NULL THEN h
    ELSE [h EXCEPT !.next[n] = NULL, !.prev[n] = NULL, !.head[n] = NULL,
                   !.packet[n] = noPacket, !.used = @ \ {n}]

(* Bug: the node is not counted in. *)
LinkBefore_noCount(h, head, c, n) ==
    [h EXCEPT !.next = [@ EXCEPT ![h.prev[c]] = n, ![n] = c],
              !.prev = [@ EXCEPT ![c] = n, ![n] = h.prev[c]],
              !.head[n] = head]

(* Link node n in before cell c of the list. *)
LinkBefore(h, head, c, n) ==
    [h EXCEPT !.next = [@ EXCEPT ![h.prev[c]] = n, ![n] = c],
              !.prev = [@ EXCEPT ![c] = n, ![n] = h.prev[c]],
              !.head[n] = head,
              !.length[head] = @ + 1]

AppendNode(h, head, n) == LinkBefore(h, head, head, n)

(* Bug: the node after the removed one keeps its prev. *)
RemoveNode_keepsPrev(h, n) ==
    IF n = NULL THEN h
    ELSE [h EXCEPT !.next = [@ EXCEPT ![h.prev[n]] = h.next[n], ![n] = NULL],
                   !.prev[n] = NULL,
                   !.head[n] = NULL,
                   !.length[h.head[n]] = @ - 1]

RemoveNode(h, n) ==
    IF n = NULL THEN h
    ELSE [h EXCEPT !.next = [@ EXCEPT ![h.prev[n]] = h.next[n], ![n] = NULL],
                   !.prev = [@ EXCEPT ![h.next[n]] = h.prev[n], ![n] = NULL],
                   !.head[n] = NULL,
                   !.length[h.head[n]] = @ - 1]

SearchNodeById(h, head, id) ==
    LET Same(i) == i = id IN FirstWith(h, head, Same, NULL)

(* Bug: the new node goes behind the node that ended the search. *)
InsertNodeById_behind(h, head, n) ==
    LET id == h.packet[n].id
        NotBelow(i) == i >= id
        iter == FirstWith(h, head, NotBelow, head)
    IN  IF iter # head /\ h.packet[iter].id = id THEN h
        ELSE LinkBefore(h, head, h.next[iter], n)

(* The new node goes before the first one with a greater id; h itself when
   the id is present. *)
InsertNodeById(h, head, n) ==
    LET id == h.packet[n].id
        NotBelow(i) == i >= id
        iter == FirstWith(h, head, NotBelow, head)
    IN  IF iter # head /\ h.packet[iter].id = id THEN h
        ELSE LinkBefore(h, head, iter, n)

(* removeNodeById and clearNode of what it returns. *)
DiscardNodeById(h, head, id, noPacket) ==
    LET n == SearchNodeById(h, head, id)
    IN  ClearNode(RemoveNode(h, n), n, noPacket)

(* forEach: at most maxScans calls of Callback, on heaps, from the first
   node on; next is read before the call. *)
ForEach(h, head, Callback(_, _), maxScans) ==
    LET scan[k \in 0 .. maxScans] ==
          IF k = 0 THEN [heap |-> h, iter |-> h.next[head]]
          ELSE LET s == scan[k - 1]
               IN  IF s.iter = head THEN s
                   ELSE [heap |-> Callback(s.heap, s.iter),
                         iter |-> s.heap.next[s.iter]]
    IN  scan[maxScans]

(* forEach with ackPacket, which removes and frees the node it is called on:
   the list after it. *)
ForEachAck(h, head, noPacket, maxScans) ==
    LET AckPacket(g, n) == ClearNode(RemoveNode(g, n), n, noPacket)
    IN  ForEach(h, head, AckPacket, maxScans).heap

(* forEach with a callback that leaves the list alone: where it ends. *)
ForEachEnd(h, head, maxScans) ==
    LET NoChange(g, n) == g
    IN  ForEach(h, head, NoChange, maxScans).iter

-----------------------------------------------------------------------------
(* What the heaps of a run are.  Nothing here is code: it says of the fields
   alone, without a walk, what the functions above keep up. *)

(* Heaps whose nodes hold packets of P. *)
Heap(P) == [next   : [Cells -> Cells],
            prev   : [Cells -> Cells],
            head   : [Cells -> Cells],
            length : [Cells -> Int],
            packet : [Addresses -> P],
            used   : SUBSET Addresses]

(* The cells of S form closed circles: next and prev stay in S and undo each
   other. *)
Linked(h, S) ==
    \A c \in S : /\ h.next[c] \in S /\ h.prev[c] \in S
                 /\ h.prev[h.next[c]] = c /\ h.next[h.prev[c]] = c

(* The nodes of a list, by the head that each one names, and their packets. *)
Nodes(h, head) == {n \in h.used : h.head[n] = head}
Contents(h, head) == {h.packet[n] : n \in Nodes(h, head)}

(* The list of head is in the order of the ranks of its packets, which
   differ: next goes from the head and from each node to the next one in
   that order, from the last one to the head, and prev goes back. *)
Ordered(h, head, rank) ==
    LET nodes  == Nodes(h, head)
        key(n) == rank[h.packet[n]]
    IN  /\ Linked(h, nodes \cup {head})
        /\ \A m, n \in nodes : key(m) = key(n) => m = n
        /\ \A n \in nodes : h.next[n] \in nodes => key(n) < key(h.next[n])
        /\ \A c \in nodes \cup {head}, n \in nodes :
              c = head \/ key(c) < key(n)
                 => h.next[c] \in nodes /\ key(h.next[c]) <= key(n)
        /\ h.length[head] = Cardinality(nodes)

(* Both lists are in order. *)
InOrder(h, P, rank) ==
    /\ h \in Heap(P)
    /\ \A head \in Heads : Ordered(h, head, rank)

(* Every node in use is on a list, and no other node names a head. *)
AllListed(h) ==
    \A n \in Addresses : IF n \in h.used THEN h.head[n] \in Heads
                                         ELSE h.head[n] = NULL

Sound(h, P, rank) == InOrder(h, P, rank) /\ AllListed(h)
=============================================================================
