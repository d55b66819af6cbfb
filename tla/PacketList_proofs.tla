------------------------- MODULE PacketList_proofs --------------------------
(***************************************************************************)
(* One call of the functions of listUtils.c, on lists of any length, the   *)
(* empty one and the one of a single node included: the links that stay    *)
(* sound, and what becomes of the order and of the contents of each list.  *)
(***************************************************************************)
EXTENDS PacketList, TLAPS, FiniteSetTheorems, WellFoundedInduction

(* A set of naturals has a least member. *)
LEMMA LeastExists ==
    ASSUME NEW T \in SUBSET Nat, T # {}
    PROVE  \E x \in T : \A y \in T : x <= y
<1>1. PICK x \in T : \A y \in T : ~(<<y, x>> \in OpToRel(<, Nat))
  BY NatLessThanWellFounded, WFMin
<1>2. \A y \in T : ~(y < x)
  BY <1>1 DEF OpToRel
<1> QED BY <1>2

(* Min is that member. *)
LEMMA MinFacts ==
    ASSUME NEW T \in SUBSET Nat, T # {}
    PROVE  Min(T) \in T /\ \A y \in T : Min(T) <= y
BY LeastExists DEF Min

-----------------------------------------------------------------------------
(* removeNode: the circles close over the gap, and the list that the node was
   on is one shorter. *)
THEOREM RemoveNodeKeepsLinks ==
    ASSUME NumNodes \in Nat, NEW P, NEW h \in Heap(P),
           NEW S \in SUBSET (Heads \cup Addresses), Linked(h, S),
           NEW n \in S \cap Addresses, h.head[n] \in Heads
    PROVE  LET g == RemoveNode(h, n)
           IN  /\ g \in Heap(P)
               /\ Linked(g, S \ {n})
               /\ \A head \in Heads :
                     g.length[head] = IF head = h.head[n] THEN h.length[head] - 1
                                      ELSE h.length[head]
<1> DEFINE before == h.prev[n]
           after  == h.next[n]
           next   == [h.next EXCEPT ![before] = after, ![n] = NULL]
           prev   == [h.prev EXCEPT ![after] = before, ![n] = NULL]
           g      == RemoveNode(h, n)
<1>1. /\ n # NULL /\ n \in Cells /\ NULL \in Cells
      /\ S \subseteq Cells /\ NULL \notin S
      /\ n \notin Heads
  BY DEF Addresses, Heads, Cells, NULL, ToSendHead, ToAckHead
<1>2. /\ h.next \in [Cells -> Cells] /\ h.prev \in [Cells -> Cells]
      /\ h.head \in [Cells -> Cells] /\ h.length \in [Cells -> Int]
  BY DEF Heap
<1>3. before \in S /\ after \in S
  BY DEF Linked
<1>4. g = [h EXCEPT !.next = next, !.prev = prev, !.head[n] = NULL,
                    !.length[h.head[n]] = @ - 1]
  BY <1>1 DEF RemoveNode
<1>5. /\ next \in [Cells -> Cells] /\ prev \in [Cells -> Cells]
      /\ [h.head EXCEPT ![n] = NULL] \in [Cells -> Cells]
      /\ [h.length EXCEPT ![h.head[n]] = @ - 1] \in [Cells -> Int]
  BY <1>1, <1>2, <1>3
<1>6. /\ g.next = next /\ g.prev = prev
      /\ g.length = [h.length EXCEPT ![h.head[n]] = @ - 1]
      /\ g \in Heap(P)
  <2>1. g = [next   |-> next,
             prev   |-> prev,
             head   |-> [h.head EXCEPT ![n] = NULL],
             length |-> [h.length EXCEPT ![h.head[n]] = @ - 1],
             packet |-> h.packet,
             used   |-> h.used]
    BY <1>4 DEF Heap
  <2>2. h.packet \in [Addresses -> P] /\ h.used \in SUBSET Addresses
    BY DEF Heap
  <2> HIDE DEF g, next, prev
  <2> QED BY <1>5, <2>1, <2>2 DEF Heap
<1>7. Linked(g, S \ {n})
  <2> SUFFICES ASSUME NEW c \in S \ {n}
               PROVE  /\ next[c] \in S \ {n} /\ prev[c] \in S \ {n}
                      /\ prev[next[c]] = c /\ next[prev[c]] = c
    BY <1>6 DEF Linked
  <2>1. /\ c \in Cells /\ h.next[c] \in S /\ h.prev[c] \in S
        /\ h.prev[h.next[c]] = c /\ h.next[h.prev[c]] = c
        /\ h.prev[after] = n /\ h.next[before] = n
    BY <1>1 DEF Linked
  <2>2. next[c] = IF c = before THEN after ELSE h.next[c]
    BY <1>2, <2>1
  <2>3. prev[c] = IF c = after THEN before ELSE h.prev[c]
    BY <1>2, <2>1
  <2>4. c = before => after # n
    BY <2>1
  <2>5. c = after => before # n
    BY <2>1
  <2>6. c # before => h.next[c] # n /\ h.next[c] # after
    BY <2>1
  <2>7. c # after => h.prev[c] # n /\ h.prev[c] # before
    BY <2>1
  <2>8. next[c] \in S \ {n} /\ prev[next[c]] = c
    BY <1>1, <1>2, <1>3, <2>1, <2>2, <2>4, <2>6
  <2>9. prev[c] \in S \ {n} /\ next[prev[c]] = c
    BY <1>1, <1>2, <1>3, <2>1, <2>3, <2>5, <2>7
  <2> QED BY <2>8, <2>9
<1>8. \A head \in Heads :
         g.length[head] = IF head = h.head[n] THEN h.length[head] - 1
                          ELSE h.length[head]
  BY <1>2, <1>6 DEF Cells
<1> QED BY <1>6, <1>7, <1>8

(* insertNodeById and appendNode, once the place is found: a node that is on no
   circle joins that of the cell it is linked before, right before it, and
   the list is one longer. *)
THEOREM LinkBeforeKeepsLinks ==
    ASSUME NumNodes \in Nat, NEW P, NEW h \in Heap(P),
           NEW S \in SUBSET (Heads \cup Addresses), Linked(h, S),
           NEW head \in Heads, NEW c \in S, NEW n \in Addresses \ S
    PROVE  LET g == LinkBefore(h, head, c, n)
           IN  /\ g \in Heap(P)
               /\ Linked(g, S \cup {n})
               /\ g.next[n] = c /\ g.prev[n] = h.prev[c]
               /\ g.head[n] = head
               /\ g.length[head] = h.length[head] + 1
<1> DEFINE before == h.prev[c]
           next   == [h.next EXCEPT ![before] = n, ![n] = c]
           prev   == [h.prev EXCEPT ![c] = n, ![n] = before]
           g      == LinkBefore(h, head, c, n)
<1>1. n \in Cells /\ S \subseteq Cells /\ head \in Cells
  BY DEF Cells
<1>2. /\ h.next \in [Cells -> Cells] /\ h.prev \in [Cells -> Cells]
      /\ h.head \in [Cells -> Cells] /\ h.length \in [Cells -> Int]
  BY DEF Heap
<1>3. before \in S /\ h.next[before] = c
  BY DEF Linked
<1>4. g = [h EXCEPT !.next = next, !.prev = prev, !.head[n] = head,
                    !.length[head] = @ + 1]
  BY DEF LinkBefore
<1>5. /\ next \in [Cells -> Cells] /\ prev \in [Cells -> Cells]
      /\ [h.head EXCEPT ![n] = head] \in [Cells -> Cells]
      /\ [h.length EXCEPT ![head] = @ + 1] \in [Cells -> Int]
  BY <1>1, <1>2, <1>3
<1>6. /\ g.next = next /\ g.prev = prev
      /\ g.head = [h.head EXCEPT ![n] = head]
      /\ g.length = [h.length EXCEPT ![head] = @ + 1]
      /\ g \in Heap(P)
  <2>1. g = [next   |-> next,
             prev   |-> prev,
             head   |-> [h.head EXCEPT ![n] = head],
             length |-> [h.length EXCEPT ![head] = @ + 1],
             packet |-> h.packet,
             used   |-> h.used]
    BY <1>4 DEF Heap
  <2>2. h.packet \in [Addresses -> P] /\ h.used \in SUBSET Addresses
    BY DEF Heap
  <2> HIDE DEF g, next, prev
  <2> QED BY <1>5, <2>1, <2>2 DEF Heap
<1>7. Linked(g, S \cup {n})
  <2> SUFFICES ASSUME NEW d \in S \cup {n}
               PROVE  /\ next[d] \in S \cup {n} /\ prev[d] \in S \cup {n}
                      /\ prev[next[d]] = d /\ next[prev[d]] = d
    BY <1>6 DEF Linked
  <2>1. next[n] = c /\ prev[n] = before /\ prev[c] = n /\ next[before] = n
    BY <1>1, <1>2, <1>3
  <2>2. CASE d = n
    BY <1>3, <2>1, <2>2
  <2>3. CASE d \in S
    <3>1. /\ d # n /\ h.next[d] \in S /\ h.prev[d] \in S
          /\ h.prev[h.next[d]] = d /\ h.next[h.prev[d]] = d
      BY <2>3 DEF Linked
    <3>2. next[d] = IF d = before THEN n ELSE h.next[d]
      BY <1>1, <1>2, <2>3, <3>1
    <3>3. prev[d] = IF d = c THEN n ELSE h.prev[d]
      BY <1>1, <1>2, <2>3, <3>1
    <3>4. d # before => h.next[d] # c
      BY <3>1
    <3>5. d # c => h.prev[d] # before
      BY <1>3, <3>1
    <3>6. next[d] \in S \cup {n} /\ prev[next[d]] = d
      BY <1>1, <1>2, <2>1, <3>1, <3>2, <3>4
    <3>7. prev[d] \in S \cup {n} /\ next[prev[d]] = d
      BY <1>1, <1>2, <2>1, <3>1, <3>3, <3>5
    <3> QED BY <3>6, <3>7
  <2> QED BY <2>2, <2>3
<1> QED BY <1>1, <1>2, <1>6, <1>7

(* sendToReceiver: a node that removeNode has taken off one list can be linked
   into another, and no node but the one that is moved changes its circle. *)
COROLLARY MoveKeepsLinks ==
    ASSUME NumNodes \in Nat, NEW P, NEW h \in Heap(P),
           NEW S \in SUBSET (Heads \cup Addresses), Linked(h, S),
           NEW n \in S \cap Addresses, h.head[n] = ToSendHead,
           NEW c \in S \ {n}
    PROVE  LET g == LinkBefore(RemoveNode(h, n), ToAckHead, c, n)
           IN  /\ g \in Heap(P)
               /\ Linked(g, S)
               /\ g.length[ToSendHead] = h.length[ToSendHead] - 1
               /\ g.length[ToAckHead] = h.length[ToAckHead] + 1
<1> DEFINE m == RemoveNode(h, n)
           T == S \ {n}
           g == LinkBefore(m, ToAckHead, c, n)
<1>1. /\ h.head[n] \in Heads /\ ToAckHead \in Heads /\ ToSendHead \in Heads
      /\ ToAckHead # ToSendHead /\ Heads \subseteq Cells
  BY DEF Heads, ToAckHead, ToSendHead, Cells
<1>2. /\ m \in Heap(P) /\ Linked(m, T)
      /\ m.length[ToSendHead] = h.length[ToSendHead] - 1
      /\ m.length[ToAckHead] = h.length[ToAckHead]
  BY <1>1, RemoveNodeKeepsLinks
<1>3. /\ T \in SUBSET (Heads \cup Addresses) /\ n \in Addresses \ T /\ c \in T
      /\ S = T \cup {n}
  OBVIOUS
<1>4. /\ g \in Heap(P) /\ Linked(g, T \cup {n})
      /\ g.length[ToAckHead] = m.length[ToAckHead] + 1
  BY <1>1, <1>2, <1>3, LinkBeforeKeepsLinks
<1>5. g.length = [m.length EXCEPT ![ToAckHead] = @ + 1]
  BY <1>2 DEF LinkBefore, Heap
<1>6. g.length[ToSendHead] = m.length[ToSendHead]
  BY <1>1, <1>2, <1>5 DEF Heap
<1> QED BY <1>2, <1>3, <1>4, <1>6

-----------------------------------------------------------------------------
(* The order of the lists: what each function of listUtils.c does to the nodes
   of a list, and that both lists stay in order. *)

(* The fields of a heap are functions on the cells. *)
LEMMA HeapFields ==
    ASSUME NEW P, NEW h \in Heap(P)
    PROVE  /\ h.next \in [Cells -> Cells] /\ h.prev \in [Cells -> Cells]
           /\ h.head \in [Cells -> Cells] /\ h.length \in [Cells -> Int]
           /\ h.packet \in [Addresses -> P] /\ h.used \in SUBSET Addresses
           /\ h = [next |-> h.next, prev |-> h.prev, head |-> h.head,
                   length |-> h.length, packet |-> h.packet, used |-> h.used]
BY DEF Heap

(* Heads, nodes and NULL are different cells. *)
LEMMA CellFacts ==
    /\ \A n \in Addresses : n \in Cells /\ n \notin Heads /\ n # NULL
    /\ \A head \in Heads : head \in Cells /\ head # NULL
    /\ NULL \in Cells
    /\ ToSendHead \in Heads /\ ToAckHead \in Heads /\ ToSendHead # ToAckHead
    /\ \A head \in Heads : head = ToSendHead \/ head = ToAckHead
BY DEF Addresses, Heads, Cells, NULL, ToSendHead, ToAckHead

(* There are finitely many nodes. *)
LEMMA NodesFinite ==
    ASSUME NumNodes \in Nat, NEW N \in SUBSET Addresses
    PROVE  /\ IsFiniteSet(N) /\ Cardinality(N) \in Nat
           /\ Cardinality(N) <= NumNodes
<1>1. /\ IsFiniteSet(1 .. NumNodes) /\ Cardinality(1 .. NumNodes) = NumNodes
  BY FS_Interval
<1>2. /\ IsFiniteSet(N) /\ Cardinality(N) <= Cardinality(1 .. NumNodes)
  BY <1>1, FS_Subset DEF Addresses
<1> QED BY <1>1, <1>2, FS_CardinalityType

(* The order of a list rests on the links and the packets of its own nodes. *)
LEMMA OrderedFrame ==
    ASSUME NEW h, NEW g, NEW head, NEW rank, Ordered(h, head, rank),
           Nodes(g, head) = Nodes(h, head),
           \A c \in Nodes(h, head) \cup {head} :
              g.next[c] = h.next[c] /\ g.prev[c] = h.prev[c],
           \A n \in Nodes(h, head) : g.packet[n] = h.packet[n],
           g.length[head] = h.length[head]
    PROVE  Ordered(g, head, rank) /\ Contents(g, head) = Contents(h, head)
<1> DEFINE N == Nodes(h, head)
<1> HIDE DEF N
<1>1. Contents(g, head) = Contents(h, head)
  BY DEF Contents
<1>2. Linked(g, N \cup {head})
  <2> SUFFICES ASSUME NEW c \in N \cup {head}
               PROVE  /\ g.next[c] \in N \cup {head} /\ g.prev[c] \in N \cup {head}
                      /\ g.prev[g.next[c]] = c /\ g.next[g.prev[c]] = c
    BY DEF Linked
  <2>1. /\ h.next[c] \in N \cup {head} /\ h.prev[c] \in N \cup {head}
        /\ h.prev[h.next[c]] = c /\ h.next[h.prev[c]] = c
    BY DEF Ordered, Linked, N
  <2> QED BY <2>1 DEF N
<1>3. /\ \A m, n \in N : rank[g.packet[m]] = rank[g.packet[n]] => m = n
      /\ \A n \in N : g.next[n] \in N => rank[g.packet[n]] < rank[g.packet[g.next[n]]]
      /\ \A c \in N \cup {head}, n \in N :
            c = head \/ rank[g.packet[c]] < rank[g.packet[n]]
              => g.next[c] \in N /\ rank[g.packet[g.next[c]]] <= rank[g.packet[n]]
  <2>1. /\ \A m, n \in N : rank[h.packet[m]] = rank[h.packet[n]] => m = n
        /\ \A n \in N : h.next[n] \in N => rank[h.packet[n]] < rank[h.packet[h.next[n]]]
        /\ \A c \in N \cup {head}, n \in N :
              c = head \/ rank[h.packet[c]] < rank[h.packet[n]]
                => h.next[c] \in N /\ rank[h.packet[h.next[c]]] <= rank[h.packet[n]]
    BY DEF Ordered, N
  <2> QED BY <2>1 DEF N
<1>4. g.length[head] = Cardinality(N)
  BY DEF Ordered, N
<1>5. Nodes(g, head) = N
  BY DEF N
<1> QED BY <1>1, <1>2, <1>3, <1>4, <1>5 DEF Ordered

(* allocNode: a node that is on no list. *)
LEMMA AllocKeeps ==
    ASSUME NumNodes \in Nat, NEW P, NEW rank, NEW h, Sound(h, P, rank),
           NEW p \in P, FreshNode(h) \in Addresses \ h.used
    PROVE  LET n == FreshNode(h)
               g == AllocNode(h, p)
           IN  /\ InOrder(g, P, rank)
               /\ n \in g.used /\ g.head[n] = NULL /\ g.packet[n] = p
               /\ g.used = h.used \cup {n} /\ g.head = h.head /\ g.length = h.length
               /\ \A m \in h.used : g.packet[m] = h.packet[m]
               /\ \A head \in Heads : /\ Nodes(g, head) = Nodes(h, head)
                                      /\ Contents(g, head) = Contents(h, head)
<1> DEFINE n == FreshNode(h)
           g == AllocNode(h, p)
<1> HIDE DEF n
<1>1. h \in Heap(P) /\ n \in Addresses /\ n \notin h.used /\ h.head[n] = NULL
  BY DEF Sound, InOrder, AllListed, n
<1>2. g = [h EXCEPT !.next[n] = n, !.prev[n] = n, !.packet[n] = p, !.used = @ \cup {n}]
  BY DEF AllocNode, n
<1>3. /\ n \in Cells /\ n \notin Heads /\ n # NULL
  BY <1>1, CellFacts
<1>4. g = [next |-> [h.next EXCEPT ![n] = n], prev |-> [h.prev EXCEPT ![n] = n],
           head |-> h.head, length |-> h.length,
           packet |-> [h.packet EXCEPT ![n] = p], used |-> h.used \cup {n}]
  <2> HIDE DEF g
  <2> QED BY <1>1, <1>2 DEF Heap
<1> HIDE DEF g
<1>5. g \in Heap(P)
  <2>1. /\ [h.next EXCEPT ![n] = n] \in [Cells -> Cells]
        /\ [h.prev EXCEPT ![n] = n] \in [Cells -> Cells]
        /\ [h.packet EXCEPT ![n] = p] \in [Addresses -> P]
        /\ h.used \cup {n} \in SUBSET Addresses
        /\ h.head \in [Cells -> Cells] /\ h.length \in [Cells -> Int]
    BY <1>1, <1>3, HeapFields
  <2> QED BY <1>4, <2>1 DEF Heap
<1>6. /\ g.used = h.used \cup {n} /\ g.head = h.head /\ g.length = h.length
      /\ g.packet[n] = p
      /\ \A m \in h.used : g.packet[m] = h.packet[m]
      /\ \A c \in Cells : c # n => g.next[c] = h.next[c] /\ g.prev[c] = h.prev[c]
  BY <1>1, <1>3, <1>4, HeapFields
<1>7. ASSUME NEW head \in Heads
      PROVE  /\ Nodes(g, head) = Nodes(h, head)
             /\ Ordered(g, head, rank) /\ Contents(g, head) = Contents(h, head)
  <2>1. Nodes(g, head) = Nodes(h, head)
    BY <1>1, <1>6, CellFacts DEF Nodes
  <2>2. \A c \in Nodes(h, head) \cup {head} : c \in Cells /\ c # n
    BY <1>1, <1>3, CellFacts, HeapFields DEF Nodes
  <2>3. Ordered(h, head, rank) /\ \A m \in Nodes(h, head) : g.packet[m] = h.packet[m]
    BY <1>6 DEF Sound, InOrder, Nodes
  <2> QED BY <1>6, <2>1, <2>2, <2>3, OrderedFrame
<1> QED BY <1>1, <1>5, <1>6, <1>7 DEF InOrder, n, g

(* clearNode: of a node that is on no list. *)
LEMMA ClearKeeps ==
    ASSUME NumNodes \in Nat, NEW P, NEW rank, NEW h, InOrder(h, P, rank),
           NEW p \in P, NEW n \in Addresses, h.head[n] = NULL
    PROVE  LET g == ClearNode(h, n, p)
           IN  /\ InOrder(g, P, rank)
               /\ g.used = h.used \ {n} /\ g.head = h.head
               /\ \A c \in Heads : g.next[c] = h.next[c]
               /\ \A head \in Heads : /\ Nodes(g, head) = Nodes(h, head)
                                      /\ Contents(g, head) = Contents(h, head)
<1> DEFINE g == ClearNode(h, n, p)
<1>1. /\ n \in Cells /\ n \notin Heads /\ n # NULL /\ NULL \in Cells
  BY CellFacts
<1>2. g = [h EXCEPT !.next[n] = NULL, !.prev[n] = NULL, !.head[n] = NULL,
                    !.packet[n] = p, !.used = @ \ {n}]
  BY <1>1 DEF ClearNode
<1> HIDE DEF g
<1>3. h \in Heap(P)
  BY DEF InOrder
<1>4. g = [next |-> [h.next EXCEPT ![n] = NULL], prev |-> [h.prev EXCEPT ![n] = NULL],
           head |-> [h.head EXCEPT ![n] = NULL], length |-> h.length,
           packet |-> [h.packet EXCEPT ![n] = p], used |-> h.used \ {n}]
  BY <1>2, <1>3 DEF Heap
<1>5. [h.head EXCEPT ![n] = NULL] = h.head
  BY <1>1, <1>3, HeapFields
<1>6. g \in Heap(P)
  <2>1. /\ [h.next EXCEPT ![n] = NULL] \in [Cells -> Cells]
        /\ [h.prev EXCEPT ![n] = NULL] \in [Cells -> Cells]
        /\ [h.packet EXCEPT ![n] = p] \in [Addresses -> P]
        /\ h.used \ {n} \in SUBSET Addresses
        /\ h.head \in [Cells -> Cells] /\ h.length \in [Cells -> Int]
    BY <1>1, <1>3, HeapFields
  <2> QED BY <1>4, <1>5, <2>1 DEF Heap
<1>7. /\ g.used = h.used \ {n} /\ g.head = h.head /\ g.length = h.length
      /\ \A m \in Addresses : m # n => g.packet[m] = h.packet[m]
      /\ \A c \in Cells : c # n => g.next[c] = h.next[c] /\ g.prev[c] = h.prev[c]
  BY <1>1, <1>3, <1>4, <1>5, HeapFields
<1>8. ASSUME NEW head \in Heads
      PROVE  /\ Nodes(g, head) = Nodes(h, head)
             /\ Ordered(g, head, rank) /\ Contents(g, head) = Contents(h, head)
  <2>1. Nodes(g, head) = Nodes(h, head)
    BY <1>7, CellFacts DEF Nodes
  <2>2. \A m \in Nodes(h, head) : m \in Addresses /\ m # n
    BY <1>3, CellFacts, HeapFields DEF Nodes
  <2>3. \A c \in Nodes(h, head) \cup {head} : c \in Cells /\ c # n
    BY <1>1, <2>2, CellFacts
  <2>4. Ordered(h, head, rank)
    BY DEF InOrder
  <2> QED BY <1>7, <2>1, <2>2, <2>3, <2>4, OrderedFrame
<1>9. \A c \in Heads : g.next[c] = h.next[c]
  BY <1>1, <1>7, CellFacts
<1> QED BY <1>6, <1>7, <1>8, <1>9 DEF InOrder, g

(* removeNode: the list without the node. *)
LEMMA RemoveKeeps ==
    ASSUME NumNodes \in Nat, NEW P, NEW rank \in [P -> Int], NEW h,
           InOrder(h, P, rank), NEW head \in Heads, NEW n \in Nodes(h, head)
    PROVE  LET g == RemoveNode(h, n)
           IN  /\ InOrder(g, P, rank)
               /\ Nodes(g, head) = Nodes(h, head) \ {n}
               /\ \A other \in Heads \ {head} : Nodes(g, other) = Nodes(h, other)
               /\ g.packet = h.packet /\ g.used = h.used
               /\ g.head = [h.head EXCEPT ![n] = NULL]
               /\ g.next[head] = IF h.next[head] = n THEN h.next[n] ELSE h.next[head]
<1> DEFINE g == RemoveNode(h, n)
           N == Nodes(h, head)
           M == N \ {n}
           key(m) == rank[h.packet[m]]
<1>1. /\ h \in Heap(P) /\ n \in Addresses /\ n \in h.used /\ h.head[n] = head
      /\ \A c \in Heads : Ordered(h, c, rank)
  BY HeapFields DEF InOrder, Nodes
<1>2. /\ n \in Cells /\ n \notin Heads /\ n # NULL /\ NULL \in Cells /\ head \in Cells
      /\ head # NULL /\ head # n
  BY <1>1, CellFacts
<1>3. N \in SUBSET Addresses /\ \A m \in N : m \in Cells /\ m \notin Heads
  BY <1>1, HeapFields, CellFacts DEF Nodes
<1>4. /\ Linked(h, N \cup {head}) /\ h.length[head] = Cardinality(N)
      /\ \A m, o \in N : key(m) = key(o) => m = o
      /\ \A m \in N : h.next[m] \in N => key(m) < key(h.next[m])
      /\ \A c \in N \cup {head}, m \in N :
            c = head \/ key(c) < key(m) => h.next[c] \in N /\ key(h.next[c]) <= key(m)
  BY <1>1 DEF Ordered
<1>5. \A m \in N : key(m) \in Int
  BY <1>1, <1>3, HeapFields
<1> HIDE DEF key, N
<1>6. /\ g \in Heap(P) /\ Linked(g, M \cup {head})
      /\ \A c \in Heads : g.length[c] = IF c = head THEN h.length[c] - 1 ELSE h.length[c]
  <2> DEFINE S == N \cup {head}
  <2>1. /\ S \in SUBSET (Heads \cup Addresses) /\ n \in S \cap Addresses
        /\ S \ {n} = M \cup {head}
    BY <1>1, <1>2, <1>3 DEF N
  <2> HIDE DEF S
  <2>2. Linked(h, S)
    BY <1>4 DEF S
  <2> QED BY <1>1, <2>1, <2>2, RemoveNodeKeepsLinks
<1>7. /\ g.packet = h.packet /\ g.used = h.used /\ g.head = [h.head EXCEPT ![n] = NULL]
      /\ g.next = [h.next EXCEPT ![h.prev[n]] = h.next[n], ![n] = NULL]
      /\ g.prev = [h.prev EXCEPT ![h.next[n]] = h.prev[n], ![n] = NULL]
  BY <1>1, <1>2 DEF RemoveNode, Heap
<1> HIDE DEF g
<1>8. n \in N
  BY DEF N
<1>9. /\ h.prev[n] \in N \cup {head} /\ h.next[n] \in N \cup {head}
      /\ h.next[h.prev[n]] = n /\ h.prev[h.next[n]] = n
      /\ \A c \in N \cup {head} : h.prev[h.next[c]] = c /\ h.next[h.prev[c]] = c
  BY <1>4, <1>8 DEF Linked
<1>10. Nodes(g, head) = M
  BY <1>1, <1>2, <1>7, CellFacts, HeapFields DEF Nodes, N
<1>11. ASSUME NEW c \in N \cup {head}, c # n
       PROVE  g.next[c] = IF c = h.prev[n] THEN h.next[n] ELSE h.next[c]
  BY <1>1, <1>2, <1>3, <1>7, <1>11, HeapFields
<1>12. ASSUME NEW c \in N \cup {head} PROVE h.next[c] = n <=> c = h.prev[n]
  BY <1>9
<1>13. h.next[n] \in N => key(n) < key(h.next[n]) /\ h.next[n] # n
  BY <1>4, <1>5, <1>8
<1>14. Ordered(g, head, rank)
  <2>1. \A m \in M : g.next[m] \in M => key(m) < key(g.next[m])
    <3> SUFFICES ASSUME NEW m \in M, g.next[m] \in M PROVE key(m) < key(g.next[m])
      OBVIOUS
    <3>1. CASE m = h.prev[n]
      <4>1. g.next[m] = h.next[n] /\ h.next[m] = n
        BY <1>9, <1>11, <3>1
      <4>2. key(m) < key(n) /\ key(n) < key(h.next[n])
        BY <1>4, <1>8, <1>13, <4>1
      <4> QED BY <1>5, <1>8, <4>1, <4>2
    <3>2. CASE m # h.prev[n]
      BY <1>4, <1>11, <3>2
    <3> QED BY <3>1, <3>2
  <2>2. ASSUME NEW c \in M \cup {head}, NEW m \in M, c = head \/ key(c) < key(m)
        PROVE  g.next[c] \in M /\ key(g.next[c]) <= key(m)
    <3>1. h.next[c] \in N /\ key(h.next[c]) <= key(m) /\ c # n
      BY <1>2, <1>4, <2>2
    <3>2. CASE h.next[c] = n
      <4>1. g.next[c] = h.next[n]
        BY <1>11, <1>12, <3>1, <3>2
      <4>2. key(n) <= key(m) /\ m # n
        BY <3>1, <3>2
      <4>3. key(n) # key(m) /\ key(n) \in Int /\ key(m) \in Int
        BY <1>4, <1>5, <1>8, <4>2
      <4>4. key(n) < key(m)
        BY <4>2, <4>3
      <4>5. h.next[n] \in N /\ key(h.next[n]) <= key(m)
        BY <1>4, <1>8, <4>4
      <4> QED BY <1>13, <4>1, <4>5
    <3>3. CASE h.next[c] # n
      BY <1>11, <1>12, <3>1, <3>3
    <3> QED BY <3>2, <3>3
  <2>3. g.length[head] = Cardinality(M)
    <3>1. IsFiniteSet(N) /\ Cardinality(M) = Cardinality(N) - 1
      BY <1>3, <1>8, NodesFinite, FS_RemoveElement
    <3> QED BY <1>4, <1>6, <3>1
  <2>4. \A m \in N : rank[g.packet[m]] = key(m)
    BY <1>7 DEF key
  <2>5. \A c \in M \cup {head} : g.next[c] \in M \cup {head}
    BY <1>6 DEF Linked
  <2>6. /\ \A m, o \in M : rank[g.packet[m]] = rank[g.packet[o]] => m = o
        /\ \A m \in M : g.next[m] \in M => rank[g.packet[m]] < rank[g.packet[g.next[m]]]
        /\ \A c \in M \cup {head}, m \in M :
              c = head \/ rank[g.packet[c]] < rank[g.packet[m]]
                => g.next[c] \in M /\ rank[g.packet[g.next[c]]] <= rank[g.packet[m]]
    BY <1>4, <2>1, <2>2, <2>4
  <2> QED BY <1>6, <1>10, <2>3, <2>6 DEF Ordered
<1>15. ASSUME NEW other \in Heads \ {head}
       PROVE  Nodes(g, other) = Nodes(h, other) /\ Ordered(g, other, rank)
  <2>1. Nodes(g, other) = Nodes(h, other)
    BY <1>1, <1>2, <1>7, CellFacts, HeapFields DEF Nodes
  <2>2. \A c \in Nodes(h, other) \cup {other} :
           c \in Cells /\ c # n /\ c # h.prev[n] /\ c # h.next[n]
    BY <1>1, <1>3, <1>9, CellFacts, HeapFields DEF Nodes, N
  <2>3. \A c \in Nodes(h, other) \cup {other} :
           g.next[c] = h.next[c] /\ g.prev[c] = h.prev[c]
    BY <1>1, <1>7, <2>2, HeapFields
  <2> QED BY <1>1, <1>6, <1>7, <2>1, <2>3, OrderedFrame
<1>16. InOrder(g, P, rank)
  BY <1>6, <1>14, <1>15 DEF InOrder
<1>17. g.next[head] = IF h.next[head] = n THEN h.next[n] ELSE h.next[head]
  BY <1>2, <1>11, <1>12
<1> QED BY <1>7, <1>10, <1>15, <1>16, <1>17 DEF g, N

(* Where a node belongs in a list: c is the node it goes before, or the head.
   r is the rank of its packet. *)
IsPlace(h, head, rank, c, r) ==
    LET nodes == Nodes(h, head)
    IN  /\ c \in nodes \cup {head}
        /\ c \in nodes => r < rank[h.packet[c]]
        /\ \A m \in nodes : \/ rank[h.packet[m]] < r
                            \/ c \in nodes /\ rank[h.packet[c]] <= rank[h.packet[m]]

(* Both insertions: the list with a node that was on none. *)
LEMMA LinkKeeps ==
    ASSUME NumNodes \in Nat, NEW P, NEW rank \in [P -> Int], NEW h,
           InOrder(h, P, rank), NEW head \in Heads,
           NEW n \in h.used, h.head[n] = NULL,
           NEW c, IsPlace(h, head, rank, c, rank[h.packet[n]])
    PROVE  LET g == LinkBefore(h, head, c, n)
           IN  /\ InOrder(g, P, rank)
               /\ Nodes(g, head) = Nodes(h, head) \cup {n}
               /\ \A other \in Heads \ {head} : /\ Nodes(g, other) = Nodes(h, other)
                                                /\ g.next[other] = h.next[other]
               /\ g.packet = h.packet /\ g.used = h.used
               /\ g.head = [h.head EXCEPT ![n] = head]
               /\ g.length[head] = h.length[head] + 1
<1> DEFINE g == LinkBefore(h, head, c, n)
           N == Nodes(h, head)
           M == N \cup {n}
           key(m) == rank[h.packet[m]]
           before == h.prev[c]
<1>1. /\ h \in Heap(P) /\ n \in Addresses /\ \A d \in Heads : Ordered(h, d, rank)
  BY HeapFields DEF InOrder
<1>2. /\ n \in Cells /\ n \notin Heads /\ n # NULL /\ NULL \in Cells /\ head \in Cells
      /\ head # NULL /\ head # n
  BY <1>1, CellFacts
<1>3. /\ N \in SUBSET Addresses /\ n \notin N
      /\ \A m \in N : m \in Cells /\ m \notin Heads /\ m # n
  BY <1>1, <1>2, HeapFields, CellFacts DEF Nodes
<1>4. /\ Linked(h, N \cup {head}) /\ h.length[head] = Cardinality(N)
      /\ \A m, o \in N : key(m) = key(o) => m = o
      /\ \A m \in N : h.next[m] \in N => key(m) < key(h.next[m])
      /\ \A d \in N \cup {head}, m \in N :
            d = head \/ key(d) < key(m) => h.next[d] \in N /\ key(h.next[d]) <= key(m)
  BY <1>1 DEF Ordered
<1>5. key(n) \in Int /\ \A m \in N : key(m) \in Int
  BY <1>1, <1>3, HeapFields
<1>6. /\ c \in N \cup {head} /\ (c \in N => key(n) < key(c))
      /\ \A m \in N : key(m) < key(n) \/ (c \in N /\ key(c) <= key(m))
  BY DEF IsPlace
<1> HIDE DEF key, N
<1>7. /\ g \in Heap(P) /\ Linked(g, M \cup {head})
      /\ g.length[head] = h.length[head] + 1
  <2> DEFINE S == N \cup {head}
  <2>1. /\ S \in SUBSET (Heads \cup Addresses) /\ n \in Addresses \ S /\ c \in S
        /\ S \cup {n} = M \cup {head}
    BY <1>1, <1>2, <1>3, <1>6
  <2> HIDE DEF S
  <2>2. Linked(h, S)
    BY <1>4 DEF S
  <2> QED BY <1>1, <2>1, <2>2, LinkBeforeKeepsLinks
<1>8. /\ g.packet = h.packet /\ g.used = h.used /\ g.head = [h.head EXCEPT ![n] = head]
      /\ g.next = [h.next EXCEPT ![before] = n, ![n] = c]
      /\ g.prev = [h.prev EXCEPT ![c] = n, ![n] = before]
      /\ g.length = [h.length EXCEPT ![head] = @ + 1]
  BY <1>1, <1>2 DEF LinkBefore, Heap
<1> HIDE DEF g
<1>9. /\ before \in N \cup {head} /\ h.next[before] = c /\ before # n /\ c # n
      /\ \A d \in N \cup {head} : h.next[d] \in N \cup {head} /\ h.prev[h.next[d]] = d
  BY <1>2, <1>3, <1>4, <1>6 DEF Linked
<1>10. Nodes(g, head) = M
  BY <1>1, <1>2, <1>8, CellFacts, HeapFields DEF Nodes, N
<1>11. ASSUME NEW d \in N \cup {head}
       PROVE  g.next[d] = IF d = before THEN n ELSE h.next[d]
  BY <1>1, <1>2, <1>3, <1>8, <1>9, HeapFields
<1>12. g.next[n] = c
  BY <1>1, <1>2, <1>8, HeapFields
<1>13. ASSUME NEW d \in N \cup {head}, d # before PROVE h.next[d] # c
  BY <1>9, <1>13
<1> HIDE DEF before
<1>14. Ordered(g, head, rank)
  <2>1. \A m, o \in M : key(m) = key(o) => m = o
    <3>1. ASSUME NEW m \in N PROVE key(m) # key(n)
      <4>1. CASE key(m) < key(n)
        BY <1>5, <4>1
      <4>2. CASE c \in N /\ key(c) <= key(m)
        BY <1>5, <1>6, <4>2
      <4> QED BY <1>6, <4>1, <4>2
    <3> QED BY <1>4, <3>1
  <2>2. ASSUME NEW m \in M, g.next[m] \in M PROVE key(m) < key(g.next[m])
    <3>1. CASE m = n
      BY <1>6, <1>9, <1>12, <2>2, <3>1
    <3>2. CASE m \in N /\ m = before
      <4>1. c \in N => key(m) < key(c)
        BY <1>4, <1>9, <3>2
      <4>2. key(m) < key(n)
        BY <1>5, <1>6, <3>2, <4>1
      <4> QED BY <1>11, <3>2, <4>2
    <3>3. CASE m \in N /\ m # before
      <4>1. g.next[m] = h.next[m] /\ h.next[m] \in N
        BY <1>2, <1>9, <1>11, <2>2, <3>3
      <4> QED BY <1>4, <3>3, <4>1
    <3> QED BY <3>1, <3>2, <3>3
  <2>3. ASSUME NEW d \in M \cup {head}, NEW m \in M, d = head \/ key(d) < key(m)
        PROVE  g.next[d] \in M /\ key(g.next[d]) <= key(m)
    <3>1. CASE d = n
      <4>1. m \in N /\ key(n) < key(m)
        BY <1>2, <1>5, <2>3, <3>1
      <4>2. c \in N /\ key(c) <= key(m)
        BY <1>5, <1>6, <4>1
      <4> QED BY <1>12, <3>1, <4>2
    <3>2. CASE d # n /\ d = before
      <4>1. g.next[d] = n /\ d \in N \cup {head}
        BY <1>9, <1>11, <3>2
      <4>2. CASE m = n
        BY <1>5, <4>1, <4>2
      <4>3. CASE m \in N
        <5>1. c \in N /\ key(c) <= key(m)
          BY <1>4, <1>9, <2>3, <3>2, <4>1, <4>3
        <5> QED BY <1>5, <1>6, <4>1, <4>3, <5>1
      <4> QED BY <4>2, <4>3
    <3>3. CASE d # n /\ d # before
      <4>1. g.next[d] = h.next[d] /\ d \in N \cup {head} /\ h.next[d] # c
        BY <1>11, <1>13, <3>3
      <4>2. CASE m \in N
        BY <1>4, <2>3, <4>1, <4>2
      <4>3. CASE m = n /\ c \in N
        <5>1. d = head \/ key(d) < key(c)
          <6>1. d \in N => key(d) \in Int
            BY <1>5
          <6> QED BY <1>5, <1>6, <2>3, <4>1, <4>3, <6>1
        <5>2. h.next[d] \in N /\ key(h.next[d]) <= key(c)
          BY <1>4, <4>1, <4>3, <5>1
        <5>3. key(h.next[d]) # key(c)
          BY <1>4, <4>1, <4>3, <5>2
        <5>4. key(h.next[d]) < key(n)
          BY <1>5, <1>6, <4>3, <5>2, <5>3
        <5> QED BY <1>5, <4>1, <4>3, <5>2, <5>4
      <4>4. CASE m = n /\ c = head
        <5>1. h.next[d] \in N /\ c \notin N
          BY <1>3, <1>9, <4>1, <4>4
        <5>2. key(h.next[d]) < key(n)
          BY <1>6, <5>1
        <5> QED BY <1>5, <4>1, <4>4, <5>1, <5>2
      <4> QED BY <1>6, <4>2, <4>3, <4>4
    <3> QED BY <3>1, <3>2, <3>3
  <2>4. g.length[head] = Cardinality(M)
    <3>1. IsFiniteSet(N) /\ Cardinality(M) = Cardinality(N) + 1
      BY <1>3, NodesFinite, FS_AddElement
    <3> QED BY <1>4, <1>7, <3>1
  <2>5. \A m \in M : rank[g.packet[m]] = key(m)
    BY <1>8 DEF key
  <2>6. \A d \in M \cup {head} : g.next[d] \in M \cup {head}
    BY <1>7 DEF Linked
  <2>7. /\ \A m, o \in M : rank[g.packet[m]] = rank[g.packet[o]] => m = o
        /\ \A m \in M : g.next[m] \in M => rank[g.packet[m]] < rank[g.packet[g.next[m]]]
        /\ \A d \in M \cup {head}, m \in M :
              d = head \/ rank[g.packet[d]] < rank[g.packet[m]]
                => g.next[d] \in M /\ rank[g.packet[g.next[d]]] <= rank[g.packet[m]]
    BY <2>1, <2>2, <2>3, <2>5
  <2> QED BY <1>7, <1>10, <2>4, <2>7 DEF Ordered
<1>15. ASSUME NEW other \in Heads \ {head}
       PROVE  /\ Nodes(g, other) = Nodes(h, other) /\ Ordered(g, other, rank)
              /\ g.next[other] = h.next[other]
  <2>1. Nodes(g, other) = Nodes(h, other)
    BY <1>1, <1>2, <1>8, CellFacts, HeapFields DEF Nodes
  <2>2. \A d \in Nodes(h, other) \cup {other} :
           d \in Cells /\ d # n /\ d # before /\ d # c
    BY <1>1, <1>2, <1>3, <1>6, <1>9, CellFacts, HeapFields DEF Nodes, N
  <2>3. \A d \in Nodes(h, other) \cup {other} :
           g.next[d] = h.next[d] /\ g.prev[d] = h.prev[d]
    BY <1>1, <1>8, <2>2, HeapFields
  <2>4. g.length[other] = h.length[other]
    BY <1>1, <1>8, CellFacts, HeapFields
  <2> QED BY <1>1, <1>8, <2>1, <2>3, <2>4, OrderedFrame
<1>16. InOrder(g, P, rank)
  BY <1>7, <1>14, <1>15 DEF InOrder
<1> QED BY <1>7, <1>8, <1>10, <1>15, <1>16 DEF g, N

-----------------------------------------------------------------------------
(* The lists as sets of packets. *)

(* A list holds as many packets as it has nodes. *)
LEMMA ContentsCount ==
    ASSUME NumNodes \in Nat, NEW P, NEW rank, NEW h, InOrder(h, P, rank),
           NEW head \in Heads
    PROVE  LET packets == Contents(h, head)
           IN  /\ IsFiniteSet(packets) /\ Cardinality(packets) \in Nat
               /\ Cardinality(packets) = Cardinality(Nodes(h, head))
               /\ Cardinality(packets) = h.length[head]
               /\ \A m, n \in Nodes(h, head) : h.packet[m] = h.packet[n] => m = n
<1> DEFINE N == Nodes(h, head)
           packets == Contents(h, head)
           f == [n \in N |-> h.packet[n]]
<1>1. /\ N \in SUBSET Addresses /\ h.length[head] = Cardinality(N)
      /\ \A m, n \in N : rank[h.packet[m]] = rank[h.packet[n]] => m = n
  BY HeapFields DEF InOrder, Ordered, Nodes
<1>2. IsFiniteSet(N) /\ Cardinality(N) \in Nat
  BY <1>1, NodesFinite
<1>3. f \in Bijection(N, packets)
  <2>1. /\ f \in [N -> packets]
        /\ \A p \in packets : \E n \in N : f[n] = p
        /\ \A m, n \in N : f[m] = f[n] => m = n
    BY <1>1 DEF Contents
  <2> HIDE DEF f, N, packets
  <2> QED BY <2>1 DEF Bijection, Injection, Surjection, IsInjective
<1> HIDE DEF f
<1>4. ExistsBijection(N, packets)
  BY <1>3 DEF ExistsBijection
<1>5. IsFiniteSet(packets) /\ Cardinality(packets) = Cardinality(N)
  <2> HIDE DEF N, packets
  <2> QED BY <1>2, <1>4, FS_Bijection
<1> QED BY <1>1, <1>2, <1>5

(* The nodes in use are those of the two lists. *)
LEMMA UsedFacts ==
    ASSUME NumNodes \in Nat, NEW P, NEW rank, NEW h, Sound(h, P, rank)
    PROVE  /\ h.used = Nodes(h, ToSendHead) \cup Nodes(h, ToAckHead)
           /\ IsFiniteSet(h.used)
           /\ Cardinality(h.used) <= Cardinality(Contents(h, ToSendHead))
                                       + Cardinality(Contents(h, ToAckHead))
<1>1. h.used \in SUBSET Addresses
  BY HeapFields DEF Sound, InOrder
<1>2. h.used = Nodes(h, ToSendHead) \cup Nodes(h, ToAckHead)
  BY <1>1, CellFacts DEF Sound, AllListed, Nodes
<1>3. \A head \in Heads : Nodes(h, head) \in SUBSET Addresses
  BY <1>1 DEF Nodes
<1>4. /\ IsFiniteSet(Nodes(h, ToSendHead)) /\ IsFiniteSet(Nodes(h, ToAckHead))
  BY <1>3, CellFacts, NodesFinite
<1>5. /\ IsFiniteSet(h.used)
      /\ Cardinality(h.used) = Cardinality(Nodes(h, ToSendHead))
             + Cardinality(Nodes(h, ToAckHead))
             - Cardinality(Nodes(h, ToSendHead) \cap Nodes(h, ToAckHead))
  BY <1>2, <1>4, FS_Union
<1>6. Nodes(h, ToSendHead) \cap Nodes(h, ToAckHead) = {}
  BY CellFacts DEF Nodes
<1>7. \A head \in Heads : Cardinality(Contents(h, head)) = Cardinality(Nodes(h, head))
  BY ContentsCount DEF Sound
<1>8. /\ Cardinality(Nodes(h, ToSendHead)) \in Nat
      /\ Cardinality(Nodes(h, ToAckHead)) \in Nat
  BY <1>3, CellFacts, NodesFinite
<1>9. Cardinality(h.used) = Cardinality(Contents(h, ToSendHead))
                             + Cardinality(Contents(h, ToAckHead))
  BY <1>5, <1>6, <1>7, <1>8, CellFacts, FS_EmptySet
<1>10. Cardinality(h.used) \in Nat
  BY <1>5, FS_CardinalityType
<1> QED BY <1>2, <1>5, <1>9, <1>10

(* malloc returns a node that is not in use, while there is one. *)
LEMMA FreshFacts ==
    ASSUME NumNodes \in Nat, NEW P, NEW rank, NEW h, Sound(h, P, rank),
           Cardinality(Contents(h, ToSendHead))
              + Cardinality(Contents(h, ToAckHead)) < NumNodes
    PROVE  FreshNode(h) \in Addresses \ h.used
<1>1. /\ h.used \in SUBSET Addresses /\ IsFiniteSet(h.used)
      /\ Cardinality(h.used) < NumNodes
  <2>1. /\ h.used \in SUBSET Addresses /\ IsFiniteSet(h.used)
        /\ Cardinality(h.used) <= Cardinality(Contents(h, ToSendHead))
                                    + Cardinality(Contents(h, ToAckHead))
    BY UsedFacts, HeapFields DEF Sound, InOrder
  <2>2. /\ Cardinality(h.used) \in Nat /\ Cardinality(Contents(h, ToSendHead)) \in Nat
        /\ Cardinality(Contents(h, ToAckHead)) \in Nat
    BY <2>1, FS_CardinalityType, ContentsCount, CellFacts DEF Sound
  <2> QED BY <2>1, <2>2
<1>2. Cardinality(Addresses) = NumNodes
  BY FS_Interval DEF Addresses
<1>3. Addresses \ h.used # {}
  <2> SUFFICES ASSUME Addresses \ h.used = {} PROVE FALSE
    OBVIOUS
  <2>1. h.used = Addresses
    BY <1>1
  <2>2. Cardinality(Addresses) < NumNodes
    BY <1>1, <2>1
  <2> QED BY <1>2, <2>2
<1>4. Addresses \ h.used \in SUBSET Nat
  BY DEF Addresses
<1> QED BY <1>3, <1>4, MinFacts DEF FreshNode

(* A node whose packet has the right place joins the packets of a list. *)
LEMMA LinkContents ==
    ASSUME NumNodes \in Nat, NEW P, NEW rank \in [P -> Int], NEW h,
           InOrder(h, P, rank), NEW head \in Heads,
           NEW n \in h.used, h.head[n] = NULL,
           \A m \in h.used \ {n} : h.head[m] \in Heads,
           \A m \in Addresses \ h.used : h.head[m] = NULL,
           NEW c, IsPlace(h, head, rank, c, rank[h.packet[n]])
    PROVE  LET g == LinkBefore(h, head, c, n)
           IN  /\ Sound(g, P, rank)
               /\ Contents(g, head) = Contents(h, head) \cup {h.packet[n]}
               /\ \A other \in Heads \ {head} : /\ Contents(g, other) = Contents(h, other)
                                                /\ Nodes(g, other) = Nodes(h, other)
               /\ g.packet = h.packet
               /\ g.length[head] # h.length[head]
<1> DEFINE g == LinkBefore(h, head, c, n)
<1>1. /\ InOrder(g, P, rank)
      /\ Nodes(g, head) = Nodes(h, head) \cup {n}
      /\ \A other \in Heads \ {head} : Nodes(g, other) = Nodes(h, other)
      /\ g.packet = h.packet /\ g.used = h.used
      /\ g.head = [h.head EXCEPT ![n] = head]
      /\ g.length[head] = h.length[head] + 1
  BY LinkKeeps
<1> HIDE DEF g
<1>2. AllListed(g)
  BY <1>1, CellFacts, HeapFields DEF InOrder, AllListed
<1>3. h.length[head] \in Int
  BY HeapFields, CellFacts DEF InOrder
<1> QED BY <1>1, <1>2, <1>3 DEF Sound, Contents, g

(* allocHead: two empty lists. *)
THEOREM EmptyHeapSound ==
    ASSUME NumNodes \in Nat, NEW P, NEW rank, NEW p \in P
    PROVE  LET h == EmptyHeap(p)
           IN  /\ Sound(h, P, rank)
               /\ \A head \in Heads : Contents(h, head) = {}
<1> DEFINE h == EmptyHeap(p)
<1>1. /\ h.next = [c \in Cells |-> IF c \in Heads THEN c ELSE NULL]
      /\ h.prev = [c \in Cells |-> IF c \in Heads THEN c ELSE NULL]
      /\ h.head = [c \in Cells |-> NULL]
      /\ h.length = [c \in Cells |-> IF c \in Heads THEN 0 ELSE -1]
      /\ h.used = {}
  BY DEF EmptyHeap
<1>2. h \in Heap(P)
  BY CellFacts DEF EmptyHeap, Heap
<1> HIDE DEF h
<1>3. ASSUME NEW head \in Heads
      PROVE  Ordered(h, head, rank) /\ Contents(h, head) = {}
  <2>1. Nodes(h, head) = {} /\ Contents(h, head) = {}
    BY <1>1 DEF Nodes, Contents
  <2>2. Linked(h, {head}) /\ h.length[head] = 0
    BY <1>1, CellFacts DEF Linked
  <2> QED BY <2>1, <2>2, FS_EmptySet, CellFacts DEF Ordered
<1>4. AllListed(h)
  BY <1>1, CellFacts DEF AllListed
<1> QED BY <1>2, <1>3, <1>4 DEF Sound, InOrder, h

(* allocNode and appendNode, of a packet that ranks above those of the list. *)
THEOREM AppendSound ==
    ASSUME NumNodes \in Nat, NEW P, NEW rank \in [P -> Int], NEW h,
           Sound(h, P, rank), NEW head \in Heads, NEW p \in P,
           \A q \in Contents(h, head) : rank[q] < rank[p],
           Cardinality(Contents(h, ToSendHead))
              + Cardinality(Contents(h, ToAckHead)) < NumNodes
    PROVE  LET g == AppendNode(AllocNode(h, p), head, FreshNode(h))
           IN  /\ Sound(g, P, rank)
               /\ Contents(g, head) = Contents(h, head) \cup {p}
               /\ \A other \in Heads \ {head} : Contents(g, other) = Contents(h, other)
<1> DEFINE n == FreshNode(h)
           a == AllocNode(h, p)
<1>1. n \in Addresses \ h.used
  BY FreshFacts
<1>2. /\ InOrder(a, P, rank)
      /\ n \in a.used /\ a.head[n] = NULL /\ a.packet[n] = p
      /\ a.used = h.used \cup {n} /\ a.head = h.head
      /\ \A other \in Heads : /\ Nodes(a, other) = Nodes(h, other)
                              /\ Contents(a, other) = Contents(h, other)
  BY <1>1, AllocKeeps
<1> HIDE DEF a, n
<1>3. \A m \in Addresses : IF m \in h.used THEN h.head[m] \in Heads ELSE h.head[m] = NULL
  BY DEF Sound, AllListed
<1>4. IsPlace(a, head, rank, head, rank[a.packet[n]])
  <2>1. head \notin Nodes(a, head)
    BY <1>2, CellFacts, HeapFields DEF InOrder, Nodes
  <2>2. \A m \in Nodes(a, head) : rank[a.packet[m]] < rank[p]
    BY <1>2 DEF Contents
  <2> QED BY <1>2, <2>1, <2>2 DEF IsPlace
<1>5. /\ \A m \in a.used \ {n} : a.head[m] \in Heads
      /\ \A m \in Addresses \ a.used : a.head[m] = NULL
  BY <1>2, <1>3, HeapFields DEF Sound, InOrder
<1> QED BY <1>2, <1>4, <1>5, LinkContents DEF AppendNode, a, n
=============================================================================
