-------------------------- MODULE PacketWalk_proofs -------------------------
(***************************************************************************)
(* What a walk along the packet lists meets, for lists of any length: the  *)
(* nodes of the list, each once and in order.  From this follow the search *)
(* for an id, the place of an insertion and what forEach visits.           *)
(***************************************************************************)
EXTENDS PacketList_proofs

(* Induction, with the set of the numbers for which a formula holds in the
   place of the formula. *)
LEMMA Induction ==
    ASSUME NEW S, 0 \in S, \A n \in Nat : n \in S => n + 1 \in S
    PROVE  Nat \subseteq S
<1> SUFFICES ASSUME NEW z \in Nat, z \notin S PROVE FALSE
  OBVIOUS
<1> DEFINE T == {n \in Nat : n \notin S}
<1>1. PICK x \in T : \A y \in T : x <= y
  <2>1. T \in SUBSET Nat /\ T # {}
    OBVIOUS
  <2> HIDE DEF T
  <2> QED BY <2>1, LeastExists
<1>2. x - 1 \in Nat /\ x - 1 \notin T
  BY <1>1
<1> QED BY <1>2

(* f is the walk of n steps along a link, from e on. *)
Walk(e, link, n, f) == f = [k \in 0 .. n |-> IF k = 0 THEN e ELSE link[f[k - 1]]]

(* There is such a function. *)
LEMMA WalkExists ==
    ASSUME NEW S, NEW link, \A c \in S : link[c] \in S, NEW e \in S, NEW n \in Nat
    PROVE  \E f \in [0 .. n -> S] : Walk(e, link, n, f)
<1> DEFINE Good(m) == \E f \in [0 .. m -> S] : Walk(e, link, m, f)
           T == {m \in Nat : Good(m)}
<1>1. Good(0)
  <2>1. [k \in 0 .. 0 |-> e] \in [0 .. 0 -> S]
    OBVIOUS
  <2>2. [k \in 0 .. 0 |-> e]
          = [k \in 0 .. 0 |-> IF k = 0 THEN e ELSE link[[i \in 0 .. 0 |-> e][k - 1]]]
    OBVIOUS
  <2> QED BY <2>1, <2>2 DEF Walk
<1>2. ASSUME NEW m \in Nat, Good(m) PROVE Good(m + 1)
  <2>1. PICK f \in [0 .. m -> S] :
              f = [k \in 0 .. m |-> IF k = 0 THEN e ELSE link[f[k - 1]]]
    BY <1>2 DEF Walk
  <2> DEFINE g == [k \in 0 .. m + 1 |-> IF k <= m THEN f[k] ELSE link[f[m]]]
  <2>2. g \in [0 .. m + 1 -> S]
    BY <2>1
  <2>3. g = [k \in 0 .. m + 1 |-> IF k = 0 THEN e ELSE link[g[k - 1]]]
    BY <2>1
  <2> HIDE DEF g
  <2> QED BY <2>2, <2>3 DEF Walk
<1> HIDE DEF Good
<1>3. 0 \in T /\ \A m \in Nat : m \in T => m + 1 \in T
  BY <1>1, <1>2
<1>4. n \in T
  <2> HIDE DEF T
  <2> QED BY <1>3, Induction
<1>5. Good(n)
  BY <1>4
<1> QED BY <1>5 DEF Good

(* What the recursive function of a walk is. *)
LEMMA WalkFacts ==
    ASSUME NEW S, NEW link, \A c \in S : link[c] \in S, NEW e \in S, NEW n \in Nat,
           NEW at, Walk(e, link, n, at)
    PROVE  /\ at[0] = e
           /\ \A k \in 0 .. n : at[k] \in S
           /\ \A k \in 1 .. n : at[k] = link[at[k - 1]]
<1>2. at[0] = e /\ \A k \in 1 .. n : at[k] = link[at[k - 1]]
  <2>1. /\ 0 \in 0 .. n
        /\ \A k \in 1 .. n : k \in 0 .. n /\ k # 0
    OBVIOUS
  <2> QED BY <2>1 DEF Walk
<1> DEFINE T == {k \in Nat : k <= n => at[k] \in S}
<1>3. 0 \in T
  BY <1>2
<1>4. ASSUME NEW k \in Nat, k \in T PROVE k + 1 \in T
  <2>1. CASE k + 1 <= n
    <3>1. at[k] \in S /\ at[k + 1] = link[at[k]]
      BY <1>2, <1>4, <2>1
    <3> QED BY <3>1
  <2>2. CASE ~(k + 1 <= n)
    BY <2>2
  <2> QED BY <2>1, <2>2
<1>5. Nat \subseteq T
  <2> HIDE DEF T
  <2> QED BY <1>3, <1>4, Induction
<1> QED BY <1>2, <1>5

(* A number that grows from one place to the next grows over any distance. *)
LEMMA GrowsOverall ==
    ASSUME NEW m \in Nat, NEW v, \A i \in 1 .. m : v[i] \in Int,
           \A i \in 1 .. m - 1 : v[i] < v[i + 1],
           NEW i \in 1 .. m, NEW j \in 1 .. m, i < j
    PROVE  v[i] < v[j]
<1> DEFINE T == {d \in Nat : i + d + 1 <= m => v[i] < v[i + d + 1]}
<1>1. 0 \in T
  OBVIOUS
<1>2. ASSUME NEW d \in Nat, d \in T PROVE d + 1 \in T
  <2>1. CASE i + d + 2 <= m
    <3>1. v[i] < v[i + d + 1] /\ v[i + d + 1] < v[i + d + 2]
      BY <1>2, <2>1
    <3>2. v[i] \in Int /\ v[i + d + 1] \in Int /\ v[i + d + 2] \in Int
      BY <2>1
    <3> QED BY <3>1, <3>2
  <2>2. CASE ~(i + d + 2 <= m)
    BY <2>2
  <2> QED BY <2>1, <2>2
<1>3. j - i - 1 \in T
  <2>1. j - i - 1 \in Nat
    OBVIOUS
  <2> HIDE DEF T
  <2> QED BY <1>1, <1>2, <2>1, Induction
<1> QED BY <1>3

-----------------------------------------------------------------------------
(* A link that leads from the head and from each node of N to the next one
   in the order of key. *)
Leads(link, head, N, key) ==
    /\ \A c \in N \cup {head} : link[c] \in N \cup {head}
    /\ \A m, n \in N : key[m] = key[n] => m = n
    /\ \A n \in N : link[n] \in N => key[n] < key[link[n]]
    /\ \A c \in N \cup {head}, n \in N :
          c = head \/ key[c] < key[n] => link[c] \in N /\ key[link[c]] <= key[n]

(* A walk along such a link meets each node once, in order, and then the
   head. *)
THEOREM ChainFacts ==
    ASSUME NumNodes \in Nat, NEW link, NEW head \in Heads,
           NEW N \in SUBSET Addresses, NEW key \in [N -> Int],
           Leads(link, head, N, key)
    PROVE  LET s == Chain(head, link)
               l == Cardinality(N)
           IN  /\ IsFiniteSet(N) /\ l \in Nat /\ l <= NumNodes
               /\ s \in [1 .. l -> N]
               /\ \A i, j \in 1 .. l : i < j => key[s[i]] < key[s[j]]
               /\ \A n \in N : \E i \in 1 .. l : s[i] = n
               /\ \A i \in 1 .. l : s[i] = IF i = 1 THEN link[head] ELSE link[s[i - 1]]
               /\ l = 0 => link[head] = head
               /\ l > 0 => link[s[l]] = head
<1> DEFINE C == N \cup {head}
           s == Chain(head, link)
<1>1. head \notin N /\ head \in C /\ \A c \in C : link[c] \in C
  BY DEF Leads, Addresses, Heads, ToSendHead, ToAckHead
<1> DEFINE at == CHOOSE f : Walk(head, link, NumNodes + 1, f)
           back == {k \in 1 .. NumNodes + 1 : at[k] = head}
           m == Min(back \cup {NumNodes + 2})
<1>2. s = [k \in 1 .. m - 1 |-> at[k]]
  BY DEF Chain, Walk
<1> HIDE DEF s
<1>3. Walk(head, link, NumNodes + 1, at)
  <2>1. NumNodes + 1 \in Nat
    OBVIOUS
  <2>2. \E f : Walk(head, link, NumNodes + 1, f)
    <3> HIDE DEF C
    <3> QED BY <1>1, <2>1, WalkExists
  <2> QED BY <2>2
<1> HIDE DEF at
<1>4. /\ at[0] = head
      /\ \A k \in 0 .. NumNodes + 1 : at[k] \in C
      /\ \A k \in 1 .. NumNodes + 1 : at[k] = link[at[k - 1]]
  <2> DEFINE n == NumNodes + 1
  <2>1. n \in Nat /\ Walk(head, link, n, at)
    BY <1>3
  <2> HIDE DEF C, n
  <2>2. at[0] = head
    <3>1. 0 \in 0 .. n
      BY <2>1
    <3> QED BY <2>1, <3>1, Zenon DEF Walk
  <2>3. \A k \in 0 .. n : at[k] \in C
    BY <1>1, <2>1, WalkFacts
  <2>4. \A k \in 1 .. n : at[k] = link[at[k - 1]]
    BY <1>1, <2>1, WalkFacts
  <2> QED BY <2>2, <2>3, <2>4 DEF n
<1>5. /\ m \in 1 .. NumNodes + 2 /\ (m = NumNodes + 2 \/ at[m] = head)
      /\ \A k \in 1 .. m - 1 : at[k] \in N
  <2>1. back \cup {NumNodes + 2} \in SUBSET Nat /\ back \cup {NumNodes + 2} # {}
    OBVIOUS
  <2>2. m \in back \cup {NumNodes + 2} /\ \A k \in back \cup {NumNodes + 2} : m <= k
    <3> HIDE DEF back
    <3> QED BY <2>1, MinFacts
  <2> HIDE DEF m
  <2>3. m \in 1 .. NumNodes + 2 /\ (m = NumNodes + 2 \/ at[m] = head)
    BY <2>2
  <2>4. ASSUME NEW k \in 1 .. m - 1 PROVE at[k] \in N
    <3>1. k \in 1 .. NumNodes + 1 /\ k \notin back
      BY <2>2, <2>3
    <3>2. at[k] # head
      BY <3>1
    <3> QED BY <1>4, <3>1, <3>2
  <2> QED BY <2>3, <2>4
<1> HIDE DEF m, back
<1>6. \A i, j \in 1 .. m - 1 : i < j => key[at[i]] < key[at[j]]
  <2> DEFINE v == [i \in 1 .. m - 1 |-> key[at[i]]]
  <2>1. m - 1 \in Nat /\ \A i \in 1 .. m - 1 : v[i] \in Int
    BY <1>5
  <2>2. \A i \in 1 .. m - 1 - 1 : v[i] < v[i + 1]
    <3> SUFFICES ASSUME NEW i \in 1 .. m - 1 - 1 PROVE key[at[i]] < key[at[i + 1]]
      BY <1>5
    <3>1. at[i] \in N /\ at[i + 1] \in N /\ at[i + 1] = link[at[i]]
      BY <1>4, <1>5
    <3> QED BY <3>1 DEF Leads
  <2>3. ASSUME NEW i \in 1 .. m - 1, NEW j \in 1 .. m - 1, i < j PROVE v[i] < v[j]
    <3> HIDE DEF v
    <3> QED BY <2>1, <2>2, <2>3, GrowsOverall
  <2> QED BY <2>3
<1>7. /\ IsFiniteSet(N) /\ Cardinality(N) \in Nat /\ Cardinality(N) <= NumNodes
  <2>1. /\ IsFiniteSet(1 .. NumNodes) /\ Cardinality(1 .. NumNodes) = NumNodes
    BY FS_Interval
  <2>2. /\ IsFiniteSet(N) /\ Cardinality(N) <= Cardinality(1 .. NumNodes)
    BY <2>1, FS_Subset DEF Addresses
  <2> QED BY <2>1, <2>2, FS_CardinalityType
<1>8. m # NumNodes + 2 /\ at[m] = head
  <2> SUFFICES ASSUME m = NumNodes + 2 PROVE FALSE
    BY <1>5
  <2> DEFINE f == [i \in 1 .. NumNodes + 1 |-> at[i]]
  <2>1. f \in [1 .. NumNodes + 1 -> N]
    BY <1>5
  <2>2. IsFiniteSet(1 .. NumNodes + 1) /\ Cardinality(1 .. NumNodes + 1) = NumNodes + 1
    BY FS_Interval
  <2>3. PICK i, j \in 1 .. NumNodes + 1 : i # j /\ f[i] = f[j]
    <3> HIDE DEF f
    <3> QED BY <1>7, <2>1, <2>2, FS_PigeonHole
  <2>4. key[at[i]] = key[at[j]] /\ key[at[i]] \in Int
    BY <2>1, <2>3
  <2>5. CASE i < j
    BY <1>6, <2>4, <2>5
  <2>6. CASE j < i
    BY <1>6, <2>4, <2>6
  <2> QED BY <2>3, <2>5, <2>6
<1>9. \A n \in N : \E i \in 1 .. m - 1 : at[i] = n
  <2> SUFFICES ASSUME NEW n \in N PROVE \E i \in 1 .. m - 1 : at[i] = n
    OBVIOUS
  <2> DEFINE T == {j \in 1 .. m : j = m \/ key[n] < key[at[j]]}
  <2>1. PICK j \in T : \A k \in T : j <= k
    <3>1. T \in SUBSET Nat /\ m \in T
      BY <1>5
    <3> HIDE DEF T
    <3> QED BY <3>1, LeastExists
  <2>2. j - 1 \in 0 .. m - 1 /\ j - 1 \notin T
    BY <1>5, <2>1
  <2>3. at[j] = link[at[j - 1]]
    BY <1>4, <1>5, <1>8, <2>2
  <2>4. CASE j - 1 = 0
    <3>1. at[j] \in N /\ key[at[j]] <= key[n]
      BY <1>4, <2>3, <2>4 DEF Leads
    <3>2. key[at[j]] \in Int /\ key[n] \in Int
      BY <3>1
    <3> QED BY <1>1, <1>8, <2>1, <3>1, <3>2
  <2>5. CASE j - 1 # 0
    <3>1. j - 1 \in 1 .. m - 1 /\ at[j - 1] \in N /\ ~(key[n] < key[at[j - 1]])
      BY <1>5, <2>2, <2>5
    <3>2. key[n] \in Int /\ key[at[j - 1]] \in Int
      BY <3>1
    <3>3. CASE key[at[j - 1]] = key[n]
      BY <3>1, <3>3 DEF Leads
    <3>4. CASE key[at[j - 1]] < key[n]
      <4>1. at[j] \in N /\ key[at[j]] <= key[n]
        BY <2>3, <3>1, <3>4 DEF Leads
      <4>2. key[at[j]] \in Int
        BY <4>1
      <4> QED BY <1>1, <1>8, <2>1, <3>2, <4>1, <4>2
    <3> QED BY <3>1, <3>2, <3>3, <3>4
  <2> QED BY <2>4, <2>5
<1>10. Cardinality(N) = m - 1
  <2> DEFINE f == [i \in 1 .. m - 1 |-> at[i]]
  <2>1. f \in [1 .. m - 1 -> N]
    BY <1>5
  <2>2. \A i, j \in 1 .. m - 1 : f[i] = f[j] => i = j
    <3> SUFFICES ASSUME NEW i \in 1 .. m - 1, NEW j \in 1 .. m - 1, i # j,
                        f[i] = f[j]
                 PROVE  FALSE
      OBVIOUS
    <3>1. key[at[i]] = key[at[j]] /\ key[at[i]] \in Int
      BY <2>1
    <3>2. CASE i < j
      BY <1>6, <3>1, <3>2
    <3>3. CASE j < i
      BY <1>6, <3>1, <3>3
    <3> QED BY <1>5, <3>2, <3>3
  <2>3. f \in Bijection(1 .. m - 1, N)
    <3>1. \A n \in N : \E i \in 1 .. m - 1 : f[i] = n
      BY <1>9
    <3> HIDE DEF f
    <3> QED BY <2>1, <2>2, <3>1
            DEF Bijection, Injection, Surjection, IsInjective
  <2>4. IsFiniteSet(1 .. m - 1) /\ Cardinality(1 .. m - 1) = m - 1
    <3>1. m - 1 \in Nat
      BY <1>5
    <3> QED BY <3>1, FS_Interval
  <2> HIDE DEF f
  <2>5. ExistsBijection(1 .. m - 1, N)
    BY <2>3 DEF ExistsBijection
  <2> QED BY <2>4, <2>5, FS_Bijection
<1>11. s \in [1 .. m - 1 -> N] /\ \A i \in 1 .. m - 1 : s[i] = at[i]
  BY <1>2, <1>5
<1>12. ASSUME NEW i \in 1 .. m - 1
       PROVE  s[i] = IF i = 1 THEN link[head] ELSE link[s[i - 1]]
  <2>3. i \in 1 .. NumNodes + 1 /\ s[i] = at[i]
    BY <1>5, <1>11
  <2>1. s[i] = link[at[i - 1]]
    BY <1>4, <2>3
  <2>2. i # 1 => s[i - 1] = at[i - 1]
    BY <1>5, <1>11
  <2> QED BY <1>4, <2>1, <2>2
<1>13. m - 1 = 0 => link[head] = head
  BY <1>4, <1>8
<1>14. m - 1 > 0 => link[s[m - 1]] = head
  <2> SUFFICES ASSUME m - 1 > 0 PROVE link[s[m - 1]] = head
    OBVIOUS
  <2>1. m \in 1 .. NumNodes + 1 /\ m - 1 \in 1 .. m - 1
    BY <1>5, <1>8
  <2>2. s[m - 1] = at[m - 1]
    BY <1>11, <2>1
  <2> QED BY <1>4, <1>8, <2>1, <2>2
<1> QED BY <1>6, <1>7, <1>9, <1>10, <1>11, <1>12, <1>13, <1>14 DEF s
-----------------------------------------------------------------------------
(* The ranks of the nodes of a list. *)
Keys(h, head, rank) == [n \in Nodes(h, head) |-> rank[h.packet[n]]]

(* In a list that is in order, next leads up and prev leads down. *)
LEMMA OrderLeads ==
    ASSUME NumNodes \in Nat, NEW P, NEW rank \in [P -> Int], NEW h,
           InOrder(h, P, rank), NEW head \in Heads
    PROVE  LET N    == Nodes(h, head)
               key  == Keys(h, head, rank)
               down == [n \in N |-> - key[n]]
           IN  /\ N \in SUBSET Addresses
               /\ key \in [N -> Int] /\ Leads(h.next, head, N, key)
               /\ down \in [N -> Int] /\ Leads(h.prev, head, N, down)
<1> DEFINE N    == Nodes(h, head)
           key  == Keys(h, head, rank)
           down == [n \in N |-> - key[n]]
<1>1. N \in SUBSET Addresses /\ head \notin N
  BY HeapFields, CellFacts DEF InOrder, Nodes
<1>2. key \in [N -> Int] /\ \A n \in N : key[n] = rank[h.packet[n]]
  BY <1>1, HeapFields DEF InOrder, Keys
<1>3. Ordered(h, head, rank)
  BY DEF InOrder
<1>4. /\ \A c \in N \cup {head} : /\ h.next[c] \in N \cup {head}
                                  /\ h.prev[c] \in N \cup {head}
                                  /\ h.next[h.prev[c]] = c
      /\ \A m, n \in N : key[m] = key[n] => m = n
      /\ \A n \in N : h.next[n] \in N => key[n] < key[h.next[n]]
      /\ \A c \in N \cup {head}, n \in N :
            c = head \/ key[c] < key[n] => h.next[c] \in N /\ key[h.next[c]] <= key[n]
  <2>1. Linked(h, N \cup {head})
    BY <1>3 DEF Ordered
  <2>2. \A c \in N \cup {head} : /\ h.next[c] \in N \cup {head}
                                 /\ h.prev[c] \in N \cup {head}
                                 /\ h.next[h.prev[c]] = c
    BY <2>1 DEF Linked
  <2>3. /\ \A m, n \in N : key[m] = key[n] => m = n
        /\ \A n \in N : h.next[n] \in N => key[n] < key[h.next[n]]
    BY <1>2, <1>3 DEF Ordered
  <2>4. ASSUME NEW c \in N \cup {head}, NEW n \in N, c = head \/ key[c] < key[n]
        PROVE  h.next[c] \in N /\ key[h.next[c]] <= key[n]
    BY <1>1, <1>2, <1>3, <2>4 DEF Ordered
  <2> QED BY <2>2, <2>3, <2>4
<1>5. Leads(h.next, head, N, key)
  <2> HIDE DEF N, key
  <2> QED BY <1>4 DEF Leads
<1>6. down \in [N -> Int] /\ \A n \in N : down[n] = - key[n]
  <2> HIDE DEF N, key
  <2> QED BY <1>2
<1>7. Leads(h.prev, head, N, down)
  <2> HIDE DEF N, key, down
  <2>1. \A m, n \in N : down[m] = down[n] => m = n
    BY <1>2, <1>4, <1>6
  <2>2. ASSUME NEW n \in N, h.prev[n] \in N PROVE down[n] < down[h.prev[n]]
    <3>1. key[h.prev[n]] < key[n]
      BY <1>4, <2>2
    <3> QED BY <1>2, <1>6, <2>2, <3>1
  <2>3. ASSUME NEW c \in N \cup {head}, NEW n \in N, c = head \/ down[c] < down[n]
        PROVE  h.prev[c] \in N /\ down[h.prev[c]] <= down[n]
    <3> DEFINE d == h.prev[c]
    <3>1. d \in N \cup {head} /\ h.next[d] = c
      BY <1>4
    <3>2. c \in N => key[n] < key[c]
      BY <1>1, <1>2, <1>6, <2>3
    <3>3. ~(d = head \/ key[d] < key[n])
      <4> SUFFICES ASSUME d = head \/ key[d] < key[n] PROVE FALSE
        OBVIOUS
      <4>1. c \in N /\ key[c] <= key[n]
        BY <1>4, <3>1
      <4> QED BY <1>2, <3>2, <4>1
    <3>4. d \in N /\ key[n] <= key[d]
      BY <1>2, <3>1, <3>3
    <3> QED BY <1>2, <1>6, <3>4
  <2> QED BY <1>4, <2>1, <2>2, <2>3 DEF Leads
<1> QED BY <1>1, <1>2, <1>5, <1>6, <1>7

(* A walk forwards meets the nodes of the list, each once, in the order of
   their ranks. *)
THEOREM ForwardFacts ==
    ASSUME NumNodes \in Nat, NEW P, NEW rank \in [P -> Int], NEW h,
           InOrder(h, P, rank), NEW head \in Heads
    PROVE  LET s == Forward(h, head)
               l == Cardinality(Nodes(h, head))
           IN  /\ l \in Nat /\ l <= NumNodes
               /\ s \in [1 .. l -> Nodes(h, head)]
               /\ \A i, j \in 1 .. l :
                     i < j => rank[h.packet[s[i]]] < rank[h.packet[s[j]]]
               /\ \A n \in Nodes(h, head) : \E i \in 1 .. l : s[i] = n
               /\ \A i \in 1 .. l : s[i] = IF i = 1 THEN h.next[head]
                                                    ELSE h.next[s[i - 1]]
               /\ l = 0 => h.next[head] = head
               /\ l > 0 => h.next[s[l]] = head
<1> DEFINE N == Nodes(h, head)
           key == Keys(h, head, rank)
           l == Cardinality(N)
           s == Chain(head, h.next)
<1>1. N \in SUBSET Addresses /\ key \in [N -> Int] /\ Leads(h.next, head, N, key)
  BY OrderLeads
<1>2. \A n \in N : key[n] = rank[h.packet[n]]
  BY DEF Keys
<1>3. /\ l \in Nat /\ l <= NumNodes
      /\ s \in [1 .. l -> N]
      /\ \A i, j \in 1 .. l : i < j => key[s[i]] < key[s[j]]
      /\ \A n \in N : \E i \in 1 .. l : s[i] = n
      /\ \A i \in 1 .. l : s[i] = IF i = 1 THEN h.next[head] ELSE h.next[s[i - 1]]
      /\ l = 0 => h.next[head] = head
      /\ l > 0 => h.next[s[l]] = head
  <2> HIDE DEF N, key
  <2> QED BY <1>1, ChainFacts
<1>4. \A i \in 1 .. l : key[s[i]] = rank[h.packet[s[i]]]
  <2> HIDE DEF N, key, l, s
  <2> QED BY <1>2, <1>3
<1>5. Forward(h, head) = s
  BY DEF Forward
<1> HIDE DEF N, key, l, s
<1> QED BY <1>3, <1>4, <1>5 DEF N, l

(* A walk backwards meets the same nodes. *)
THEOREM BackwardFacts ==
    ASSUME NumNodes \in Nat, NEW P, NEW rank \in [P -> Int], NEW h,
           InOrder(h, P, rank), NEW head \in Heads
    PROVE  LET s == Backward(h, head)
               l == Cardinality(Nodes(h, head))
           IN  /\ s \in [1 .. l -> Nodes(h, head)]
               /\ \A n \in Nodes(h, head) : \E i \in 1 .. l : s[i] = n
<1> DEFINE N == Nodes(h, head)
           down == [n \in N |-> - Keys(h, head, rank)[n]]
           l == Cardinality(N)
           s == Chain(head, h.prev)
<1>1. N \in SUBSET Addresses /\ down \in [N -> Int] /\ Leads(h.prev, head, N, down)
  BY OrderLeads
<1>2. /\ s \in [1 .. l -> N]
      /\ \A n \in N : \E i \in 1 .. l : s[i] = n
  <2> HIDE DEF N, down
  <2> QED BY <1>1, ChainFacts
<1> QED BY <1>2 DEF Backward

(* The search for the first node of a kind. *)
LEMMA SearchFacts ==
    ASSUME NumNodes \in Nat, NEW P, NEW rank \in [P -> Int], NEW h,
           InOrder(h, P, rank), NEW head \in Heads, NEW id
    PROVE  LET n == SearchNodeById(h, head, id)
           IN  IF \E m \in Nodes(h, head) : h.packet[m].id = id
               THEN n \in Nodes(h, head) /\ h.packet[n].id = id
               ELSE n = NULL
<1> DEFINE s == Forward(h, head)
           N == Nodes(h, head)
           l == Cardinality(N)
           hits == {k \in DOMAIN s : h.packet[s[k]].id = id}
<1>1. /\ l \in Nat /\ s \in [1 .. l -> N] /\ \A n \in N : \E i \in 1 .. l : s[i] = n
  BY ForwardFacts
<1>2. SearchNodeById(h, head, id) = IF hits = {} THEN NULL ELSE s[Min(hits)]
  BY DEF SearchNodeById, FirstWith
<1> HIDE DEF s, N, l
<1>3. hits \in SUBSET Nat /\ DOMAIN s = 1 .. l
  BY <1>1
<1>4. CASE hits = {}
  BY <1>1, <1>2, <1>3, <1>4 DEF N
<1>5. CASE hits # {}
  <2>1. Min(hits) \in hits
    <3> HIDE DEF hits
    <3> QED BY <1>3, <1>5, MinFacts
  <2>2. s[Min(hits)] \in N /\ h.packet[s[Min(hits)]].id = id
    BY <1>1, <2>1
  <2> QED BY <1>2, <1>5, <2>2 DEF N
<1> QED BY <1>4, <1>5

(* insertNodeById, on a list in the order of the ids: nothing happens if the
   id is present; if not, the node goes to its place. *)
LEMMA InsertNodeFacts ==
    ASSUME NumNodes \in Nat, NEW P, NEW rank \in [P -> Int],
           \A p \in P : rank[p] = p.id, NEW h,
           InOrder(h, P, rank), NEW head \in Heads, NEW n \in h.used
    PROVE  LET id == h.packet[n].id
               g  == InsertNodeById(h, head, n)
           IN  IF \E m \in Nodes(h, head) : h.packet[m].id = id
               THEN g = h
               ELSE \E c : /\ IsPlace(h, head, rank, c, rank[h.packet[n]])
                           /\ g = LinkBefore(h, head, c, n)
<1> DEFINE s == Forward(h, head)
           N == Nodes(h, head)
           l == Cardinality(N)
           id == h.packet[n].id
           hits == {k \in DOMAIN s : h.packet[s[k]].id >= id}
           c == IF hits = {} THEN head ELSE s[Min(hits)]
           g == InsertNodeById(h, head, n)
<1>1. /\ l \in Nat /\ s \in [1 .. l -> N] /\ \A m \in N : \E i \in 1 .. l : s[i] = m
      /\ \A i, j \in 1 .. l : i < j => rank[h.packet[s[i]]] < rank[h.packet[s[j]]]
  BY ForwardFacts
<1>2. g = IF c # head /\ h.packet[c].id = id THEN h ELSE LinkBefore(h, head, c, n)
  BY DEF InsertNodeById, FirstWith
<1>3. /\ rank[h.packet[n]] = id /\ id \in Int
      /\ \A m \in N : rank[h.packet[m]] = h.packet[m].id /\ h.packet[m].id \in Int
      /\ head \notin N
  BY HeapFields, CellFacts DEF InOrder, Nodes
<1> HIDE DEF s, N, l, g, id
<1>4. hits \in SUBSET Nat /\ DOMAIN s = 1 .. l
  BY <1>1
<1>5. CASE hits = {}
  <2>1. c = head /\ \A m \in N : h.packet[m].id < id
    BY <1>1, <1>3, <1>4, <1>5
  <2>2. IsPlace(h, head, rank, c, rank[h.packet[n]])
    BY <1>3, <2>1 DEF IsPlace, N
  <2>3. g = LinkBefore(h, head, c, n) /\ ~\E m \in N : h.packet[m].id = id
    BY <1>2, <1>3, <2>1
  <2> HIDE DEF c
  <2> QED BY <2>2, <2>3 DEF g, N, id
<1>6. CASE hits # {}
  <2> DEFINE k == Min(hits)
  <2>1. k \in hits /\ \A i \in hits : k <= i
    <3> HIDE DEF hits
    <3> QED BY <1>4, <1>6, MinFacts
  <2> HIDE DEF k
  <2>2. k \in 1 .. l /\ c = s[k] /\ c \in N /\ h.packet[c].id >= id
    BY <1>1, <1>6, <2>1 DEF k
  <2> HIDE DEF c, hits
  <2>3. ASSUME NEW m \in N
        PROVE  h.packet[m].id < id \/ h.packet[c].id <= h.packet[m].id
    <3>1. PICK i \in 1 .. l : s[i] = m
      BY <1>1
    <3>2. CASE i < k
      <4>1. i \notin hits
        BY <1>4, <2>1, <2>2, <3>2
      <4> QED BY <1>3, <1>4, <3>1, <4>1 DEF hits
    <3>3. CASE i = k
      BY <1>3, <2>2, <3>1, <3>3
    <3>4. CASE k < i
      <4>1. rank[h.packet[c]] < rank[h.packet[m]]
        BY <1>1, <2>2, <3>1, <3>4
      <4> QED BY <1>3, <2>2, <4>1
    <3>5. i \in Int /\ k \in Int
      BY <2>2
    <3> QED BY <3>2, <3>3, <3>4, <3>5
  <2>4. CASE h.packet[c].id = id
    BY <1>2, <1>3, <2>2, <2>4 DEF g, N, id
  <2>5. CASE h.packet[c].id # id
    <3>1. id < h.packet[c].id
      BY <1>3, <2>2, <2>5
    <3>2. ~\E m \in N : h.packet[m].id = id
      BY <1>3, <2>2, <2>3, <3>1
    <3>3. IsPlace(h, head, rank, c, rank[h.packet[n]])
      BY <1>3, <2>2, <2>3, <3>1 DEF IsPlace, N
    <3> QED BY <1>2, <2>5, <3>2, <3>3 DEF g, N, id
  <2> QED BY <2>4, <2>5
<1> QED BY <1>5, <1>6
-----------------------------------------------------------------------------
(* What the functions of the proxies do to the packets of the two lists. *)

(* removeNode and clearNode of a node of a list. *)
LEMMA DropNode ==
    ASSUME NumNodes \in Nat, NEW P, NEW rank \in [P -> Int], NEW h,
           Sound(h, P, rank), NEW head \in Heads, NEW n \in Nodes(h, head),
           NEW p \in P
    PROVE  LET g == ClearNode(RemoveNode(h, n), n, p)
           IN  /\ Sound(g, P, rank)
               /\ Contents(g, head) = Contents(h, head) \ {h.packet[n]}
               /\ \A other \in Heads \ {head} : Contents(g, other) = Contents(h, other)
               /\ h.next[head] = n => g.next[head] = h.next[n]
<1> DEFINE r == RemoveNode(h, n)
           g == ClearNode(r, n, p)
<1>1. /\ InOrder(h, P, rank) /\ AllListed(h) /\ n \in Addresses /\ n \in h.used
      /\ n \in Cells
  BY HeapFields, CellFacts DEF Sound, InOrder, Nodes
<1>2. /\ InOrder(r, P, rank)
      /\ Nodes(r, head) = Nodes(h, head) \ {n}
      /\ \A other \in Heads \ {head} : Nodes(r, other) = Nodes(h, other)
      /\ r.packet = h.packet /\ r.used = h.used
      /\ r.head = [h.head EXCEPT ![n] = NULL]
      /\ r.next[head] = IF h.next[head] = n THEN h.next[n] ELSE h.next[head]
  BY <1>1, RemoveKeeps
<1> HIDE DEF r
<1>3. r.head[n] = NULL
  BY <1>1, <1>2, HeapFields DEF InOrder
<1>4. /\ InOrder(g, P, rank) /\ g.used = r.used \ {n} /\ g.head = r.head
      /\ \A c \in Heads : g.next[c] = r.next[c]
      /\ \A other \in Heads : Contents(g, other) = Contents(r, other)
  <2>1. InOrder(r, P, rank) /\ n \in Addresses /\ r.head[n] = NULL
    BY <1>1, <1>2, <1>3
  <2> QED BY <2>1, ClearKeeps
<1> HIDE DEF g
<1>5. AllListed(g)
  BY <1>1, <1>2, <1>4, HeapFields, CellFacts DEF InOrder, AllListed
<1>6. Contents(r, head) = Contents(h, head) \ {h.packet[n]}
  <2>1. \A m \in Nodes(h, head) : h.packet[m] = h.packet[n] => m = n
    BY <1>1, ContentsCount
  <2> QED BY <1>2, <2>1 DEF Contents
<1>7. \A other \in Heads \ {head} : Contents(r, other) = Contents(h, other)
  BY <1>2 DEF Contents
<1> QED BY <1>2, <1>4, <1>5, <1>6, <1>7 DEF Sound, g, r

(* removeNodeById and clearNode take the packet with that id, if any. *)
THEOREM DiscardSound ==
    ASSUME NumNodes \in Nat, NEW P, NEW rank \in [P -> Int], NEW h,
           Sound(h, P, rank), NEW head \in Heads, NEW id, NEW p \in P,
           \A q, o \in Contents(h, head) : q.id = o.id => q = o
    PROVE  LET g == DiscardNodeById(h, head, id, p)
           IN  /\ Sound(g, P, rank)
               /\ Contents(g, head) = {q \in Contents(h, head) : q.id # id}
               /\ \A other \in Heads \ {head} : Contents(g, other) = Contents(h, other)
<1> DEFINE n == SearchNodeById(h, head, id)
           g == DiscardNodeById(h, head, id, p)
<1>1. IF \E m \in Nodes(h, head) : h.packet[m].id = id
      THEN n \in Nodes(h, head) /\ h.packet[n].id = id
      ELSE n = NULL
  BY SearchFacts DEF Sound
<1>2. g = ClearNode(RemoveNode(h, n), n, p)
  BY DEF DiscardNodeById
<1> HIDE DEF n, g
<1>3. CASE \E m \in Nodes(h, head) : h.packet[m].id = id
  <2>1. /\ Sound(g, P, rank)
        /\ Contents(g, head) = Contents(h, head) \ {h.packet[n]}
        /\ \A other \in Heads \ {head} : Contents(g, other) = Contents(h, other)
    BY <1>1, <1>2, <1>3, DropNode
  <2>2. h.packet[n] \in Contents(h, head) /\ h.packet[n].id = id
    BY <1>1, <1>3 DEF Contents
  <2>3. Contents(g, head) = {q \in Contents(h, head) : q.id # id}
    BY <2>1, <2>2
  <2> QED BY <2>1, <2>3 DEF g
<1>4. CASE ~\E m \in Nodes(h, head) : h.packet[m].id = id
  <2>1. g = h
    BY <1>1, <1>2, <1>4 DEF RemoveNode, ClearNode
  <2>2. \A q \in Contents(h, head) : q.id # id
    BY <1>4 DEF Contents
  <2> QED BY <2>1, <2>2 DEF g
<1> QED BY <1>3, <1>4

(* allocNode and insertNodeById: the packet joins the list, unless its id is
   there. *)
THEOREM InsertSound ==
    ASSUME NumNodes \in Nat, NEW P, NEW rank \in [P -> Int],
           \A p \in P : rank[p] = p.id, NEW h,
           Sound(h, P, rank), NEW head \in Heads, NEW p \in P,
           Cardinality(Contents(h, ToSendHead))
              + Cardinality(Contents(h, ToAckHead)) < NumNodes
    PROVE  LET a == AllocNode(h, p)
               g == InsertNodeById(a, head, FreshNode(h))
           IN  IF \E q \in Contents(h, head) : q.id = p.id
               THEN g = a
               ELSE /\ g # a
                    /\ Sound(g, P, rank)
                    /\ Contents(g, head) = Contents(h, head) \cup {p}
                    /\ \A other \in Heads \ {head} :
                          Contents(g, other) = Contents(h, other)
<1> DEFINE n == FreshNode(h)
           a == AllocNode(h, p)
           g == InsertNodeById(a, head, n)
<1>1. n \in Addresses \ h.used
  BY FreshFacts
<1>2. /\ InOrder(a, P, rank)
      /\ n \in a.used /\ a.head[n] = NULL /\ a.packet[n] = p
      /\ a.used = h.used \cup {n} /\ a.head = h.head
      /\ \A other \in Heads : Contents(a, other) = Contents(h, other)
  BY <1>1, AllocKeeps
<1> HIDE DEF a, n
<1>3. IF \E m \in Nodes(a, head) : a.packet[m].id = a.packet[n].id
      THEN g = a
      ELSE \E c : /\ IsPlace(a, head, rank, c, rank[a.packet[n]])
                  /\ g = LinkBefore(a, head, c, n)
  BY <1>2, InsertNodeFacts
<1> HIDE DEF g
<1>4. (\E m \in Nodes(a, head) : a.packet[m].id = a.packet[n].id)
         <=> \E q \in Contents(h, head) : q.id = p.id
  <2>1. Contents(a, head) = Contents(h, head) /\ a.packet[n] = p
    BY <1>2
  <2> QED BY <2>1 DEF Contents
<1>5. CASE ~\E q \in Contents(h, head) : q.id = p.id
  <2>1. PICK c : /\ IsPlace(a, head, rank, c, rank[a.packet[n]])
                 /\ g = LinkBefore(a, head, c, n)
    BY <1>3, <1>4, <1>5
  <2>2. /\ \A m \in a.used \ {n} : a.head[m] \in Heads
        /\ \A m \in Addresses \ a.used : a.head[m] = NULL
    BY <1>2, HeapFields DEF Sound, InOrder, AllListed
  <2>3. /\ Sound(g, P, rank)
        /\ Contents(g, head) = Contents(a, head) \cup {a.packet[n]}
        /\ \A other \in Heads \ {head} : Contents(g, other) = Contents(a, other)
        /\ g.length[head] # a.length[head]
    BY <1>2, <2>1, <2>2, LinkContents
  <2> QED BY <1>2, <1>5, <2>3 DEF g, a, n
<1> QED BY <1>3, <1>4, <1>5 DEF g, a, n

(* A new node that is not inserted is lost, and the lists are as before. *)
THEOREM GiveUpSound ==
    ASSUME NumNodes \in Nat, NEW P, NEW rank \in [P -> Int], NEW h,
           Sound(h, P, rank), NEW p \in P, NEW q \in P,
           Cardinality(Contents(h, ToSendHead))
              + Cardinality(Contents(h, ToAckHead)) < NumNodes
    PROVE  LET g == ClearNode(AllocNode(h, p), FreshNode(h), q)
           IN  /\ Sound(g, P, rank)
               /\ \A head \in Heads : Contents(g, head) = Contents(h, head)
<1> DEFINE n == FreshNode(h)
           a == AllocNode(h, p)
           g == ClearNode(a, n, q)
<1>1. n \in Addresses \ h.used
  BY FreshFacts
<1>2. /\ InOrder(a, P, rank)
      /\ a.head[n] = NULL /\ a.used = h.used \cup {n} /\ a.head = h.head
      /\ \A head \in Heads : Contents(a, head) = Contents(h, head)
  BY <1>1, AllocKeeps
<1> HIDE DEF a, n
<1>3. /\ InOrder(g, P, rank) /\ g.used = a.used \ {n} /\ g.head = a.head
      /\ \A head \in Heads : Contents(g, head) = Contents(a, head)
  BY <1>1, <1>2, ClearKeeps
<1> HIDE DEF g
<1>4. g.used = h.used /\ g.head = h.head
  BY <1>1, <1>2, <1>3
<1>5. AllListed(g)
  BY <1>4 DEF Sound, AllListed
<1> QED BY <1>2, <1>3, <1>5 DEF Sound, g, a, n

(* sendToReceiver: the packet of the node goes from toSend to toAck. *)
THEOREM MoveSound ==
    ASSUME NumNodes \in Nat, NEW P, NEW rank \in [P -> Int],
           \A p \in P : rank[p] = p.id, NEW h,
           Sound(h, P, rank), NEW n \in Nodes(h, ToSendHead),
           \A q \in Contents(h, ToAckHead) : q.id # h.packet[n].id
    PROVE  LET g == InsertNodeById(RemoveNode(h, n), ToAckHead, n)
           IN  /\ Sound(g, P, rank) /\ g.packet = h.packet
               /\ Nodes(g, ToSendHead) = Nodes(h, ToSendHead) \ {n}
               /\ Contents(g, ToSendHead) = Contents(h, ToSendHead) \ {h.packet[n]}
               /\ Contents(g, ToAckHead) = Contents(h, ToAckHead) \cup {h.packet[n]}
<1> DEFINE r == RemoveNode(h, n)
           g == InsertNodeById(r, ToAckHead, n)
<1>1. /\ InOrder(h, P, rank) /\ AllListed(h) /\ n \in Addresses /\ n \in h.used
      /\ n \in Cells
      /\ ToSendHead \in Heads /\ ToAckHead \in Heads /\ ToAckHead # ToSendHead
  BY HeapFields, CellFacts DEF Sound, InOrder, Nodes
<1>2. /\ InOrder(r, P, rank)
      /\ Nodes(r, ToSendHead) = Nodes(h, ToSendHead) \ {n}
      /\ Nodes(r, ToAckHead) = Nodes(h, ToAckHead)
      /\ r.packet = h.packet /\ r.used = h.used
      /\ r.head = [h.head EXCEPT ![n] = NULL]
  BY <1>1, RemoveKeeps
<1> HIDE DEF r
<1>3. /\ r.head[n] = NULL /\ n \in r.used
      /\ \A m \in r.used \ {n} : r.head[m] \in Heads
      /\ \A m \in Addresses \ r.used : r.head[m] = NULL
  BY <1>1, <1>2, HeapFields DEF InOrder, AllListed
<1>4. ~\E m \in Nodes(r, ToAckHead) : r.packet[m].id = r.packet[n].id
  BY <1>2 DEF Contents
<1>5. PICK c : /\ IsPlace(r, ToAckHead, rank, c, rank[r.packet[n]])
               /\ g = LinkBefore(r, ToAckHead, c, n)
  BY <1>1, <1>2, <1>3, <1>4, InsertNodeFacts
<1> HIDE DEF g
<1> DEFINE k == LinkBefore(r, ToAckHead, c, n)
<1>6. /\ Sound(k, P, rank) /\ k.packet = r.packet
      /\ Contents(k, ToAckHead) = Contents(r, ToAckHead) \cup {r.packet[n]}
      /\ \A other \in Heads \ {ToAckHead} : /\ Contents(k, other) = Contents(r, other)
                                            /\ Nodes(k, other) = Nodes(r, other)
  <2>1. InOrder(r, P, rank) /\ ToAckHead \in Heads
    BY <1>1, <1>2
  <2>2. IsPlace(r, ToAckHead, rank, c, rank[r.packet[n]])
    BY <1>5
  <2> QED BY <1>3, <2>1, <2>2, LinkContents
<1> HIDE DEF k
<1>7. /\ Contents(r, ToSendHead) = Contents(h, ToSendHead) \ {h.packet[n]}
      /\ Contents(r, ToAckHead) = Contents(h, ToAckHead)
  <2>1. \A m \in Nodes(h, ToSendHead) : h.packet[m] = h.packet[n] => m = n
    BY <1>1, ContentsCount
  <2> QED BY <1>2, <2>1 DEF Contents
<1>8. g = k
  BY <1>5 DEF k
<1> QED BY <1>1, <1>2, <1>6, <1>7, <1>8 DEF g, r
-----------------------------------------------------------------------------
(* forEach. *)

(* One step of forEach(list, &ackPacket, ...), and its scan. *)
AckStep(head, p, s) ==
    IF s.iter = head THEN s
    ELSE [heap |-> ClearNode(RemoveNode(s.heap, s.iter), s.iter, p),
          iter |-> s.heap.next[s.iter]]

AckScan(h, head, p, max, f) ==
    f = [k \in 0 .. max |->
            IF k = 0 THEN [heap |-> h, iter |-> h.next[head]]
            ELSE AckStep(head, p, f[k - 1])]

(* The heaps of such a scan are sound, and it comes next to the first node. *)
AckStates(P, rank, head) ==
    {[heap |-> g, iter |-> g.next[head]] : g \in {x \in Heap(P) : Sound(x, P, rank)}}

(* The first node of a list has the lowest rank. *)
LEMMA FirstNode ==
    ASSUME NumNodes \in Nat, NEW P, NEW rank \in [P -> Int], NEW h,
           InOrder(h, P, rank), NEW head \in Heads
    PROVE  IF h.next[head] = head
           THEN Nodes(h, head) = {} /\ Contents(h, head) = {}
           ELSE /\ h.next[head] \in Nodes(h, head)
                /\ \A n \in Nodes(h, head) :
                      rank[h.packet[h.next[head]]] <= rank[h.packet[n]]
<1> DEFINE N == Nodes(h, head)
<1>1. head \notin N
  BY HeapFields, CellFacts DEF InOrder, Nodes
<1>2. /\ h.next[head] \in N \cup {head}
      /\ \A n \in N : h.next[head] \in N /\ rank[h.packet[h.next[head]]] <= rank[h.packet[n]]
  BY DEF InOrder, Ordered, Linked
<1> QED BY <1>1, <1>2 DEF Contents

(* What is left of a set without its member of lowest rank. *)
LosesLowest(C, rank, left) ==
    \E q \in C : (\A o \in C : rank[q] <= rank[o]) /\ left = C \ {q}

(* A step of the scan drops the first node. *)
LEMMA AckStepFacts ==
    ASSUME NumNodes \in Nat, NEW P, NEW rank \in [P -> Int], NEW p \in P,
           NEW head \in Heads, NEW s \in AckStates(P, rank, head),
           NEW t, t = AckStep(head, p, s)
    PROVE  /\ t \in AckStates(P, rank, head)
           /\ \A other \in Heads \ {head} :
                 Contents(t.heap, other) = Contents(s.heap, other)
           /\ Contents(s.heap, head) = {} => t = s
           /\ \/ Contents(s.heap, head) = {}
              \/ LosesLowest(Contents(s.heap, head), rank, Contents(t.heap, head))
<1> DEFINE g == s.heap
           n == g.next[head]
           d == ClearNode(RemoveNode(g, n), n, p)
<1>1. Sound(g, P, rank) /\ InOrder(g, P, rank) /\ s = [heap |-> g, iter |-> n]
  BY DEF AckStates, Sound
<1>2. IF n = head THEN Nodes(g, head) = {} /\ Contents(g, head) = {}
      ELSE /\ n \in Nodes(g, head)
           /\ \A m \in Nodes(g, head) : rank[g.packet[n]] <= rank[g.packet[m]]
  BY <1>1, FirstNode
<1>3. t = IF n = head THEN s ELSE [heap |-> d, iter |-> g.next[n]]
  BY <1>1 DEF AckStep
<1> HIDE DEF g
<1>4. CASE n = head
  BY <1>2, <1>3, <1>4 DEF g
<1>5. CASE n # head
  <2>1. n \in Nodes(g, head)
    BY <1>2, <1>5
  <2>2. /\ Sound(d, P, rank)
        /\ Contents(d, head) = Contents(g, head) \ {g.packet[n]}
        /\ \A other \in Heads \ {head} : Contents(d, other) = Contents(g, other)
        /\ d.next[head] = g.next[n]
    <3> HIDE DEF n, d
    <3>1. g.next[head] = n
      BY DEF n
    <3>2. /\ Sound(d, P, rank)
          /\ Contents(d, head) = Contents(g, head) \ {g.packet[n]}
          /\ \A other \in Heads \ {head} : Contents(d, other) = Contents(g, other)
          /\ g.next[head] = n => d.next[head] = g.next[n]
      BY <1>1, <2>1, DropNode DEF d
    <3> QED BY <3>1, <3>2
  <2> HIDE DEF d
  <2>3. /\ t = [heap |-> d, iter |-> d.next[head]]
        /\ t.heap = d
    BY <1>3, <1>5, <2>2
  <2>4. t \in AckStates(P, rank, head)
    BY <2>2, <2>3 DEF AckStates, Sound, InOrder
  <2>5. /\ g.packet[n] \in Contents(g, head)
        /\ \A o \in Contents(g, head) : rank[g.packet[n]] <= rank[o]
    BY <1>2, <1>5, <2>1 DEF Contents
  <2>6. Contents(g, head) # {} /\ LosesLowest(Contents(g, head), rank, Contents(d, head))
    BY <2>2, <2>5 DEF LosesLowest
  <2> QED BY <2>2, <2>3, <2>4, <2>6 DEF g
<1> QED BY <1>4, <1>5

(* There is such a scan, and so forEach computes it. *)
LEMMA AckScanExists ==
    ASSUME NumNodes \in Nat, NEW P, NEW rank \in [P -> Int], NEW p \in P,
           NEW head \in Heads, NEW h, Sound(h, P, rank), NEW max \in Nat
    PROVE  \E f : AckScan(h, head, p, max, f)
<1> DEFINE S == AckStates(P, rank, head)
           e == [heap |-> h, iter |-> h.next[head]]
           link == [s \in S |-> AckStep(head, p, s)]
<1>1. e \in S
  BY DEF AckStates, Sound, InOrder
<1>2. \A s \in S : link[s] = AckStep(head, p, s) /\ link[s] \in S
  BY AckStepFacts
<1> HIDE DEF S, e, link
<1>3. PICK f \in [0 .. max -> S] : Walk(e, link, max, f)
  BY <1>1, <1>2, WalkExists
<1>4. \A k \in 0 .. max : f[k] = IF k = 0 THEN e ELSE AckStep(head, p, f[k - 1])
  <2>1. \A k \in 0 .. max : f[k] = IF k = 0 THEN e ELSE link[f[k - 1]]
    BY <1>3, Zenon DEF Walk
  <2>2. ASSUME NEW k \in 0 .. max, k # 0 PROVE f[k - 1] \in S
    BY <2>2
  <2> QED BY <1>2, <2>1, <2>2
<1>5. f = [k \in 0 .. max |-> IF k = 0 THEN e ELSE AckStep(head, p, f[k - 1])]
  BY <1>4
<1> QED BY <1>5 DEF AckScan, e

(* The packets of a list that come before one of them, and the first ones of a
   list, as the specification of preceiver has them. *)
Below(C, rank, p) == {q \in C : rank[q] < rank[p]}
FirstPackets(C, rank, max) == {p \in C : Cardinality(Below(C, rank, p)) < max}

(* What is taken away from the low end of a set, max members or all of them,
   is its first ones. *)
LEMMA FirstTaken ==
    ASSUME NEW C, IsFiniteSet(C), NEW rank, \A p \in C : rank[p] \in Int,
           NEW R \in SUBSET C, \A r \in R, q \in C \ R : rank[r] < rank[q],
           NEW max \in Nat, Cardinality(R) <= max,
           Cardinality(R) = max \/ R = C
    PROVE  R = FirstPackets(C, rank, max)
<1>1. IsFiniteSet(R) /\ Cardinality(R) \in Nat
  BY FS_Subset, FS_CardinalityType
<1>2. ASSUME NEW p \in R PROVE Cardinality(Below(C, rank, p)) < max
  <2>1. Below(C, rank, p) \in SUBSET (R \ {p})
    BY DEF Below
  <2>2. IsFiniteSet(R \ {p}) /\ Cardinality(R \ {p}) = Cardinality(R) - 1
    BY <1>1, FS_RemoveElement
  <2>3. /\ Cardinality(Below(C, rank, p)) <= Cardinality(R) - 1
        /\ IsFiniteSet(Below(C, rank, p))
    BY <2>1, <2>2, FS_Subset
  <2>4. Cardinality(Below(C, rank, p)) \in Nat
    BY <2>3, FS_CardinalityType
  <2> QED BY <1>1, <2>3, <2>4
<1>3. ASSUME NEW p \in C \ R PROVE ~(Cardinality(Below(C, rank, p)) < max)
  <2>1. R \in SUBSET Below(C, rank, p) /\ Below(C, rank, p) \in SUBSET C
    BY DEF Below
  <2>2. IsFiniteSet(Below(C, rank, p))
    BY <2>1, FS_Subset
  <2>3. Cardinality(R) <= Cardinality(Below(C, rank, p))
    BY <2>1, <2>2, FS_Subset
  <2>4. Cardinality(Below(C, rank, p)) \in Nat
    BY <2>2, FS_CardinalityType
  <2> QED BY <1>1, <2>3, <2>4
<1> QED BY <1>2, <1>3 DEF FirstPackets

(* forEach(toAck, &ackPacket, maxPackets) takes the first packets of the list
   and leaves the others. *)
THEOREM ForEachAcks ==
    ASSUME NumNodes \in Nat, NEW P, NEW rank \in [P -> Int], NEW p \in P,
           NEW head \in Heads, NEW h, Sound(h, P, rank), NEW max \in Nat
    PROVE  LET g == ForEachAck(h, head, p, max)
               C == Contents(h, head)
           IN  /\ Sound(g, P, rank)
               /\ Contents(g, head) = C \ FirstPackets(C, rank, max)
               /\ \A other \in Heads \ {head} : Contents(g, other) = Contents(h, other)
<1> DEFINE f == CHOOSE f : AckScan(h, head, p, max, f)
           C == Contents(h, head)
           S == AckStates(P, rank, head)
           left(k) == Contents(f[k].heap, head)
<1>1. ForEachAck(h, head, p, max) = f[max].heap
  BY DEF ForEachAck, ForEach, AckScan, AckStep
<1>2. AckScan(h, head, p, max, f)
  BY AckScanExists
<1> HIDE DEF f
<1>3. /\ f[0] = [heap |-> h, iter |-> h.next[head]]
      /\ \A k \in 1 .. max : f[k] = AckStep(head, p, f[k - 1])
  <2>1. 0 \in 0 .. max /\ \A k \in 1 .. max : k \in 0 .. max /\ k # 0
    OBVIOUS
  <2> QED BY <1>2, <2>1 DEF AckScan
<1>4. /\ IsFiniteSet(C) /\ \A q \in C : rank[q] \in Int
      /\ \A q, o \in C : rank[q] = rank[o] => q = o
  <2>1. InOrder(h, P, rank)
    BY DEF Sound
  <2>2. \A n \in Nodes(h, head) : h.packet[n] \in P
    BY <2>1, HeapFields DEF InOrder, Nodes
  <2>3. \A m, n \in Nodes(h, head) : rank[h.packet[m]] = rank[h.packet[n]] => m = n
    BY <2>1 DEF InOrder, Ordered
  <2> QED BY <2>1, <2>2, <2>3, ContentsCount DEF Contents
<1> DEFINE Taken(k) ==
              /\ f[k] \in S
              /\ \A other \in Heads \ {head} :
                    Contents(f[k].heap, other) = Contents(h, other)
              /\ left(k) \in SUBSET C
              /\ \A r \in C \ left(k), q \in left(k) : rank[r] < rank[q]
              /\ Cardinality(C \ left(k)) <= k
              /\ Cardinality(C \ left(k)) = k \/ left(k) = {}
           T == {k \in Nat : k <= max => Taken(k)}
<1>5. 0 \in T
  <2>1. f[0] \in S /\ f[0].heap = h
    BY <1>3 DEF AckStates, Sound, InOrder
  <2>2. C \ left(0) = {} /\ Cardinality({}) = 0
    BY <2>1, FS_EmptySet
  <2>3. Taken(0)
    BY <2>1, <2>2
  <2> QED BY <2>3
<1> HIDE DEF C, S
<1>6. ASSUME NEW k \in Nat, k \in T PROVE k + 1 \in T
  <2> SUFFICES ASSUME k + 1 <= max PROVE Taken(k + 1)
    OBVIOUS
  <2>1. Taken(k)
    BY <1>6
  <2>2. f[k + 1] = AckStep(head, p, f[k])
    BY <1>3
  <2>3. /\ f[k + 1] \in S
        /\ \A other \in Heads \ {head} :
              Contents(f[k + 1].heap, other) = Contents(f[k].heap, other)
        /\ left(k) = {} => f[k + 1] = f[k]
        /\ left(k) = {} \/ LosesLowest(left(k), rank, left(k + 1))
    <3> DEFINE u == f[k]
               v == f[k + 1]
    <3>1. u \in AckStates(P, rank, head) /\ v = AckStep(head, p, u)
      BY <2>1, <2>2 DEF S
    <3> HIDE DEF Taken, T, left, S, u, v
    <3>2. /\ v \in AckStates(P, rank, head)
          /\ \A other \in Heads \ {head} : Contents(v.heap, other) = Contents(u.heap, other)
          /\ Contents(u.heap, head) = {} => v = u
          /\ \/ Contents(u.heap, head) = {}
             \/ LosesLowest(Contents(u.heap, head), rank, Contents(v.heap, head))
      BY <3>1, AckStepFacts
    <3> QED BY <3>2 DEF S, left, u, v
  <2>4. CASE left(k) = {}
    <3>1. f[k + 1] = f[k] /\ left(k + 1) = {}
      BY <2>3, <2>4
    <3>2. Cardinality(C \ left(k)) \in Nat
      BY <1>4, FS_Difference, FS_CardinalityType
    <3>3. C \ left(k + 1) = C \ left(k)
      BY <3>1
    <3>4. /\ \A r \in C \ left(k + 1), q \in left(k + 1) : rank[r] < rank[q]
          /\ left(k + 1) \in SUBSET C
      BY <3>1
    <3>5. Cardinality(C \ left(k)) <= k
      BY <2>1
    <3> HIDE DEF left
    <3>6. Cardinality(C \ left(k + 1)) <= k + 1
      BY <3>2, <3>3, <3>5
    <3> QED BY <2>1, <2>3, <3>1, <3>4, <3>6
  <2>5. CASE left(k) # {}
    <3>1. PICK q \in left(k) : /\ \A o \in left(k) : rank[q] <= rank[o]
                               /\ left(k + 1) = left(k) \ {q}
      BY <2>3, <2>5 DEF LosesLowest
    <3> HIDE DEF left
    <3>2. C \ left(k + 1) = (C \ left(k)) \cup {q} /\ q \notin C \ left(k) /\ q \in C
      BY <2>1, <3>1
    <3>3. IsFiniteSet(C \ left(k))
      BY <1>4, FS_Difference
    <3>4. Cardinality(C \ left(k + 1)) = Cardinality(C \ left(k)) + 1
      BY <3>2, <3>3, FS_AddElement
    <3>5. \A r \in C \ left(k + 1), o \in left(k + 1) : rank[r] < rank[o]
      <4> SUFFICES ASSUME NEW r \in C \ left(k + 1), NEW o \in left(k + 1)
                   PROVE  rank[r] < rank[o]
        OBVIOUS
      <4>1. CASE r = q
        <5>1. rank[q] <= rank[o] /\ q # o /\ o \in C
          BY <2>1, <3>1
        <5> QED BY <1>4, <3>2, <4>1, <5>1
      <4>2. CASE r # q
        BY <2>1, <3>1, <4>2
      <4> QED BY <4>1, <4>2
    <3>6. Cardinality(C \ left(k)) = k
      BY <2>1, <2>5
    <3> QED BY <2>1, <2>3, <3>1, <3>4, <3>5, <3>6
  <2> QED BY <2>4, <2>5
<1>7. Taken(max)
  <2>1. max \in T
    <3> HIDE DEF T
    <3> QED BY <1>5, <1>6, Induction
  <2> QED BY <2>1
<1>8. C \ left(max) = FirstPackets(C, rank, max)
  <2> DEFINE R == C \ left(max)
  <2>1. /\ R \in SUBSET C /\ \A r \in R, q \in C \ R : rank[r] < rank[q]
        /\ Cardinality(R) <= max
        /\ Cardinality(R) = max \/ R = C
    BY <1>7
  <2> HIDE DEF R
  <2>2. R = FirstPackets(C, rank, max)
    BY <1>4, <2>1, FirstTaken
  <2> QED BY <2>2 DEF R
<1>9. left(max) = C \ FirstPackets(C, rank, max)
  BY <1>7, <1>8
<1>10. Sound(f[max].heap, P, rank)
  BY <1>7 DEF S, AckStates
<1> QED BY <1>1, <1>7, <1>9, <1>10 DEF C
(* The scan of forEach with a callback that leaves the heap as it is. *)
PassScan(h, head, max, f) ==
    f = [k \in 0 .. max |->
            IF k = 0 THEN [heap |-> h, iter |-> h.next[head]]
            ELSE IF f[k - 1].iter = head THEN f[k - 1]
                 ELSE [heap |-> f[k - 1].heap,
                       iter |-> f[k - 1].heap.next[f[k - 1].iter]]]

(* There is such a scan. *)
LEMMA PassScanExists ==
    ASSUME NumNodes \in Nat, NEW P, NEW rank, NEW h, InOrder(h, P, rank),
           NEW head \in Heads, NEW max \in Nat
    PROVE  \E f : PassScan(h, head, max, f)
<1> DEFINE N == Nodes(h, head) \cup {head}
           S == {[heap |-> h, iter |-> c] : c \in N}
           e == [heap |-> h, iter |-> h.next[head]]
           link == [s \in S |-> IF s.iter = head THEN s
                                ELSE [heap |-> s.heap, iter |-> s.heap.next[s.iter]]]
<1>1. \A c \in N : h.next[c] \in N
  BY DEF InOrder, Ordered, Linked
<1>2. e \in S
  BY <1>1
<1>3. \A s \in S : /\ link[s] = IF s.iter = head THEN s
                                ELSE [heap |-> s.heap, iter |-> s.heap.next[s.iter]]
                   /\ link[s] \in S
  <2> HIDE DEF N
  <2> SUFFICES ASSUME NEW s \in S PROVE link[s] \in S
    OBVIOUS
  <2>1. PICK c \in N : s = [heap |-> h, iter |-> c]
    OBVIOUS
  <2>2. CASE c = head
    BY <2>1, <2>2
  <2>3. CASE c # head
    <3>1. link[s] = [heap |-> h, iter |-> h.next[c]]
      BY <2>1, <2>3
    <3> QED BY <1>1, <3>1
  <2> QED BY <2>2, <2>3
<1> HIDE DEF S, e, link
<1>4. PICK f \in [0 .. max -> S] : Walk(e, link, max, f)
  BY <1>2, <1>3, WalkExists
<1>5. \A k \in 0 .. max :
         f[k] = IF k = 0 THEN e
                ELSE IF f[k - 1].iter = head THEN f[k - 1]
                     ELSE [heap |-> f[k - 1].heap,
                           iter |-> f[k - 1].heap.next[f[k - 1].iter]]
  <2>1. \A k \in 0 .. max : f[k] = IF k = 0 THEN e ELSE link[f[k - 1]]
    BY <1>4, Zenon DEF Walk
  <2>2. ASSUME NEW k \in 0 .. max, k # 0 PROVE f[k - 1] \in S
    BY <2>2
  <2> QED BY <1>3, <2>1, <2>2
<1>6. f = [k \in 0 .. max |->
            IF k = 0 THEN e
            ELSE IF f[k - 1].iter = head THEN f[k - 1]
                 ELSE [heap |-> f[k - 1].heap,
                       iter |-> f[k - 1].heap.next[f[k - 1].iter]]]
  BY <1>5
<1> QED BY <1>6 DEF PassScan, e

(* forEach(toSend, &sendPacket, maxPackets) comes to the end of a list of no
   more than maxPackets nodes. *)
THEOREM ForEachReachesEnd ==
    ASSUME NumNodes \in Nat, NEW P, NEW rank \in [P -> Int], NEW h,
           InOrder(h, P, rank), NEW head \in Heads, NEW max \in Nat,
           Cardinality(Nodes(h, head)) <= max
    PROVE  ForEachEnd(h, head, max) = head
<1> DEFINE f == CHOOSE f : PassScan(h, head, max, f)
           s == Forward(h, head)
           N == Nodes(h, head)
           l == Cardinality(N)
<1>1. PassScan(h, head, max, f)
  BY PassScanExists
<1>2. /\ l \in Nat /\ s \in [1 .. l -> N] /\ head \notin N
      /\ \A i \in 1 .. l : s[i] = IF i = 1 THEN h.next[head] ELSE h.next[s[i - 1]]
      /\ l = 0 => h.next[head] = head
      /\ l > 0 => h.next[s[l]] = head
  <2>1. head \notin N
    BY HeapFields, CellFacts DEF InOrder, Nodes
  <2> QED BY <2>1, ForwardFacts
<1> HIDE DEF f, s, N, l
<1>3. /\ f[0] = [heap |-> h, iter |-> h.next[head]]
      /\ \A k \in 1 .. max :
            f[k] = IF f[k - 1].iter = head THEN f[k - 1]
                   ELSE [heap |-> f[k - 1].heap,
                         iter |-> f[k - 1].heap.next[f[k - 1].iter]]
  <2>1. 0 \in 0 .. max /\ \A k \in 1 .. max : k \in 0 .. max /\ k # 0
    OBVIOUS
  <2> QED BY <1>1, <2>1 DEF PassScan
<1> DEFINE T == {k \in Nat : k <= max =>
                    f[k] = [heap |-> h, iter |-> IF k < l THEN s[k + 1] ELSE head]}
<1>4. 0 \in T
  BY <1>2, <1>3
<1>5. ASSUME NEW k \in Nat, k \in T PROVE k + 1 \in T
  <2> SUFFICES ASSUME k + 1 <= max
               PROVE  f[k + 1] = [heap |-> h,
                                  iter |-> IF k + 1 < l THEN s[k + 2] ELSE head]
    OBVIOUS
  <2>1. f[k] = [heap |-> h, iter |-> IF k < l THEN s[k + 1] ELSE head]
    BY <1>5
  <2>2. f[k + 1] = IF f[k].iter = head THEN f[k]
                   ELSE [heap |-> f[k].heap, iter |-> f[k].heap.next[f[k].iter]]
    BY <1>3
  <2>3. CASE k < l
    <3>1. s[k + 1] \in N /\ s[k + 1] # head
      BY <1>2, <2>3
    <3>2. f[k + 1] = [heap |-> h, iter |-> h.next[s[k + 1]]]
      BY <2>1, <2>2, <2>3, <3>1
    <3>3. h.next[s[k + 1]] = IF k + 1 < l THEN s[k + 2] ELSE head
      <4>1. CASE k + 1 < l
        <5>1. k + 2 \in 1 .. l /\ k + 2 # 1 /\ k + 2 - 1 = k + 1
          BY <1>2, <4>1
        <5> QED BY <1>2, <4>1, <5>1
      <4>2. CASE ~(k + 1 < l)
        <5>1. k + 1 = l
          BY <1>2, <2>3, <4>2
        <5> QED BY <1>2, <4>2, <5>1
      <4> QED BY <4>1, <4>2
    <3> QED BY <3>2, <3>3
  <2>4. CASE ~(k < l)
    BY <1>2, <2>1, <2>2, <2>4
  <2> QED BY <2>3, <2>4
<1>6. f[max] = [heap |-> h, iter |-> IF max < l THEN s[max + 1] ELSE head]
  <2>1. max \in T
    <3> HIDE DEF T
    <3> QED BY <1>4, <1>5, Induction
  <2> QED BY <2>1
<1>7. f[max].iter = head
  BY <1>2, <1>6 DEF l, N
<1> QED BY <1>7 DEF ForEachEnd, ForEach, PassScan, f

(* Of a list that is in order, next leads from a node to the one after it, or
   to the head, and to no node twice. *)
LEMMA NextFacts ==
    ASSUME NumNodes \in Nat, NEW P, NEW rank \in [P -> Int], NEW h,
           InOrder(h, P, rank), NEW head \in Heads, NEW n \in Nodes(h, head)
    PROVE  LET N == Nodes(h, head)
           IN  /\ h.next[n] \in (N \ {n}) \cup {head}
               /\ h.next[n] \in N
                     => rank[h.packet[n]] < rank[h.packet[h.next[n]]]
               /\ \A m \in N : rank[h.packet[n]] < rank[h.packet[m]]
                     => /\ h.next[n] \in N
                        /\ rank[h.packet[h.next[n]]] <= rank[h.packet[m]]
<1> DEFINE N == Nodes(h, head)
<1>1. Ordered(h, head, rank)
  BY DEF InOrder
<1>2. \A m \in N : rank[h.packet[m]] \in Int
  BY HeapFields DEF InOrder, Nodes
<1>3. h.next[n] \in N \cup {head}
  BY <1>1 DEF Ordered, Linked
<1>4. h.next[n] \in N => rank[h.packet[n]] < rank[h.packet[h.next[n]]]
  BY <1>1 DEF Ordered
<1>5. \A m \in N : rank[h.packet[n]] < rank[h.packet[m]]
         => h.next[n] \in N /\ rank[h.packet[h.next[n]]] <= rank[h.packet[m]]
  BY <1>1 DEF Ordered
<1> QED BY <1>2, <1>3, <1>4, <1>5
=============================================================================
