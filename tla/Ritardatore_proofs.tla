------------------------- MODULE Ritardatore_proofs -------------------------
(***************************************************************************)
(* The Ritardatore implements the network that the proxies are verified    *)
(* against, and its list is in order within a second: for any number of    *)
(* channels, any delays and any lag of the loop.                           *)
(***************************************************************************)
EXTENDS Ritardatore, TimeArith_proofs

-----------------------------------------------------------------------------
(* Sequences and what they hold. *)

(* Taking the head of a queue leaves the rest. *)
LEMMA HeldTail ==
    ASSUME NEW S, NEW q \in Seq(S), q # << >>
    PROVE  /\ Head(q) \in S /\ Tail(q) \in Seq(S)
           /\ Head(q) = q[1] /\ 1 \in DOMAIN q
           /\ Held(q) = {Head(q)} \cup Held(Tail(q))
           /\ \A k \in DOMAIN Tail(q) : k + 1 \in DOMAIN q /\ Tail(q)[k] = q[k + 1]
<1>1. Head(q) = q[1] /\ 1 \in DOMAIN q /\ q[1] \in S /\ Tail(q) \in Seq(S)
  OBVIOUS
<1>2. /\ Len(q) \in Nat /\ Len(q) >= 1 /\ DOMAIN q = 1 .. Len(q)
      /\ DOMAIN Tail(q) = 1 .. Len(q) - 1
  OBVIOUS
<1>3. \A k \in 1 .. Len(q) - 1 : Tail(q)[k] = q[k + 1]
  OBVIOUS
<1>4. \A k \in DOMAIN q : k = 1 \/ (k - 1 \in DOMAIN Tail(q) /\ q[k] = Tail(q)[k - 1])
  BY <1>2, <1>3
<1>5. \A k \in DOMAIN Tail(q) : k + 1 \in DOMAIN q /\ Tail(q)[k] = q[k + 1]
  BY <1>2, <1>3
<1>6. ASSUME NEW k \in DOMAIN q PROVE q[k] \in {q[1]} \cup Held(Tail(q))
  <2>1. CASE k = 1
    BY <2>1
  <2>2. CASE k - 1 \in DOMAIN Tail(q) /\ q[k] = Tail(q)[k - 1]
    BY <2>2 DEF Held
  <2> QED BY <1>4, <2>1, <2>2
<1>7. {q[1]} \cup Held(Tail(q)) \subseteq Held(q)
  BY <1>1, <1>5 DEF Held
<1>8. Held(q) = {q[1]} \cup Held(Tail(q))
  BY <1>6, <1>7 DEF Held
<1> QED BY <1>1, <1>5, <1>8

(* Appending adds one element. *)
LEMMA HeldAppend ==
    ASSUME NEW S, NEW q \in Seq(S), NEW m \in S
    PROVE  /\ Append(q, m) \in Seq(S) /\ Append(q, m) # << >>
           /\ Held(Append(q, m)) = Held(q) \cup {m}
<1>1. /\ Append(q, m) \in Seq(S) /\ Len(q) \in Nat
      /\ DOMAIN q = 1 .. Len(q) /\ DOMAIN Append(q, m) = 1 .. Len(q) + 1
  OBVIOUS
<1>2. /\ \A k \in 1 .. Len(q) : Append(q, m)[k] = q[k]
      /\ Append(q, m)[Len(q) + 1] = m
  OBVIOUS
<1>3. Append(q, m) # << >>
  BY <1>1, Len(Append(q, m)) = Len(q) + 1, Len(<< >>) = 0
<1>4. Held(Append(q, m)) \subseteq Held(q) \cup {m}
  BY <1>1, <1>2 DEF Held
<1>5. Held(q) \cup {m} \subseteq Held(Append(q, m))
  BY <1>1, <1>2 DEF Held
<1> QED BY <1>1, <1>3, <1>4, <1>5

(* A queue with p put in at place n. *)
InsertedAt(q, n, p) ==
    [k \in 1 .. Len(q) + 1 |->
        IF k < n THEN q[k] ELSE IF k = n THEN p ELSE q[k - 1]]

(* Insertion adds one element, and where the elements are then. *)
LEMMA HeldInserted ==
    ASSUME NEW S, NEW q \in Seq(S), NEW p \in S, NEW n \in 1 .. Len(q) + 1
    PROVE  /\ InsertedAt(q, n, p) \in Seq(S)
           /\ DOMAIN InsertedAt(q, n, p) = 1 .. Len(q) + 1
           /\ Held(InsertedAt(q, n, p)) = Held(q) \cup {p}
<1> DEFINE r == InsertedAt(q, n, p)
<1>1. Len(q) \in Nat /\ DOMAIN q = 1 .. Len(q) /\ \A k \in 1 .. Len(q) : q[k] \in S
  OBVIOUS
<1>2. DOMAIN r = 1 .. Len(q) + 1
  BY DEF InsertedAt
<1>3. \A k \in 1 .. Len(q) + 1 :
        r[k] = IF k < n THEN q[k] ELSE IF k = n THEN p ELSE q[k - 1]
  BY DEF InsertedAt
<1>4. \A k \in 1 .. Len(q) + 1 : r[k] \in S
  BY <1>1, <1>3
<1>5. r = [k \in 1 .. Len(q) + 1 |-> r[k]]
  BY DEF InsertedAt
<1>6. r \in Seq(S)
  BY <1>1, <1>4, <1>5
<1>7. Held(r) \subseteq Held(q) \cup {p}
  BY <1>1, <1>2, <1>3 DEF Held
<1>8. p \in Held(r)
  BY <1>1, <1>2, <1>3 DEF Held
<1>9. ASSUME NEW k \in DOMAIN q PROVE q[k] \in Held(r)
  <2>1. CASE k < n
    BY <1>1, <1>2, <1>3, <2>1 DEF Held
  <2>2. CASE ~(k < n)
    <3>1. k + 1 \in 1 .. Len(q) + 1 /\ ~(k + 1 < n) /\ k + 1 # n /\ (k + 1) - 1 = k
      BY <1>1, <2>2
    <3>2. r[k + 1] = q[k]
      BY <1>3, <3>1
    <3> QED BY <1>2, <3>1, <3>2 DEF Held
  <2> QED BY <2>1, <2>2
<1>10. Held(q) \cup {p} \subseteq Held(r)
  BY <1>8, <1>9 DEF Held
<1> QED BY <1>2, <1>6, <1>7, <1>10

-----------------------------------------------------------------------------
(* Instants. *)

(* A timeout is a timeval that gettimeofday could have returned, and not
   before now. *)
LEMMA AfterType ==
    ASSUME now \in 0 .. SecInMcsec - 1, NEW d \in Nat
    PROVE  /\ After(d) \in Timeval /\ Normal(After(d))
           /\ After(d).sec \in Int /\ After(d).sec >= 0
<1> DEFINE a == After(d)
<1>1. SecInMcsec \in Nat /\ SecInMcsec > 0 /\ now \in Nat
  BY SecAssumption
<1>2. Now \in Timeval /\ [sec |-> 0, usec |-> d] \in Timeval
  BY <1>1 DEF Now, Timeval
<1>3. /\ a \in Timeval /\ Normal(a)
      /\ Total(a) = Total(Now) + Total([sec |-> 0, usec |-> d])
  BY <1>2, SommaCorrect DEF After
<1>4. Total(a) = now + d
  BY <1>1, <1>3 DEF Total, Now
<1>5. a.sec \in Int /\ a.usec \in Nat /\ a.usec < SecInMcsec
  BY <1>3 DEF Timeval, Normal
<1>6. ASSUME a.sec < 0 PROVE FALSE
  <2>1. a.sec * SecInMcsec + a.usec < 0 * SecInMcsec + 0
    BY <1>5, <1>6, MoreSeconds
  <2>2. Total(a) < 0
    BY <1>1, <2>1 DEF Total
  <2> QED BY <1>1, <1>4, <2>2
<1> QED BY <1>3, <1>5, <1>6

(* The timeout of select is a timeval. *)
LEMMA SvegliaType ==
    ASSUME NEW list \in Seq(Element), NEW t \in Timeval
    PROVE  Sveglia(list, t) \in Timeval
<1>1. [sec |-> 0, usec |-> Idle] \in Timeval
  BY RitardatoreAssumption DEF Timeval
<1>2. CASE list = << >>
  BY <1>1, <1>2, SommaCorrect DEF Sveglia
<1>3. CASE list # << >>
  <2>1. list[1] \in Element
    BY <1>3
  <2>2. list[1].timeout \in Timeval
    BY <2>1 DEF Element
  <2>3. Differenza(list[1].timeout, t) \in Timeval
    BY <2>2, DifferenzaCorrect
  <2> QED BY <1>3, <2>3, SommaCorrect DEF Sveglia
<1> QED BY <1>2, <1>3

(* A second later the same instant is a second closer, unless it was over
   already. *)
LEMMA OlderType ==
    ASSUME NEW t \in Timeval
    PROVE  /\ Older(t) \in Timeval
           /\ Normal(t) => Normal(Older(t))
           /\ t.sec >= 0 => Total(Older(t)) = Total(t) - SecInMcsec
           /\ Older(t).sec >= 0 => t.sec >= 1
<1>1. SecInMcsec \in Nat /\ SecInMcsec > 0 /\ t.sec \in Int /\ t.usec \in Nat
  BY SecAssumption DEF Timeval
<1>2. Older(t).usec = t.usec
  BY DEF Older
<1>3. CASE t.sec < 0
  <2>1. Older(t).sec = -1 /\ Older(t) = [sec |-> -1, usec |-> t.usec]
    BY <1>3 DEF Older
  <2> QED BY <1>1, <1>2, <1>3, <2>1 DEF Timeval, Normal
<1>4. CASE ~(t.sec < 0)
  <2>1. /\ Older(t).sec = t.sec - 1
        /\ Older(t) = [sec |-> t.sec - 1, usec |-> t.usec]
    BY <1>4 DEF Older
  <2>2. (t.sec - 1) * SecInMcsec = t.sec * SecInMcsec - SecInMcsec
    BY <1>1
  <2>3. t.sec * SecInMcsec \in Int
    BY <1>1
  <2>4. Total(Older(t)) = Total(t) - SecInMcsec
    BY <1>1, <1>2, <2>1, <2>2, <2>3 DEF Total
  <2>5. Older(t) \in Timeval /\ (Normal(t) => Normal(Older(t)))
    BY <1>1, <1>2, <2>1 DEF Timeval, Normal
  <2>6. Older(t).sec >= 0 => t.sec >= 1
    BY <1>1, <2>1
  <2> QED BY <2>4, <2>5, <2>6
<1> QED BY <1>1, <1>3, <1>4

(* An instant that is not over keeps apart from those of other seconds. *)
LEMMA OlderDiffers ==
    ASSUME NEW s \in Timeval, NEW t \in Timeval, t.sec >= 1, s.sec # t.sec
    PROVE  Older(s).sec # Older(t).sec
<1>1. s.sec \in Int /\ t.sec \in Int
  BY DEF Timeval
<1>2. Older(t).sec = t.sec - 1
  BY <1>1 DEF Older
<1>3. CASE s.sec < 0
  <2>1. Older(s).sec = -1
    BY <1>3 DEF Older
  <2> QED BY <1>1, <1>2, <2>1
<1>4. CASE ~(s.sec < 0)
  <2>1. Older(s).sec = s.sec - 1
    BY <1>4 DEF Older
  <2> QED BY <1>1, <1>2, <2>1
<1> QED BY <1>3, <1>4

(* What the scan of aggiungi_in_ordine knows of an element that it passes,
   and of the one that it stops at. *)
LEMMA MinoreOnNormal ==
    ASSUME NEW a \in Timeval, NEW b \in Timeval, Normal(a), Normal(b)
    PROVE  /\ ~Minore(a, b) => Total(b) <= Total(a)
           /\ Minore(a, b) /\ a.sec = b.sec => Total(a) < Total(b)
<1>1. Normalizza(a) = a /\ Normalizza(b) = b
  BY NormalizzaCorrect
<1>2. a.sec \in Int /\ b.sec \in Int /\ Total(a) \in Int /\ Total(b) \in Int
  BY SecAssumption DEF Timeval, Total
<1>3. CASE a.sec <= b.sec
  <2>1. Minore(a, b) <=> Total(a) < Total(b)
    BY <1>1, <1>3, MinoreCorrectWithinASecond
  <2> QED BY <1>2, <2>1
<1>4. CASE ~(a.sec <= b.sec)
  <2>1. Total(b) < Total(a)
    BY <1>1, <1>4, MinoreCorrectWithinASecond
  <2> QED BY <1>2, <1>4, <2>1
<1> QED BY <1>3, <1>4

-----------------------------------------------------------------------------
(* The order of the list. *)

Timeouts(q) == \A k \in DOMAIN q : Normal(q[k].timeout)

(* InvOrder, of any list. *)
Ordered(q) ==
    \A j, k \in DOMAIN q :
        /\ j < k /\ q[j].timeout.sec >= 0
        /\ ~MinoreOUguale(q[j].timeout, q[k].timeout)
        => \E i \in j + 1 .. k : q[i].timeout.sec # q[j].timeout.sec

(* Two elements are inverted when the later one has the earlier timeout. *)
LEMMA Inversion ==
    ASSUME NEW q \in Seq(Element), NEW j \in DOMAIN q, NEW k \in DOMAIN q
    PROVE  /\ q[j].timeout \in Timeval /\ q[j].timeout.sec \in Int
           /\ Total(q[j].timeout) \in Int /\ Total(q[k].timeout) \in Int
           /\ ~MinoreOUguale(q[j].timeout, q[k].timeout)
                 <=> Total(q[k].timeout) < Total(q[j].timeout)
<1>1. q[j] \in Element /\ q[k] \in Element
  OBVIOUS
<1>2. q[j].timeout \in Timeval /\ q[k].timeout \in Timeval
  BY <1>1 DEF Element
<1>3. /\ q[j].timeout.sec \in Int
      /\ Total(q[j].timeout) \in Int /\ Total(q[k].timeout) \in Int
  BY <1>2, SecAssumption DEF Timeval, Total
<1>4. MinoreOUguale(q[j].timeout, q[k].timeout)
         <=> Total(q[j].timeout) <= Total(q[k].timeout)
  BY <1>2, MinoreOUgualeCorrect
<1> QED BY <1>2, <1>3, <1>4

(* The release of the first element keeps the order of the others. *)
LEMMA OrderedTail ==
    ASSUME NEW q \in Seq(Element), q # << >>, Ordered(q), Timeouts(q)
    PROVE  Ordered(Tail(q)) /\ Timeouts(Tail(q))
<1> DEFINE r == Tail(q)
<1>1. /\ Len(q) \in Nat /\ DOMAIN q = 1 .. Len(q)
      /\ DOMAIN r = 1 .. Len(q) - 1
  OBVIOUS
<1>2. \A k \in DOMAIN r : k + 1 \in DOMAIN q /\ r[k] = q[k + 1]
  BY HeldTail
<1>3. Timeouts(r)
  BY <1>2 DEF Timeouts
<1>4. ASSUME NEW j \in DOMAIN r, NEW k \in DOMAIN r, j < k,
             r[j].timeout.sec >= 0,
             ~MinoreOUguale(r[j].timeout, r[k].timeout)
      PROVE  \E i \in j + 1 .. k : r[i].timeout.sec # r[j].timeout.sec
  <2>1. PICK i \in j + 1 + 1 .. k + 1 :
               q[i].timeout.sec # q[j + 1].timeout.sec
    <3>1. j + 1 < k + 1
      BY <1>1, <1>4
    <3> QED BY <1>2, <1>4, <3>1 DEF Ordered
  <2>2. i - 1 \in j + 1 .. k /\ i - 1 \in DOMAIN r /\ (i - 1) + 1 = i
    BY <1>1
  <2>3. r[i - 1] = q[i] /\ r[j] = q[j + 1]
    BY <1>2, <2>2
  <2> QED BY <2>1, <2>2, <2>3
<1> QED BY <1>3, <1>4 DEF Ordered

(* The turn of a second keeps the order. *)
LEMMA OrderedOlder ==
    ASSUME NEW q \in Seq(Element), Ordered(q), Timeouts(q)
    PROVE  LET r == [k \in DOMAIN q |->
                        [q[k] EXCEPT !.timeout = Older(q[k].timeout)]]
           IN  /\ r \in Seq(Element) /\ Ordered(r) /\ Timeouts(r)
               /\ DOMAIN r = DOMAIN q
               /\ \A k \in DOMAIN q : r[k].pkt = q[k].pkt /\ r[k].side = q[k].side
<1> DEFINE r == [k \in DOMAIN q |->
                    [q[k] EXCEPT !.timeout = Older(q[k].timeout)]]
<1>1. Len(q) \in Nat /\ DOMAIN q = 1 .. Len(q)
  OBVIOUS
<1>2. ASSUME NEW k \in DOMAIN q
      PROVE  /\ r[k].pkt = q[k].pkt /\ r[k].side = q[k].side
             /\ r[k].timeout = Older(q[k].timeout)
             /\ q[k] \in Element /\ r[k] \in Element
             /\ q[k].timeout \in Timeval
  <2>1. q[k] \in Element
    OBVIOUS
  <2>2. q[k].timeout \in Timeval
    BY <2>1 DEF Element
  <2>3. Older(q[k].timeout) \in Timeval
    BY <2>2, OlderType
  <2> QED BY <2>1, <2>2, <2>3 DEF Element
<1>3. r \in Seq(Element)
  <2>1. r = [k \in 1 .. Len(q) |-> r[k]]
    BY <1>1
  <2>2. \A k \in 1 .. Len(q) : r[k] \in Element
    BY <1>1, <1>2
  <2> HIDE DEF r
  <2> QED BY <1>1, <2>1, <2>2
<1>4. Timeouts(r)
  BY <1>2, OlderType DEF Timeouts
<1>5. ASSUME NEW j \in DOMAIN q, NEW k \in DOMAIN q, j < k,
             r[j].timeout.sec >= 0,
             ~MinoreOUguale(r[j].timeout, r[k].timeout)
      PROVE  \E i \in j + 1 .. k : r[i].timeout.sec # r[j].timeout.sec
  <2> DEFINE a == q[j].timeout
             b == q[k].timeout
  <2>1. a \in Timeval /\ b \in Timeval /\ Normal(a) /\ Normal(b)
    BY <1>2 DEF Timeouts
  <2>2. /\ SecInMcsec \in Nat /\ a.sec \in Int /\ b.sec \in Int
        /\ a.usec \in Nat /\ b.usec \in Nat
        /\ Total(a) \in Int /\ Total(b) \in Int
    BY <2>1, SecAssumption DEF Timeval, Total
  <2>3. a.sec >= 1 /\ Total(Older(a)) = Total(a) - SecInMcsec
    BY <1>2, <1>5, <2>1, <2>2, OlderType
  <2>4. Total(Older(b)) < Total(Older(a))
    BY <1>2, <1>3, <1>5, Inversion
  <2>5. Total(b) < Total(a)
    <3>1. CASE b.sec >= 0
      BY <2>1, <2>2, <2>3, <2>4, <3>1, OlderType
    <3>2. CASE b.sec < 0
      <4>1. b.usec < SecInMcsec /\ b.sec < a.sec
        BY <2>1, <2>2, <2>3, <3>2 DEF Normal
      <4>2. b.sec * SecInMcsec + b.usec < a.sec * SecInMcsec + a.usec
        BY <2>2, <4>1, MoreSeconds
      <4> QED BY <4>2 DEF Total
    <3> QED BY <2>2, <3>1, <3>2
  <2>6. a.sec >= 0 /\ ~MinoreOUguale(a, b)
    BY <2>2, <2>3, <2>5, Inversion
  <2>7. PICK i \in j + 1 .. k : q[i].timeout.sec # a.sec
    BY <1>5, <2>6 DEF Ordered
  <2>8. i \in DOMAIN q
    BY <1>1
  <2>9. q[i].timeout \in Timeval
    BY <1>2, <2>8
  <2>10. Older(q[i].timeout).sec # Older(a).sec
    BY <2>1, <2>3, <2>7, <2>9, OlderDiffers
  <2> QED BY <1>2, <2>8, <2>10
<1> QED BY <1>2, <1>3, <1>4, <1>5 DEF Ordered

(* aggiungi_in_ordine keeps the order: an element p that overtakes others does
   so across one of another second than its own. *)
LEMMA OrderedInserted ==
    ASSUME NEW q \in Seq(Element), Ordered(q), Timeouts(q),
           NEW p \in Element, Normal(p.timeout), p.timeout.sec >= 0,
           NEW n \in 1 .. Len(q) + 1,
           \A k \in 1 .. n - 1 : ~Minore(p.timeout, q[k].timeout),
           n <= Len(q) => Minore(p.timeout, q[n].timeout)
    PROVE  Ordered(InsertedAt(q, n, p)) /\ Timeouts(InsertedAt(q, n, p))
<1> DEFINE r == InsertedAt(q, n, p)
<1>1. /\ Len(q) \in Nat /\ DOMAIN q = 1 .. Len(q)
      /\ r \in Seq(Element) /\ DOMAIN r = 1 .. Len(q) + 1
  BY HeldInserted
<1>2. /\ \A k \in 1 .. n - 1 : k \in DOMAIN q /\ r[k] = q[k]
      /\ r[n] = p
  BY <1>1 DEF InsertedAt
<1>3. \A k \in n .. Len(q) : k \in DOMAIN q /\ r[k + 1] = q[k]
  <2>1. ASSUME NEW k \in n .. Len(q) PROVE k \in DOMAIN q /\ r[k + 1] = q[k]
    <3>1. /\ k \in DOMAIN q /\ k + 1 \in 1 .. Len(q) + 1
          /\ ~(k + 1 < n) /\ k + 1 # n /\ (k + 1) - 1 = k
      BY <1>1
    <3> QED BY <3>1 DEF InsertedAt
  <2> QED BY <2>1
<1>4. \A k \in n + 1 .. Len(q) + 1 : k - 1 \in n .. Len(q) /\ r[k] = q[k - 1]
  <2>1. ASSUME NEW k \in n + 1 .. Len(q) + 1
        PROVE  k - 1 \in n .. Len(q) /\ r[k] = q[k - 1]
    <3>1. k - 1 \in n .. Len(q) /\ (k - 1) + 1 = k
      BY <1>1
    <3> QED BY <1>3, <3>1
  <2> QED BY <2>1
<1>5. Timeouts(r)
  <2>1. ASSUME NEW k \in 1 .. Len(q) + 1 PROVE Normal(r[k].timeout)
    <3>1. CASE k < n
      BY <1>2, <3>1 DEF Timeouts
    <3>2. CASE k = n
      BY <1>2, <3>2
    <3>3. CASE k > n
      <4>1. k \in n + 1 .. Len(q) + 1
        BY <1>1, <3>3
      <4>2. k - 1 \in DOMAIN q /\ r[k] = q[k - 1]
        BY <1>3, <1>4, <4>1
      <4> QED BY <4>2 DEF Timeouts
    <3> QED BY <1>1, <3>1, <3>2, <3>3
  <2> QED BY <1>1, <2>1 DEF Timeouts
<1>6. ASSUME NEW j \in DOMAIN r, NEW k \in DOMAIN r, j < k,
             r[j].timeout.sec >= 0,
             ~MinoreOUguale(r[j].timeout, r[k].timeout)
      PROVE  \E i \in j + 1 .. k : r[i].timeout.sec # r[j].timeout.sec
  <2>1. CASE k < n
    <3>1. /\ j \in DOMAIN q /\ k \in DOMAIN q /\ r[j] = q[j] /\ r[k] = q[k]
      BY <1>1, <1>2, <1>6, <2>1
    <3>2. PICK i \in j + 1 .. k : q[i].timeout.sec # q[j].timeout.sec
      BY <1>6, <3>1 DEF Ordered
    <3>3. i \in 1 .. n - 1
      BY <1>1, <2>1
    <3> QED BY <1>2, <3>1, <3>2, <3>3
  <2>2. CASE k = n
    <3>1. j \in 1 .. n - 1 /\ j \in DOMAIN q /\ r[j] = q[j] /\ r[k] = p
      BY <1>1, <1>2, <1>6, <2>2
    <3>2. ~Minore(p.timeout, q[j].timeout)
      BY <3>1
    <3>3. /\ p.timeout \in Timeval /\ q[j].timeout \in Timeval
          /\ Normal(q[j].timeout) /\ Total(q[j].timeout) \in Int
      BY <3>1, Inversion DEF Element, Timeouts
    <3>4. Total(q[j].timeout) <= Total(p.timeout)
      BY <3>2, <3>3, MinoreOnNormal
    <3>5. Total(p.timeout) < Total(q[j].timeout)
      BY <1>1, <1>6, <3>1, Inversion
    <3>6. Total(p.timeout) \in Int
      BY <1>1, <3>1, Inversion
    <3> QED BY <3>3, <3>4, <3>5, <3>6
  <2>3. CASE k > n /\ j < n
    <3>1. /\ j \in DOMAIN q /\ r[j] = q[j]
          /\ k - 1 \in DOMAIN q /\ r[k] = q[k - 1] /\ j < k - 1
      BY <1>1, <1>2, <1>3, <1>4, <1>6, <2>3
    <3>2. PICK i \in j + 1 .. k - 1 : q[i].timeout.sec # q[j].timeout.sec
      BY <1>6, <3>1 DEF Ordered
    <3>3. CASE i < n
      <4>1. i \in 1 .. n - 1 /\ i \in j + 1 .. k
        BY <1>1, <3>3
      <4> QED BY <1>2, <3>1, <3>2, <4>1
    <3>4. CASE ~(i < n)
      <4>1. i \in n .. Len(q) /\ i + 1 \in j + 1 .. k
        BY <1>1, <3>4
      <4> QED BY <1>3, <3>1, <3>2, <4>1
    <3> QED BY <3>3, <3>4
  <2>4. CASE k > n /\ j = n
    <3> DEFINE f == q[n].timeout
    <3>1. /\ n \in DOMAIN q /\ n \in n .. Len(q) /\ r[j] = p /\ r[n + 1] = q[n]
          /\ k - 1 \in DOMAIN q /\ k - 1 \in n .. Len(q) /\ r[k] = q[k - 1]
          /\ n + 1 \in j + 1 .. k /\ n <= Len(q)
      BY <1>1, <1>2, <1>3, <1>4, <2>4
    <3>2. Minore(p.timeout, f)
      BY <3>1
    <3>3. CASE f.sec # p.timeout.sec
      BY <3>1, <3>3
    <3>4. CASE f.sec = p.timeout.sec
      <4>1. /\ p.timeout \in Timeval /\ f \in Timeval /\ Normal(f)
            /\ Total(f) \in Int
        BY <3>1, Inversion DEF Element, Timeouts
      <4>2. Total(p.timeout) < Total(f)
        BY <3>2, <3>4, <4>1, MinoreOnNormal
      <4>3. /\ Total(q[k - 1].timeout) < Total(p.timeout)
            /\ Total(q[k - 1].timeout) \in Int /\ Total(p.timeout) \in Int
        BY <1>1, <1>6, <3>1, Inversion
      <4>4. Total(q[k - 1].timeout) < Total(f)
        BY <4>1, <4>2, <4>3
      <4>5. ~MinoreOUguale(f, q[k - 1].timeout)
        BY <3>1, <4>4, Inversion
      <4>6. k - 1 # n
        BY <4>1, <4>4
      <4>7. n < k - 1
        BY <1>1, <3>1, <4>6
      <4>8. PICK i \in n + 1 .. k - 1 : q[i].timeout.sec # f.sec
        BY <3>1, <3>4, <4>5, <4>7 DEF Ordered
      <4>9. i \in n .. Len(q) /\ i + 1 \in j + 1 .. k
        BY <1>1, <2>4, <3>1
      <4> QED BY <1>3, <3>1, <3>4, <4>8, <4>9
    <3> QED BY <3>3, <3>4
  <2>5. CASE k > n /\ j > n
    <3>1. /\ j - 1 \in DOMAIN q /\ r[j] = q[j - 1]
          /\ k - 1 \in DOMAIN q /\ r[k] = q[k - 1] /\ j - 1 < k - 1
      BY <1>1, <1>3, <1>4, <1>6, <2>5
    <3>2. PICK i \in j - 1 + 1 .. k - 1 :
                 q[i].timeout.sec # q[j - 1].timeout.sec
      BY <1>6, <3>1 DEF Ordered
    <3>3. i \in n .. Len(q) /\ i + 1 \in j + 1 .. k
      BY <1>1, <2>5
    <3> QED BY <1>3, <3>1, <3>2, <3>3
  <2> QED BY <1>1, <1>6, <2>1, <2>2, <2>3, <2>4, <2>5
<1> QED BY <1>5, <1>6 DEF Ordered

-----------------------------------------------------------------------------
(* RitInv is inductive: one lemma for each action. *)

(* The initial states satisfy it. *)
LEMMA InitInv == RitInit => RitInv
<1> SUFFICES ASSUME RitInit PROVE RitInv
  OBVIOUS
<1>1. SecInMcsec \in Nat /\ now \in 0 .. SecInMcsec - 1 /\ NumChannels \in Nat
      /\ NumChannels > 0
  BY SecAssumption, ConstantsAssumption DEF RitInit
<1>2. sveglia \in Timeval
  BY <1>1, AfterType, RitardatoreAssumption DEF RitInit
<1>3. cambio \in [Channels -> Timeval]
  <2>1. ASSUME NEW ch \in Channels
        PROVE  [sec |-> FirstSecs + ch * StepSecs, usec |-> now] \in Timeval
    <3>1. ch \in Nat /\ FirstSecs \in Nat /\ StepSecs \in Nat /\ now \in Nat
      BY <1>1, RitardatoreAssumption DEF Channels
    <3>2. ch * StepSecs \in Nat
      BY <3>1
    <3>3. FirstSecs + ch * StepSecs \in Int
      BY <3>1, <3>2
    <3> QED BY <3>1, <3>3 DEF Timeval
  <2> QED BY <2>1 DEF RitInit
<1>4. buffer \in [Sockets -> Seq(ToReceiver \cup ToSender)] /\ root \in Seq(Element)
  BY DEF RitInit
<1>5. /\ arrived \in [Sides -> SUBSET (ToReceiver \cup ToSender)]
      /\ stato \in [Channels -> {0, 1}]
      /\ attivo \subseteq Channels /\ rdset \subseteq Sockets
      /\ fase \in {"select", "release", "burst", "receive"}
  BY DEF RitInit
<1>6. canale \in 0 .. NumChannels /\ lag \in 0 .. MaxLag
  BY <1>1, RitardatoreAssumption DEF RitInit
<1>7. RitTypeOK
  BY <1>1, <1>2, <1>3, <1>4, <1>5, <1>6 DEF RitTypeOK
<1>8. DOMAIN root = {} /\ \A s \in Sockets : Held(buffer[s]) = {}
  BY DEF RitInit, Held
<1>9. InvBuffers
  <2>1. ASSUME NEW ch \in Channels
        PROVE  /\ <<"latosender", ch>> \in Sockets
               /\ <<"latoreceiver", ch>> \in Sockets
    BY DEF Sockets, Sides
  <2> QED BY <1>8, <2>1 DEF InvBuffers
<1>10. InvReported /\ InvFaults
  BY DEF InvReported, InvFaults, RitInit
<1>11. InvTimeouts /\ InvOrder
  BY <1>8 DEF InvTimeouts, InvOrder
<1> QED BY <1>7, <1>9, <1>10, <1>11 DEF RitInv

(* The datagrams of a proxy are of its side. *)
LEMMA TrafficType ==
    ASSUME NEW side \in Sides, NEW m \in Traffic(side)
    PROVE  /\ m \in ToReceiver \cup ToSender /\ m.type = "B" /\ m.ch \in Channels
           /\ side = "latosender" => m \in ToReceiver
           /\ side = "latoreceiver" => m \in ToSender
           /\ <<side, m.ch>> \in Sockets
<1>1. /\ side = "latosender" => m \in ToReceiver
      /\ side = "latoreceiver" => m \in ToSender
      /\ m \in ToReceiver \cup ToSender /\ m.type = "B"
  BY DEF Traffic, Sides
<1>2. m.ch \in Channels
  BY <1>1 DEF ToReceiver, ToSender
<1> QED BY <1>1, <1>2 DEF Sockets

(* ProxySends. *)
LEMMA ProxySendsInv ==
    ASSUME RitInv, NEW side \in Sides, NEW m \in Traffic(side),
           ProxySends(side, m)
    PROVE  RitInv'
<1> DEFINE D == ToReceiver \cup ToSender
           s == <<side, m.ch>>
<1>1. /\ m \in D /\ m.type = "B" /\ m.ch \in Channels /\ s \in Sockets
      /\ side = "latosender" => m \in ToReceiver
      /\ side = "latoreceiver" => m \in ToSender
  BY TrafficType
<1>2. buffer \in [Sockets -> Seq(D)] /\ buffer[s] \in Seq(D)
  BY <1>1 DEF RitInv, RitTypeOK
<1>3. buffer' = [buffer EXCEPT ![s] = Append(buffer[s], m)]
  BY DEF ProxySends
<1>4. /\ Append(buffer[s], m) \in Seq(D) /\ Append(buffer[s], m) # << >>
      /\ Held(Append(buffer[s], m)) = Held(buffer[s]) \cup {m}
  <2>1. m \in D /\ buffer[s] \in Seq(D)
    BY <1>1, <1>2
  <2> HIDE DEF D
  <2> QED BY <2>1, HeldAppend
<1>5. /\ buffer' \in [Sockets -> Seq(D)]
      /\ buffer'[s] = Append(buffer[s], m)
      /\ \A t \in Sockets : t # s => buffer'[t] = buffer[t]
  BY <1>1, <1>2, <1>3, <1>4
<1>6. RitTypeOK'
  BY <1>5 DEF RitInv, RitTypeOK, ProxySends, clockVars, loopVars
<1>7. InvBuffers'
  <2> SUFFICES ASSUME NEW ch \in Channels
               PROVE  /\ Held(buffer'[<<"latosender", ch>>])
                            \subseteq {x \in ToReceiver : x.type = "B" /\ x.ch = ch}
                      /\ Held(buffer'[<<"latoreceiver", ch>>])
                            \subseteq {x \in ToSender : x.type = "B" /\ x.ch = ch}
    BY DEF InvBuffers
  <2>1. <<"latosender", ch>> \in Sockets /\ <<"latoreceiver", ch>> \in Sockets
    BY DEF Sockets, Sides
  <2>2. /\ Held(buffer[<<"latosender", ch>>])
              \subseteq {x \in ToReceiver : x.type = "B" /\ x.ch = ch}
        /\ Held(buffer[<<"latoreceiver", ch>>])
              \subseteq {x \in ToSender : x.type = "B" /\ x.ch = ch}
    BY DEF RitInv, InvBuffers
  <2>3. Held(buffer'[<<"latosender", ch>>])
           \subseteq {x \in ToReceiver : x.type = "B" /\ x.ch = ch}
    <3>1. CASE s = <<"latosender", ch>>
      BY <1>1, <1>4, <1>5, <2>2, <3>1
    <3>2. CASE s # <<"latosender", ch>>
      BY <1>5, <2>1, <2>2, <3>2
    <3> QED BY <3>1, <3>2
  <2>4. Held(buffer'[<<"latoreceiver", ch>>])
           \subseteq {x \in ToSender : x.type = "B" /\ x.ch = ch}
    <3>1. CASE s = <<"latoreceiver", ch>>
      BY <1>1, <1>4, <1>5, <2>2, <3>1
    <3>2. CASE s # <<"latoreceiver", ch>>
      BY <1>5, <2>1, <2>2, <3>2
    <3> QED BY <3>1, <3>2
  <2> QED BY <2>3, <2>4
<1>8. rdset' = rdset /\ rdset \subseteq Sockets /\ root' = root
      /\ attivo' = attivo /\ stato' = stato
  BY DEF RitInv, RitTypeOK, ProxySends, loopVars
<1>9. InvReported'
  BY <1>4, <1>5, <1>8 DEF RitInv, InvReported
<1>10. InvFaults' /\ InvTimeouts' /\ InvOrder'
  BY <1>8 DEF RitInv, InvFaults, InvTimeouts, InvOrder
<1> QED BY <1>6, <1>7, <1>9, <1>10 DEF RitInv

(* What is left of arrived is of its type. *)
LEMMA ProxyReceivesInv ==
    ASSUME RitInv, NEW side \in Sides, ProxyReceives(side)
    PROVE  RitInv'
<1> DEFINE D == ToReceiver \cup ToSender
<1>1. PICK m \in arrived[side] : \E rest \in Remains(arrived[side], m) :
                arrived' = [arrived EXCEPT ![side] = rest]
  BY DEF ProxyReceives
<1>2. PICK rest \in Remains(arrived[side], m) :
                arrived' = [arrived EXCEPT ![side] = rest]
  BY <1>1
<1>3. arrived \in [Sides -> SUBSET D]
  BY DEF RitInv, RitTypeOK
<1>4. rest \subseteq arrived[side]
  BY <1>2 DEF Remains
<1>5. rest \in SUBSET D
  BY <1>3, <1>4
<1>6. arrived' \in [Sides -> SUBSET D]
  BY <1>2, <1>3, <1>5
<1>7. UNCHANGED <<clockVars, buffer, root, stato, attivo, loopVars>>
  BY DEF ProxyReceives
<1>8. RitTypeOK'
  BY <1>6, <1>7 DEF RitInv, RitTypeOK, clockVars, loopVars
<1>9. InvBuffers' /\ InvReported' /\ InvFaults'
  BY <1>7 DEF RitInv, InvBuffers, InvReported, InvFaults, loopVars
<1>10. InvTimeouts' /\ InvOrder'
  BY <1>7 DEF RitInv, InvTimeouts, InvOrder
<1> QED BY <1>8, <1>9, <1>10 DEF RitInv

(* The actions of the loop that move no datagram. *)
LEMMA QuietInv ==
    ASSUME RitInv,
           Select \/ EndRelease \/ EndBurst \/ CambiaStato \/ EndReceive
    PROVE  RitInv'
<1>1. CASE Select
  <2>1. rdset' = Readable /\ fase' = "release"
        /\ UNCHANGED <<clockVars, buffer, root, arrived, stato, attivo, canale,
                       lag>>
    BY <1>1 DEF Select
  <2>2. rdset' \subseteq Sockets /\ \A s \in rdset' : buffer'[s] # << >>
    BY <2>1 DEF Readable
  <2>3. RitTypeOK'
    BY <2>1, <2>2 DEF RitInv, RitTypeOK, clockVars
  <2> QED
    BY <2>1, <2>2, <2>3 DEF RitInv, InvBuffers, InvReported, InvFaults,
       InvTimeouts, InvOrder
<1>2. CASE EndRelease
  <2>1. fase' = "burst" /\ canale' = 0
        /\ UNCHANGED <<clockVars, buffer, root, arrived, stato, attivo, rdset,
                       lag>>
    BY <1>2 DEF EndRelease
  <2>2. canale' \in 0 .. NumChannels
    BY <2>1, ConstantsAssumption
  <2>3. RitTypeOK'
    BY <2>1, <2>2 DEF RitInv, RitTypeOK, clockVars
  <2> QED
    BY <2>1, <2>3 DEF RitInv, InvBuffers, InvReported, InvFaults, InvTimeouts,
       InvOrder
<1>3. CASE EndBurst
  <2>1. fase' = "receive"
        /\ UNCHANGED <<clockVars, buffer, root, arrived, stato, attivo, rdset,
                       canale, lag>>
    BY <1>3 DEF EndBurst
  <2>2. RitTypeOK'
    BY <2>1 DEF RitInv, RitTypeOK, clockVars
  <2> QED
    BY <2>1, <2>2 DEF RitInv, InvBuffers, InvReported, InvFaults, InvTimeouts,
       InvOrder
<1>4. CASE CambiaStato
  <2>1. /\ canale < NumChannels /\ canale' = canale + 1
        /\ UNCHANGED <<now, sveglia, buffer, root, arrived, attivo, fase, rdset,
                       lag>>
    BY <1>4 DEF CambiaStato
  <2>2. canale' \in 0 .. NumChannels /\ canale \in Channels
    BY <2>1, ConstantsAssumption DEF RitInv, RitTypeOK, Channels
  <2>3. /\ stato' \in [Channels -> {0, 1}] /\ cambio' \in [Channels -> Timeval]
        /\ "loss" \in Faults \/ stato' = stato
    <3> DEFINE changes == /\ "loss" \in Faults /\ canale \in attivo
                          /\ MinoreOUguale(cambio[canale], Now)
    <3>1. CASE changes
      <4>1. "loss" \in Faults /\ stato' = [stato EXCEPT ![canale] = 1 - @]
        BY <1>4, <3>1 DEF CambiaStato
      <4>2. stato' \in [Channels -> {0, 1}]
        <5>1. stato \in [Channels -> {0, 1}]
          BY DEF RitInv, RitTypeOK
        <5>2. 1 - stato[canale] \in {0, 1}
          BY <2>2, <5>1
        <5> QED BY <2>2, <4>1, <5>1, <5>2
      <4>3. PICK d \in IF stato[canale] = 1 THEN Bursts ELSE Sendings :
                   cambio' = [cambio EXCEPT ![canale] = After(d)]
        BY <1>4, <3>1 DEF CambiaStato
      <4>4. d \in Nat
        BY RitardatoreAssumption
      <4>5. After(d) \in Timeval
        BY <4>4, AfterType DEF RitInv, RitTypeOK
      <4>6. cambio' \in [Channels -> Timeval]
        BY <2>2, <4>3, <4>5 DEF RitInv, RitTypeOK
      <4> QED BY <4>1, <4>2, <4>6
    <3>2. CASE ~changes
      <4>1. stato' = stato /\ cambio' = cambio
        BY <1>4, <3>2 DEF CambiaStato
      <4> QED BY <4>1 DEF RitInv, RitTypeOK
    <3> QED BY <3>1, <3>2
  <2>4. RitTypeOK'
    BY <2>1, <2>2, <2>3 DEF RitInv, RitTypeOK
  <2>5. InvFaults'
    BY <2>1, <2>3 DEF RitInv, InvFaults
  <2> QED
    BY <2>1, <2>4, <2>5 DEF RitInv, InvBuffers, InvReported, InvTimeouts,
       InvOrder
<1>5. CASE EndReceive
  <2>1. /\ fase' = "select" /\ rdset' = {} /\ lag' = 0
        /\ sveglia' = Sveglia(root, Now)
        /\ UNCHANGED <<now, cambio, buffer, root, arrived, stato, attivo, canale>>
    BY <1>5 DEF EndReceive
  <2>2. Now \in Timeval
    BY SecAssumption DEF RitInv, RitTypeOK, Now, Timeval
  <2>3. sveglia' \in Timeval /\ lag' \in 0 .. MaxLag
    BY <2>1, <2>2, SvegliaType, RitardatoreAssumption DEF RitInv, RitTypeOK
  <2>4. RitTypeOK'
    BY <2>1, <2>3 DEF RitInv, RitTypeOK
  <2> QED
    BY <2>1, <2>4 DEF RitInv, InvBuffers, InvReported, InvFaults, InvTimeouts,
       InvOrder
<1> QED BY <1>1, <1>2, <1>3, <1>4, <1>5

(* What the release of the first element does to the list. *)
LEMMA ReleaseStep ==
    ASSUME RitInv, Release
    PROVE  /\ root # << >> /\ root[1] \in Element /\ root' = Tail(root)
           /\ root' \in Seq(Element)
           /\ Held(root) = {root[1]} \cup Held(root')
           /\ InvTimeouts' /\ InvOrder'
           /\ UNCHANGED <<clockVars, buffer, stato, attivo, loopVars>>
<1>1. root # << >> /\ root' = Tail(root) /\ root \in Seq(Element)
      /\ UNCHANGED <<clockVars, buffer, stato, attivo, loopVars>>
  BY DEF Release, RitInv, RitTypeOK
<1>2. /\ root[1] \in Element /\ Tail(root) \in Seq(Element)
      /\ Held(root) = {root[1]} \cup Held(Tail(root))
  <2> HIDE DEF Element
  <2> QED BY <1>1, HeldTail
<1>3. Ordered(root) /\ Timeouts(root)
  BY DEF RitInv, InvOrder, InvTimeouts, Ordered, Timeouts
<1>4. Ordered(Tail(root)) /\ Timeouts(Tail(root))
  BY <1>1, <1>3, OrderedTail
<1>5. Ordered(root') /\ Timeouts(root')
  BY <1>1, <1>4
<1>6. InvOrder' /\ InvTimeouts'
  BY <1>5 DEF InvOrder, InvTimeouts, Ordered, Timeouts
<1> QED BY <1>1, <1>2, <1>6

(* Release. *)
LEMMA ReleaseInv ==
    ASSUME RitInv, Release
    PROVE  RitInv'
<1> DEFINE D == ToReceiver \cup ToSender
           e == root[1]
<1>1. /\ e \in Element /\ root' \in Seq(Element)
      /\ UNCHANGED <<clockVars, buffer, stato, attivo, loopVars>>
      /\ InvTimeouts' /\ InvOrder'
  BY ReleaseStep
<1>2. e.pkt \in D /\ e.side \in Sides
  BY <1>1 DEF Element
<1>3. arrived \in [Sides -> SUBSET D]
  BY DEF RitInv, RitTypeOK
<1>4. arrived' \in [Sides -> SUBSET D]
  <2>1. CASE e.pkt.ch \in attivo
    <3>1. arrived' = [arrived EXCEPT ![e.side] = arrived[e.side] \cup {e.pkt}]
      BY <2>1 DEF Release
    <3>2. arrived[e.side] \cup {e.pkt} \in SUBSET D
      BY <1>2, <1>3
    <3> QED BY <1>3, <3>1, <3>2
  <2>2. CASE ~(e.pkt.ch \in attivo)
    <3>1. arrived' = arrived
      BY <2>2 DEF Release
    <3> QED BY <1>3, <3>1
  <2> QED BY <2>1, <2>2
<1>5. RitTypeOK'
  BY <1>1, <1>4 DEF RitInv, RitTypeOK, clockVars, loopVars
<1>6. InvBuffers' /\ InvReported' /\ InvFaults'
  BY <1>1 DEF RitInv, InvBuffers, InvReported, InvFaults, loopVars
<1> QED BY <1>1, <1>5, <1>6 DEF RitInv

(* What ricevo_inserisco does to the socket that it reads. *)
LEMMA TakesStep ==
    ASSUME RitInv, NEW s \in Sockets, Takes(s)
    PROVE  LET D == ToReceiver \cup ToSender
           IN  /\ s \in rdset /\ s[2] \in attivo /\ rdset' \subseteq Sockets
               /\ Head(buffer[s]) \in D
               /\ buffer' \in [Sockets -> Seq(D)]
               /\ Held(buffer[s]) = {Head(buffer[s])} \cup Held(buffer'[s])
               /\ \A t \in Sockets : t # s => buffer'[t] = buffer[t]
               /\ InvBuffers' /\ InvReported'
<1> DEFINE D == ToReceiver \cup ToSender
<1>1. s \in rdset /\ s[2] \in attivo /\ rdset' = rdset \ {s}
      /\ buffer' = [buffer EXCEPT ![s] = Tail(buffer[s])]
  BY DEF Takes, NextToRead, ToRead
<1>2. /\ buffer \in [Sockets -> Seq(D)] /\ buffer[s] \in Seq(D)
      /\ buffer[s] # << >> /\ rdset \subseteq Sockets
  BY <1>1 DEF RitInv, RitTypeOK, InvReported
<1>3. /\ Head(buffer[s]) \in D /\ Tail(buffer[s]) \in Seq(D)
      /\ Held(buffer[s]) = {Head(buffer[s])} \cup Held(Tail(buffer[s]))
  <2>1. buffer[s] \in Seq(D) /\ buffer[s] # << >>
    BY <1>2
  <2> HIDE DEF D
  <2> QED BY <2>1, HeldTail
<1>4. /\ buffer' \in [Sockets -> Seq(D)] /\ buffer'[s] = Tail(buffer[s])
      /\ \A t \in Sockets : t # s => buffer'[t] = buffer[t]
  BY <1>1, <1>2, <1>3
<1>5. \A t \in Sockets : Held(buffer'[t]) \subseteq Held(buffer[t])
  <2>1. ASSUME NEW t \in Sockets PROVE Held(buffer'[t]) \subseteq Held(buffer[t])
    <3>1. CASE t = s
      BY <1>3, <1>4, <3>1
    <3>2. CASE t # s
      BY <1>4, <3>2
    <3> QED BY <3>1, <3>2
  <2> QED BY <2>1
<1>6. \A ch \in Channels : /\ <<"latosender", ch>> \in Sockets
                           /\ <<"latoreceiver", ch>> \in Sockets
  BY DEF Sockets, Sides
<1>7. InvBuffers'
  <2>1. ASSUME NEW ch \in Channels
        PROVE  /\ Held(buffer'[<<"latosender", ch>>])
                     \subseteq {m \in ToReceiver : m.type = "B" /\ m.ch = ch}
               /\ Held(buffer'[<<"latoreceiver", ch>>])
                     \subseteq {m \in ToSender : m.type = "B" /\ m.ch = ch}
    <3>1. /\ Held(buffer[<<"latosender", ch>>])
                \subseteq {m \in ToReceiver : m.type = "B" /\ m.ch = ch}
          /\ Held(buffer[<<"latoreceiver", ch>>])
                \subseteq {m \in ToSender : m.type = "B" /\ m.ch = ch}
      BY DEF RitInv, InvBuffers
    <3>2. /\ Held(buffer'[<<"latosender", ch>>])
                \subseteq Held(buffer[<<"latosender", ch>>])
          /\ Held(buffer'[<<"latoreceiver", ch>>])
                \subseteq Held(buffer[<<"latoreceiver", ch>>])
      BY <1>5, <1>6
    <3> QED BY <3>1, <3>2
  <2> QED BY <2>1 DEF InvBuffers
<1>8. InvReported'
  <2>1. ASSUME NEW t \in rdset' PROVE buffer'[t] # << >>
    <3>1. t # s /\ t \in Sockets /\ buffer[t] # << >>
      BY <1>1, <1>2 DEF RitInv, InvReported
    <3> QED BY <1>4, <3>1
  <2> QED BY <2>1 DEF InvReported
<1> QED BY <1>1, <1>2, <1>3, <1>4, <1>7, <1>8

(* What aggiungi_in_ordine does to the list. *)
LEMMA InsertStep ==
    ASSUME RitInv, NEW p \in Element, Normal(p.timeout), p.timeout.sec >= 0,
           AggiungiInOrdine(p)
    PROVE  /\ root' \in Seq(Element)
           /\ Held(root') = Held(root) \cup {p}
           /\ InvTimeouts' /\ InvOrder'
<1>1. PICK n \in 1 .. Len(root) + 1 :
              /\ \A k \in 1 .. n - 1 : ~Minore(p.timeout, root[k].timeout)
              /\ n <= Len(root) => Minore(p.timeout, root[n].timeout)
              /\ root' = InsertedAt(root, n, p)
  BY DEF AggiungiInOrdine, InsertedAt
<1>2. root \in Seq(Element)
  BY DEF RitInv, RitTypeOK
<1>3. Ordered(root) /\ Timeouts(root)
  BY DEF RitInv, InvOrder, InvTimeouts, Ordered, Timeouts
<1>4. root' \in Seq(Element) /\ Held(root') = Held(root) \cup {p}
  <2> HIDE DEF Element
  <2> QED BY <1>1, <1>2, HeldInserted
<1>5. Ordered(InsertedAt(root, n, p)) /\ Timeouts(InsertedAt(root, n, p))
  <2> HIDE DEF Element
  <2> QED BY <1>1, <1>2, <1>3, OrderedInserted
<1>6. Ordered(root') /\ Timeouts(root')
  BY <1>1, <1>5
<1>7. InvOrder' /\ InvTimeouts'
  BY <1>6 DEF InvOrder, InvTimeouts, Ordered, Timeouts
<1> QED BY <1>4, <1>7

(* A note is a datagram. *)
LEMMA IcmpType ==
    ASSUME NEW ch \in Channels
    PROVE  /\ IcmpPkt(ch) \in ToReceiver \cap ToSender
           /\ IcmpPkt(ch).ch = ch /\ IcmpPkt(ch).type = "I"
<1>1. 0 \in Ids /\ 0 \in 0 .. NumChunks
  BY ConstantsAssumption DEF Ids
<1> QED BY <1>1 DEF IcmpPkt, ToReceiver, ToSender

(* The element that a datagram, or a note in its place, becomes. *)
LEMMA ReceiveStep ==
    ASSUME RitInv, NEW s \in Sockets, NEW pkt \in ToReceiver \cup ToSender,
           NEW side \in Sides, NEW d \in Delays,
           AggiungiInOrdine([pkt |-> pkt, side |-> side, timeout |-> After(d)])
    PROVE  /\ root' \in Seq(Element)
           /\ Held(root') = Held(root)
                 \cup {[pkt |-> pkt, side |-> side, timeout |-> After(d)]}
           /\ InvTimeouts' /\ InvOrder'
<1> DEFINE e == [pkt |-> pkt, side |-> side, timeout |-> After(d)]
<1>1. d \in Nat /\ now \in 0 .. SecInMcsec - 1
  BY RitardatoreAssumption DEF RitInv, RitTypeOK
<1>2. After(d) \in Timeval /\ Normal(After(d)) /\ After(d).sec >= 0
  BY <1>1, AfterType
<1>3. e \in Element
  BY <1>2 DEF Element
<1>4. e.timeout = After(d)
  OBVIOUS
<1>5. Normal(e.timeout) /\ e.timeout.sec >= 0
  BY <1>2, <1>4
<1> HIDE DEF e
<1>6. AggiungiInOrdine(e)
  BY DEF e
<1>7. Held(root') = Held(root) \cup {e} /\ root' \in Seq(Element)
      /\ InvTimeouts' /\ InvOrder'
  BY <1>3, <1>5, <1>6, InsertStep
<1> QED BY <1>7 DEF e

(* The other socket of the pair. *)
LEMMA OppositeType ==
    \A side \in Sides :
        /\ Opposite(side) \in Sides /\ Opposite(side) # side
        /\ Opposite(Opposite(side)) = side
<1> QED BY DEF Sides, Opposite

(* ricevo_inserisco. *)
LEMMA ReceiveInv ==
    ASSUME RitInv, NEW s \in Sockets,
           ScartaSenzaIcmp(s) \/ ScartaConIcmp(s) \/ Inoltra(s)
    PROVE  RitInv'
<1>1. /\ Takes(s)
      /\ UNCHANGED <<clockVars, arrived, stato, attivo, fase, canale, lag>>
  BY DEF ScartaSenzaIcmp, ScartaConIcmp, Inoltra
<1>2. /\ rdset' \subseteq Sockets
      /\ Head(buffer[s]) \in ToReceiver \cup ToSender
      /\ buffer' \in [Sockets -> Seq(ToReceiver \cup ToSender)]
      /\ InvBuffers' /\ InvReported'
  BY <1>1, TakesStep
<1>3. s[1] \in Sides /\ s[2] \in Channels /\ Opposite(s[1]) \in Sides
  BY OppositeType DEF Sockets
<1>4. root' \in Seq(Element) /\ InvTimeouts' /\ InvOrder'
  <2>1. CASE ScartaSenzaIcmp(s)
    <3>1. root' = root
      BY <2>1 DEF ScartaSenzaIcmp
    <3> QED BY <3>1 DEF RitInv, RitTypeOK, InvTimeouts, InvOrder
  <2>2. CASE ScartaConIcmp(s)
    <3>1. PICK d \in Delays :
            AggiungiInOrdine([pkt |-> IcmpPkt(s[2]), side |-> s[1],
                              timeout |-> After(d)])
      BY <2>2 DEF ScartaConIcmp
    <3>2. IcmpPkt(s[2]) \in ToReceiver \cup ToSender
      BY <1>3, IcmpType
    <3> QED BY <1>3, <3>1, <3>2, ReceiveStep
  <2>3. CASE Inoltra(s)
    <3>1. PICK d \in Delays :
            AggiungiInOrdine([pkt |-> Head(buffer[s]), side |-> Opposite(s[1]),
                              timeout |-> After(d)])
      BY <2>3 DEF Inoltra
    <3> QED BY <1>2, <1>3, <3>1, ReceiveStep
  <2> QED BY <2>1, <2>2, <2>3
<1>5. RitTypeOK'
  BY <1>1, <1>2, <1>4 DEF RitInv, RitTypeOK, clockVars
<1>6. InvFaults'
  BY <1>1 DEF RitInv, InvFaults
<1> QED BY <1>2, <1>4, <1>5, <1>6 DEF RitInv

(* A recvfrom that fails with ECONNRESET. *)
LEMMA NonChiudoInv ==
    ASSUME RitInv, NEW s \in Sockets, NonChiudo(s)
    PROVE  RitInv'
<1>1. /\ rdset' = rdset \ {s}
      /\ UNCHANGED <<clockVars, buffer, root, arrived, stato, attivo, fase,
                     canale, lag>>
  BY DEF NonChiudo
<1>2. RitTypeOK'
  BY <1>1 DEF RitInv, RitTypeOK, clockVars
<1> QED
  BY <1>1, <1>2 DEF RitInv, InvBuffers, InvReported, InvFaults, InvTimeouts,
     InvOrder

(* close_coppia. *)
LEMMA ChiudiCoppiaInv ==
    ASSUME RitInv, NEW s \in Sockets, ChiudiCoppia(s)
    PROVE  RitInv'
<1>1. /\ "loss" \in Faults /\ attivo' = attivo \ {s[2]} /\ rdset' = rdset \ {s}
      /\ UNCHANGED <<clockVars, buffer, root, arrived, stato, fase, canale, lag>>
  BY DEF ChiudiCoppia
<1>2. RitTypeOK'
  BY <1>1 DEF RitInv, RitTypeOK, clockVars
<1> QED
  BY <1>1, <1>2 DEF RitInv, InvBuffers, InvReported, InvFaults, InvTimeouts,
     InvOrder

(* What a second does to the list: it holds the same datagrams. *)
LEMMA TickStep ==
    ASSUME RitInv, Tick
    PROVE  /\ root' \in Seq(Element) /\ DOMAIN root' = DOMAIN root
           /\ \A k \in DOMAIN root :
                 root'[k].pkt = root[k].pkt /\ root'[k].side = root[k].side
           /\ InvTimeouts' /\ InvOrder'
<1>1. root \in Seq(Element)
  BY DEF RitInv, RitTypeOK
<1>2. CASE now + 1 < SecInMcsec
  <2>1. root' = root
    BY <1>2 DEF Tick
  <2> QED BY <1>1, <2>1 DEF RitInv, InvTimeouts, InvOrder
<1>3. CASE ~(now + 1 < SecInMcsec)
  <2> DEFINE r == [k \in DOMAIN root |->
                      [root[k] EXCEPT !.timeout = Older(root[k].timeout)]]
  <2>1. root' = r
    BY <1>3 DEF Tick
  <2>2. Ordered(root) /\ Timeouts(root)
    BY DEF RitInv, InvOrder, InvTimeouts, Ordered, Timeouts
  <2>3. /\ r \in Seq(Element) /\ Ordered(r) /\ Timeouts(r) /\ DOMAIN r = DOMAIN root
        /\ \A k \in DOMAIN root :
              r[k].pkt = root[k].pkt /\ r[k].side = root[k].side
    <3> HIDE DEF Element
    <3> QED BY <1>1, <2>2, OrderedOlder
  <2> HIDE DEF r
  <2>4. Ordered(root') /\ Timeouts(root')
    BY <2>1, <2>3
  <2>5. InvOrder' /\ InvTimeouts'
    BY <2>4 DEF InvOrder, InvTimeouts, Ordered, Timeouts
  <2> QED BY <2>1, <2>3, <2>5
<1> QED BY <1>2, <1>3

(* Tick. *)
LEMMA TickInv ==
    ASSUME RitInv, Tick
    PROVE  RitInv'
<1>1. /\ SecInMcsec \in Nat /\ SecInMcsec > 0 /\ now \in 0 .. SecInMcsec - 1
      /\ lag \in 0 .. MaxLag /\ MaxLag \in Nat
      /\ cambio \in [Channels -> Timeval] /\ sveglia \in Timeval
  BY SecAssumption, RitardatoreAssumption DEF RitInv, RitTypeOK
<1>2. /\ UNCHANGED <<buffer, arrived, stato, attivo, fase, rdset, canale>>
      /\ lag' = lag \/ (lag < MaxLag /\ lag' = lag + 1)
  BY DEF Tick
<1>3. lag' \in 0 .. MaxLag
  BY <1>1, <1>2
<1>4. /\ now' \in 0 .. SecInMcsec - 1
      /\ cambio' \in [Channels -> Timeval] /\ sveglia' \in Timeval
  <2>1. CASE now + 1 < SecInMcsec
    <3>1. now' = now + 1 /\ cambio' = cambio /\ sveglia' = sveglia
      BY <2>1 DEF Tick
    <3> QED BY <1>1, <2>1, <3>1
  <2>2. CASE ~(now + 1 < SecInMcsec)
    <3>1. /\ now' = 0 /\ sveglia' = Older(sveglia)
          /\ cambio' = [ch \in Channels |-> Older(cambio[ch])]
      BY <2>2 DEF Tick
    <3>2. \A ch \in Channels : Older(cambio[ch]) \in Timeval
      BY <1>1, OlderType
    <3>3. Older(sveglia) \in Timeval
      BY <1>1, OlderType
    <3> QED BY <1>1, <3>1, <3>2, <3>3
  <2> QED BY <2>1, <2>2
<1>5. root' \in Seq(Element) /\ InvTimeouts' /\ InvOrder'
  BY TickStep
<1>6. RitTypeOK'
  BY <1>2, <1>3, <1>4, <1>5 DEF RitInv, RitTypeOK
<1>7. InvBuffers' /\ InvReported' /\ InvFaults'
  BY <1>2 DEF RitInv, InvBuffers, InvReported, InvFaults
<1> QED BY <1>5, <1>6, <1>7 DEF RitInv

(* The inductive invariant holds in every run of the Ritardatore. *)
THEOREM RitInvariant == RitSpec => []RitInv
<1>1. RitInit => RitInv
  BY InitInv
<1>2. RitInv /\ [RitNext]_ritVars => RitInv'
  <2> SUFFICES ASSUME RitInv, [RitNext]_ritVars PROVE RitInv'
    OBVIOUS
  <2>1. CASE \E side \in Sides : \E m \in Traffic(side) : ProxySends(side, m)
    BY <2>1, ProxySendsInv
  <2>2. CASE \E side \in Sides : ProxyReceives(side)
    BY <2>2, ProxyReceivesInv
  <2>3. CASE Select \/ EndRelease \/ EndBurst \/ CambiaStato \/ EndReceive
    BY <2>3, QuietInv
  <2>4. CASE Release
    BY <2>4, ReleaseInv
  <2>5. CASE \E s \in Sockets :
                ScartaSenzaIcmp(s) \/ ScartaConIcmp(s) \/ Inoltra(s)
    BY <2>5, ReceiveInv
  <2>6. CASE \E s \in Sockets : NonChiudo(s) \/ ChiudiCoppia(s)
    BY <2>6, NonChiudoInv, ChiudiCoppiaInv
  <2>7. CASE Tick
    BY <2>7, TickInv
  <2>8. CASE UNCHANGED ritVars
    BY <2>8 DEF ritVars, RitInv, RitTypeOK, InvBuffers, InvReported, InvFaults,
       InvTimeouts, InvOrder
  <2> QED
    BY <2>1, <2>2, <2>3, <2>4, <2>5, <2>6, <2>7, <2>8 DEF RitNext, Proxy, Loop
<1> QED BY <1>1, <1>2, PTL DEF RitSpec

(* RitTypeOK: the variables of the Ritardatore have their types; in particular
   cambia_stato looks at no channel that does not exist. *)
THEOREM RitTypeCorrect == RitSpec => []RitTypeOK
<1>1. RitInv => RitTypeOK
  BY DEF RitInv
<1> QED BY <1>1, RitInvariant, PTL

(* SortedWithinASecond: while the timeouts of the list are in one second, the
   list is in the order of its timeouts, for all delays and whatever has been
   inserted and released before. *)
THEOREM ListSortedWithinASecond == RitSpec => []SortedWithinASecond
<1>1. RitInv => SortedWithinASecond
  <2> SUFFICES ASSUME RitInv, NEW sec \in {0, 1},
                      \A k \in DOMAIN root : root[k].timeout.sec = sec,
                      NEW j \in DOMAIN root, NEW k \in DOMAIN root, j < k
               PROVE  MinoreOUguale(root[j].timeout, root[k].timeout)
    BY DEF SortedWithinASecond
  <2>1. ASSUME ~MinoreOUguale(root[j].timeout, root[k].timeout) PROVE FALSE
    <3>1. root[j].timeout.sec >= 0
      OBVIOUS
    <3>2. PICK i \in j + 1 .. k : root[i].timeout.sec # root[j].timeout.sec
      BY <2>1, <3>1 DEF RitInv, InvOrder
    <3>3. i \in DOMAIN root
      <4>1. root \in Seq(Element)
        BY DEF RitInv, RitTypeOK
      <4>2. DOMAIN root = 1 .. Len(root) /\ Len(root) \in Nat
        BY <4>1
      <4> QED BY <4>2
    <3> QED BY <3>2, <3>3
  <2> QED BY <2>1
<1> QED BY <1>1, RitInvariant, PTL

-----------------------------------------------------------------------------
(* What is on its way. *)

(* The parts of OnItsWay in the buffers b and in the list r. *)
Unread(b, side) == UNION {Held(b[<<Opposite(side), ch>>]) : ch \in Channels}
Delayed(r, side) == {e.pkt : e \in {f \in Held(r) : f.side = side}}

(* The buffers c are the buffers b with m added to that of socket s. *)
OneMore(b, c, s, m) ==
    /\ \A t \in Sockets : t # s => c[t] = b[t]
    /\ Held(c[s]) = Held(b[s]) \cup {m}

(* A datagram more in the buffer of one socket is a datagram more on its way
   to the opposite side, and to no other. *)
LEMMA UnreadAdded ==
    ASSUME NEW b, NEW c, NEW s \in Sockets, NEW m, OneMore(b, c, s, m)
    PROVE  /\ Unread(c, Opposite(s[1])) = Unread(b, Opposite(s[1])) \cup {m}
           /\ Unread(c, s[1]) = Unread(b, s[1])
<1> DEFINE o == Opposite(s[1])
<1>1. /\ s[1] \in Sides /\ s[2] \in Channels /\ s = <<s[1], s[2]>>
      /\ o \in Sides /\ o # s[1] /\ Opposite(o) = s[1]
  BY OppositeType DEF Sockets
<1>2. \A ch \in Channels : /\ <<o, ch>> \in Sockets /\ <<o, ch>> # s
                           /\ <<s[1], ch>> \in Sockets
                           /\ ch # s[2] => <<s[1], ch>> # s
  BY <1>1 DEF Sockets
<1>3. Unread(c, s[1]) = Unread(b, s[1])
  <2>1. \A ch \in Channels : c[<<o, ch>>] = b[<<o, ch>>]
    BY <1>2 DEF OneMore
  <2> QED BY <2>1 DEF Unread
<1>4. \A ch \in Channels : ch # s[2] => c[<<s[1], ch>>] = b[<<s[1], ch>>]
  BY <1>2 DEF OneMore
<1>5. \A x : x \in Unread(c, o)
                <=> \E ch \in Channels : x \in Held(c[<<s[1], ch>>])
  BY <1>1 DEF Unread
<1>6. \A x : x \in Unread(b, o)
                <=> \E ch \in Channels : x \in Held(b[<<s[1], ch>>])
  BY <1>1 DEF Unread
<1>7. Held(c[<<s[1], s[2]>>]) = Held(b[<<s[1], s[2]>>]) \cup {m}
  BY <1>1 DEF OneMore
<1>8. ASSUME NEW x \in Unread(c, o) PROVE x \in Unread(b, o) \cup {m}
  <2>1. PICK ch \in Channels : x \in Held(c[<<s[1], ch>>])
    BY <1>5
  <2>2. CASE ch = s[2]
    BY <1>1, <1>6, <1>7, <2>1, <2>2
  <2>3. CASE ch # s[2]
    BY <1>4, <1>6, <2>1, <2>3
  <2> QED BY <2>2, <2>3
<1>9. ASSUME NEW x \in Unread(b, o) \cup {m} PROVE x \in Unread(c, o)
  <2>1. CASE x = m
    BY <1>1, <1>5, <1>7, <2>1
  <2>2. CASE x \in Unread(b, o)
    <3>1. PICK ch \in Channels : x \in Held(b[<<s[1], ch>>])
      BY <1>6, <2>2
    <3>2. CASE ch = s[2]
      BY <1>1, <1>5, <1>7, <3>1, <3>2
    <3>3. CASE ch # s[2]
      BY <1>4, <1>5, <3>1, <3>3
    <3> QED BY <3>2, <3>3
  <2> QED BY <2>1, <2>2
<1>10. Unread(c, o) = Unread(b, o) \cup {m}
  BY <1>8, <1>9
<1> QED BY <1>3, <1>10

(* An element more in the list is a datagram more on its way to its side. *)
LEMMA DelayedAdded ==
    ASSUME NEW q, NEW r, NEW p, Held(r) = Held(q) \cup {p}
    PROVE  /\ Delayed(r, p.side) = Delayed(q, p.side) \cup {p.pkt}
           /\ \A side : side # p.side => Delayed(r, side) = Delayed(q, side)
<1>1. \A side, x : x \in Delayed(r, side)
                      <=> \E f \in Held(r) : f.side = side /\ x = f.pkt
  BY DEF Delayed
<1>2. \A side, x : x \in Delayed(q, side)
                      <=> \E f \in Held(q) : f.side = side /\ x = f.pkt
  BY DEF Delayed
<1>3. \A x : x \in Delayed(r, p.side) <=> x \in Delayed(q, p.side) \/ x = p.pkt
  BY <1>1, <1>2
<1>4. \A side : side # p.side =>
         \A x : x \in Delayed(r, side) <=> x \in Delayed(q, side)
  BY <1>1, <1>2
<1> QED BY <1>3, <1>4

(* A second more changes nothing of it. *)
LEMMA DelayedOlder ==
    ASSUME NEW q, NEW r, DOMAIN r = DOMAIN q,
           \A k \in DOMAIN q : r[k].pkt = q[k].pkt /\ r[k].side = q[k].side
    PROVE  \A side : Delayed(r, side) = Delayed(q, side)
<1>1. \A side, x : x \in Delayed(r, side)
                <=> \E k \in DOMAIN q : r[k].side = side /\ x = r[k].pkt
  BY DEF Delayed, Held
<1>2. \A side, x : x \in Delayed(q, side)
                <=> \E k \in DOMAIN q : q[k].side = side /\ x = q[k].pkt
  BY DEF Delayed, Held
<1>3. \A side, x : x \in Delayed(r, side) <=> x \in Delayed(q, side)
  BY <1>1, <1>2
<1> QED BY <1>3

(* OnItsWay in its parts, before and after a step. *)
LEMMA OnItsWayParts ==
    ASSUME NEW side
    PROVE  /\ OnItsWay(side) = Unread(buffer, side) \cup Delayed(root, side)
                                  \cup arrived[side]
           /\ OnItsWay(side)' = Unread(buffer', side) \cup Delayed(root', side)
                                   \cup arrived'[side]
<1>1. OnItsWay(side) = Unread(buffer, side) \cup Delayed(root, side)
                          \cup arrived[side]
  BY DEF OnItsWay, Unread, Delayed
<1>2. OnItsWay(side)' = Unread(buffer', side) \cup Delayed(root', side)
                           \cup arrived'[side]
  BY DEF OnItsWay, Unread, Delayed
<1> QED BY <1>1, <1>2

(* A set that has lost m or nothing, of which m may have been one. *)
Loses(net, netNew, m) == m \in net /\ net \ {m} \subseteq netNew /\ netNew \subseteq net

(* psender and preceiver put a datagram of theirs on its way. *)
LEMMA SendsOnWay ==
    ASSUME RitInv, NEW side \in Sides, NEW m \in Traffic(side),
           ProxySends(side, m)
    PROVE  /\ OnItsWay(Opposite(side))' = OnItsWay(Opposite(side)) \cup {m}
           /\ OnItsWay(side)' = OnItsWay(side)
           /\ m.type = "B" /\ stato' = stato
<1> DEFINE D == ToReceiver \cup ToSender
<1>0. PICK s : s = <<side, m.ch>>
  OBVIOUS
<1>1. m \in D /\ m.type = "B" /\ s \in Sockets /\ s[1] = side
  BY <1>0, TrafficType
<1>2. /\ buffer' = [buffer EXCEPT ![s] = Append(buffer[s], m)]
      /\ root' = root /\ arrived' = arrived /\ stato' = stato
  BY <1>0 DEF ProxySends
<1>3. buffer \in [Sockets -> Seq(D)] /\ buffer[s] \in Seq(D)
  BY <1>1 DEF RitInv, RitTypeOK
<1>4. Held(Append(buffer[s], m)) = Held(buffer[s]) \cup {m}
  <2>1. m \in D /\ buffer[s] \in Seq(D)
    BY <1>1, <1>3
  <2> HIDE DEF D
  <2> QED BY <2>1, HeldAppend
<1>5. /\ Held(buffer'[s]) = Held(buffer[s]) \cup {m}
      /\ \A t \in Sockets : t # s => buffer'[t] = buffer[t]
  BY <1>1, <1>2, <1>3, <1>4
<1>6. /\ Unread(buffer', Opposite(side)) = Unread(buffer, Opposite(side)) \cup {m}
      /\ Unread(buffer', side) = Unread(buffer, side)
  <2>1. /\ Unread(buffer', Opposite(s[1])) = Unread(buffer, Opposite(s[1])) \cup {m}
        /\ Unread(buffer', s[1]) = Unread(buffer, s[1])
    <3>1. s \in Sockets /\ OneMore(buffer, buffer', s, m)
      BY <1>1, <1>5 DEF OneMore
    <3> QED BY <3>1, UnreadAdded, SMTT(30)
  <2> QED BY <1>1, <2>1
<1>7. OnItsWay(Opposite(side))' = OnItsWay(Opposite(side)) \cup {m}
  <2> PICK o : o = Opposite(side)
    OBVIOUS
  <2>1. OnItsWay(o) = Unread(buffer, o) \cup Delayed(root, o) \cup arrived[o]
    BY OnItsWayParts
  <2>2. OnItsWay(o)' = Unread(buffer', o) \cup Delayed(root', o) \cup arrived'[o]
    BY OnItsWayParts
  <2>3. Unread(buffer', o) = Unread(buffer, o) \cup {m}
    BY <1>6
  <2>4. OnItsWay(o)' = OnItsWay(o) \cup {m}
    BY <1>2, <2>1, <2>2, <2>3
  <2> QED BY <2>4
<1>8. OnItsWay(side)' = OnItsWay(side)
  BY <1>2, <1>6, OnItsWayParts
<1> QED BY <1>1, <1>2, <1>7, <1>8

(* A datagram that a proxy has received may have been the only copy. *)
LEMMA ReceivesOnWay ==
    ASSUME RitInv, NEW side \in Sides, ProxyReceives(side)
    PROVE  /\ \E m : Loses(OnItsWay(side), OnItsWay(side)', m)
           /\ \A x \in Sides : x # side => OnItsWay(x)' = OnItsWay(x)
           /\ stato' = stato
<1>1. PICK m \in arrived[side] : \E rest \in Remains(arrived[side], m) :
                arrived' = [arrived EXCEPT ![side] = rest]
  BY DEF ProxyReceives
<1>2. PICK rest \in Remains(arrived[side], m) :
                arrived' = [arrived EXCEPT ![side] = rest]
  BY <1>1
<1>3. arrived[side] \ {m} \subseteq rest /\ rest \subseteq arrived[side]
  BY <1>2 DEF Remains
<1>4. buffer' = buffer /\ root' = root /\ stato' = stato
  BY DEF ProxyReceives
<1>5. arrived'[side] = rest /\ \A x \in Sides : x # side => arrived'[x] = arrived[x]
  BY <1>2 DEF RitInv, RitTypeOK
<1>6. Loses(OnItsWay(side), OnItsWay(side)', m)
  BY <1>1, <1>3, <1>4, <1>5, OnItsWayParts DEF Loses
<1>7. \A x \in Sides : x # side => OnItsWay(x)' = OnItsWay(x)
  BY <1>4, <1>5, OnItsWayParts
<1> QED BY <1>4, <1>6, <1>7

(* A datagram that is released stays on its way, unless its pair is closed. *)
LEMMA ReleaseOnWay ==
    ASSUME RitInv, Release
    PROVE  /\ stato' = stato
           /\ \/ \A x \in Sides : OnItsWay(x)' = OnItsWay(x)
              \/ /\ "loss" \in Faults
                 /\ \E side \in Sides :
                       /\ \E m : Loses(OnItsWay(side), OnItsWay(side)', m)
                       /\ \A x \in Sides : x # side => OnItsWay(x)' = OnItsWay(x)
<1>0. PICK e : e = root[1]
  OBVIOUS
<1>1. /\ e \in Element /\ Held(root) = Held(root') \cup {e}
      /\ buffer' = buffer /\ stato' = stato
  BY <1>0, ReleaseStep
<1>2. e.side \in Sides /\ e.pkt \in ToReceiver \cup ToSender
      /\ e.pkt.ch \in Channels
  BY <1>1 DEF Element, ToReceiver, ToSender
<1>3. /\ Delayed(root, e.side) = Delayed(root', e.side) \cup {e.pkt}
      /\ \A x : x # e.side => Delayed(root, x) = Delayed(root', x)
  <2>1. Held(root) = Held(root') \cup {e}
    BY <1>1
  <2> QED BY <2>1, DelayedAdded, SMTT(30)
<1>4. CASE e.pkt.ch \in attivo
  <2>1. arrived' = [arrived EXCEPT ![e.side] = arrived[e.side] \cup {e.pkt}]
    BY <1>0, <1>4 DEF Release
  <2>2. /\ arrived'[e.side] = arrived[e.side] \cup {e.pkt}
        /\ \A x \in Sides : x # e.side => arrived'[x] = arrived[x]
    BY <1>2, <2>1 DEF RitInv, RitTypeOK
  <2>3. OnItsWay(e.side)' = OnItsWay(e.side)
    <3>1. OnItsWay(e.side) = Unread(buffer, e.side) \cup Delayed(root, e.side)
                                  \cup arrived[e.side]
      BY OnItsWayParts
    <3>2. OnItsWay(e.side)' = Unread(buffer', e.side) \cup Delayed(root', e.side)
                                  \cup arrived'[e.side]
      BY OnItsWayParts
    <3> QED BY <1>1, <1>3, <2>2, <3>1, <3>2
  <2>4. \A x \in Sides : x # e.side => OnItsWay(x)' = OnItsWay(x)
    BY <1>1, <1>3, <2>2, OnItsWayParts
  <2> QED BY <1>1, <2>3, <2>4
<1>5. CASE ~(e.pkt.ch \in attivo)
  <2>1. arrived' = arrived
    BY <1>0, <1>5 DEF Release
  <2>2. "loss" \in Faults
    BY <1>2, <1>5 DEF RitInv, InvFaults
  <2>3. Loses(OnItsWay(e.side), OnItsWay(e.side)', e.pkt)
    BY <1>1, <1>3, <2>1, OnItsWayParts DEF Loses
  <2>4. \A x \in Sides : x # e.side => OnItsWay(x)' = OnItsWay(x)
    BY <1>1, <1>3, <2>1, OnItsWayParts
  <2> QED BY <1>1, <1>2, <2>2, <2>3, <2>4
<1> QED BY <1>4, <1>5

(* A datagram that is read and dropped may have been the only copy. *)
LEMMA TakesOnWay ==
    ASSUME RitInv, NEW s \in Sockets, Takes(s)
    PROVE  LET m == Head(buffer[s])
           IN  /\ Unread(buffer, Opposite(s[1]))
                     = Unread(buffer', Opposite(s[1])) \cup {m}
               /\ Unread(buffer, s[1]) = Unread(buffer', s[1])
               /\ m.type = "B" /\ m.ch = s[2]
<1> DEFINE m == Head(buffer[s])
<1>1. m \in Held(buffer[s]) /\ OneMore(buffer', buffer, s, m)
  BY TakesStep DEF OneMore
<1>2. /\ Unread(buffer, Opposite(s[1])) = Unread(buffer', Opposite(s[1])) \cup {m}
      /\ Unread(buffer, s[1]) = Unread(buffer', s[1])
  <2> HIDE DEF m
  <2> QED BY <1>1, UnreadAdded, SMTT(30)
<1>3. s[1] \in Sides /\ s[2] \in Channels /\ s = <<s[1], s[2]>>
  BY DEF Sockets
<1>4. m.type = "B" /\ m.ch = s[2]
  <2>1. CASE s[1] = "latosender"
    <3>1. Held(buffer[<<"latosender", s[2]>>])
             \subseteq {x \in ToReceiver : x.type = "B" /\ x.ch = s[2]}
      BY <1>3 DEF RitInv, InvBuffers
    <3> QED BY <1>1, <1>3, <2>1, <3>1
  <2>2. CASE s[1] = "latoreceiver"
    <3>1. Held(buffer[<<"latoreceiver", s[2]>>])
             \subseteq {x \in ToSender : x.type = "B" /\ x.ch = s[2]}
      BY <1>3 DEF RitInv, InvBuffers
    <3> QED BY <1>1, <1>3, <2>2, <3>1
  <2> QED BY <1>3, <2>1, <2>2 DEF Sides
<1> QED BY <1>2, <1>4

(* Result 1 of ricevo_inserisco. *)
LEMMA ScartaSenzaIcmpOnWay ==
    ASSUME RitInv, NEW s \in Sockets, ScartaSenzaIcmp(s)
    PROVE  /\ "loss" \in Faults /\ stato' = stato
           /\ \E m : Loses(OnItsWay(Opposite(s[1])), OnItsWay(Opposite(s[1]))', m)
           /\ OnItsWay(s[1])' = OnItsWay(s[1])
<1> PICK m : m = Head(buffer[s])
  OBVIOUS
<1>1. /\ Takes(s) /\ "loss" \in Faults /\ stato' = stato
      /\ root' = root /\ arrived' = arrived
  BY DEF ScartaSenzaIcmp
<1>2. /\ Unread(buffer, Opposite(s[1])) = Unread(buffer', Opposite(s[1])) \cup {m}
      /\ Unread(buffer, s[1]) = Unread(buffer', s[1])
  BY <1>1, TakesOnWay
<1>3. Loses(OnItsWay(Opposite(s[1])), OnItsWay(Opposite(s[1]))', m)
  BY <1>1, <1>2, OnItsWayParts DEF Loses
<1>4. OnItsWay(s[1])' = OnItsWay(s[1])
  BY <1>1, <1>2, OnItsWayParts
<1> QED BY <1>1, <1>3, <1>4

(* Result 2. *)
LEMMA ScartaConIcmpOnWay ==
    ASSUME RitInv, NEW s \in Sockets, ScartaConIcmp(s)
    PROVE  /\ "loss" \in Faults /\ stato' = stato
           /\ \E m : /\ Loses(OnItsWay(Opposite(s[1])),
                              OnItsWay(Opposite(s[1]))', m)
                     /\ m.type = "B" /\ m.ch = s[2] /\ stato[m.ch] = 0
           /\ OnItsWay(s[1])' = OnItsWay(s[1]) \cup {IcmpPkt(s[2])}
<1> PICK m : m = Head(buffer[s])
  OBVIOUS
<1>1. /\ Takes(s) /\ stato[s[2]] = 0 /\ stato' = stato /\ arrived' = arrived
  BY DEF ScartaConIcmp
<1>2. s[1] \in Sides /\ s[2] \in Channels /\ Opposite(s[1]) # s[1]
  BY OppositeType DEF Sockets
<1>3. /\ Unread(buffer, Opposite(s[1])) = Unread(buffer', Opposite(s[1])) \cup {m}
      /\ Unread(buffer, s[1]) = Unread(buffer', s[1])
      /\ m.type = "B" /\ m.ch = s[2]
  BY <1>1, TakesOnWay
<1>4. PICK d \in Delays :
         AggiungiInOrdine([pkt |-> IcmpPkt(s[2]), side |-> s[1],
                           timeout |-> After(d)])
  BY DEF ScartaConIcmp
<1>5. PICK e : e = [pkt |-> IcmpPkt(s[2]), side |-> s[1], timeout |-> After(d)]
  OBVIOUS
<1>6. e.pkt = IcmpPkt(s[2]) /\ e.side = s[1]
  BY <1>5
<1>7. Held(root') = Held(root) \cup {e}
  <2>1. IcmpPkt(s[2]) \in ToReceiver \cup ToSender
    BY <1>2, IcmpType
  <2> QED BY <1>2, <1>4, <1>5, <2>1, ReceiveStep
<1>8. /\ Delayed(root', e.side) = Delayed(root, e.side) \cup {e.pkt}
      /\ \A side : side # e.side => Delayed(root', side) = Delayed(root, side)
  BY <1>7, DelayedAdded, SMTT(30)
<1>9. /\ Delayed(root', s[1]) = Delayed(root, s[1]) \cup {IcmpPkt(s[2])}
      /\ Delayed(root', Opposite(s[1])) = Delayed(root, Opposite(s[1]))
  BY <1>2, <1>6, <1>8
<1>10. Loses(OnItsWay(Opposite(s[1])), OnItsWay(Opposite(s[1]))', m)
  BY <1>1, <1>3, <1>9, OnItsWayParts DEF Loses
<1>11. OnItsWay(s[1])' = OnItsWay(s[1]) \cup {IcmpPkt(s[2])}
  BY <1>1, <1>3, <1>9, OnItsWayParts
<1>12. "loss" \in Faults
  BY <1>1, <1>2 DEF RitInv, InvFaults
<1> QED BY <1>1, <1>3, <1>10, <1>11, <1>12

(* Result 3: the datagram moves on. *)
LEMMA InoltraOnWay ==
    ASSUME RitInv, NEW s \in Sockets, Inoltra(s)
    PROVE  /\ stato' = stato
           /\ OnItsWay(Opposite(s[1]))' = OnItsWay(Opposite(s[1]))
           /\ OnItsWay(s[1])' = OnItsWay(s[1])
<1> PICK m : m = Head(buffer[s])
  OBVIOUS
<1>1. Takes(s) /\ stato' = stato /\ arrived' = arrived
  BY DEF Inoltra
<1>2. /\ s[1] \in Sides /\ Opposite(s[1]) \in Sides /\ Opposite(s[1]) # s[1]
  BY OppositeType DEF Sockets
<1>3. /\ Unread(buffer, Opposite(s[1])) = Unread(buffer', Opposite(s[1])) \cup {m}
      /\ Unread(buffer, s[1]) = Unread(buffer', s[1])
  BY <1>1, TakesOnWay
<1>4. PICK d \in Delays :
         AggiungiInOrdine([pkt |-> m, side |-> Opposite(s[1]),
                           timeout |-> After(d)])
  BY DEF Inoltra
<1>5. PICK e : e = [pkt |-> m, side |-> Opposite(s[1]), timeout |-> After(d)]
  OBVIOUS
<1>6. e.pkt = m /\ e.side = Opposite(s[1])
  BY <1>5
<1>7. Held(root') = Held(root) \cup {e}
  <2>1. m \in ToReceiver \cup ToSender
    BY <1>1, TakesStep
  <2> QED BY <1>2, <1>4, <1>5, <2>1, ReceiveStep
<1>8. /\ Delayed(root', e.side) = Delayed(root, e.side) \cup {e.pkt}
      /\ \A side : side # e.side => Delayed(root', side) = Delayed(root, side)
  BY <1>7, DelayedAdded, SMTT(30)
<1>9. /\ Delayed(root', Opposite(s[1])) = Delayed(root, Opposite(s[1])) \cup {m}
      /\ Delayed(root', s[1]) = Delayed(root, s[1])
  BY <1>2, <1>6, <1>8
<1>10. OnItsWay(Opposite(s[1]))' = OnItsWay(Opposite(s[1]))
  <2> PICK o : o = Opposite(s[1])
    OBVIOUS
  <2>1. OnItsWay(o) = Unread(buffer, o) \cup Delayed(root, o) \cup arrived[o]
    BY OnItsWayParts
  <2>2. OnItsWay(o)' = Unread(buffer', o) \cup Delayed(root', o) \cup arrived'[o]
    BY OnItsWayParts
  <2>3. OnItsWay(o)' = OnItsWay(o)
    BY <1>1, <1>3, <1>9, <2>1, <2>2
  <2> QED BY <2>3
<1>11. OnItsWay(s[1])' = OnItsWay(s[1])
  BY <1>1, <1>3, <1>9, OnItsWayParts
<1> QED BY <1>1, <1>10, <1>11

(* All the other steps leave the datagrams where they are; cambia_stato alone
   touches the bursts. *)
LEMMA OthersOnWay ==
    ASSUME RitInv,
           \/ Select \/ EndRelease \/ EndBurst \/ CambiaStato \/ EndReceive
           \/ \E s \in Sockets : NonChiudo(s) \/ ChiudiCoppia(s)
           \/ Tick
    PROVE  /\ \A side \in Sides : OnItsWay(side)' = OnItsWay(side)
           /\ \/ stato' = stato
              \/ /\ "loss" \in Faults
                 /\ \E ch \in Channels : stato' = [stato EXCEPT ![ch] = 1 - @]
<1>1. buffer' = buffer /\ arrived' = arrived
  BY DEF Select, EndRelease, EndBurst, CambiaStato, EndReceive, NonChiudo,
     ChiudiCoppia, Tick
<1>2. \A side : Delayed(root', side) = Delayed(root, side)
  <2>1. CASE Tick
    <3>1. /\ DOMAIN root' = DOMAIN root
          /\ \A k \in DOMAIN root :
                root'[k].pkt = root[k].pkt /\ root'[k].side = root[k].side
      BY <2>1, TickStep
    <3> QED BY <3>1, DelayedOlder
  <2>2. CASE ~Tick
    <3>1. root' = root
      BY <2>2 DEF Select, EndRelease, EndBurst, CambiaStato, EndReceive,
         NonChiudo, ChiudiCoppia
    <3> QED BY <3>1
  <2> QED BY <2>1, <2>2
<1>3. \A side \in Sides : OnItsWay(side)' = OnItsWay(side)
  BY <1>1, <1>2, OnItsWayParts
<1>4. \/ stato' = stato
      \/ /\ "loss" \in Faults
         /\ \E ch \in Channels : stato' = [stato EXCEPT ![ch] = 1 - @]
  <2>1. CASE CambiaStato
    <3>1. canale \in Channels
      BY <2>1, ConstantsAssumption DEF CambiaStato, RitInv, RitTypeOK, Channels
    <3>2. CASE /\ "loss" \in Faults /\ canale \in attivo
               /\ MinoreOUguale(cambio[canale], Now)
      BY <2>1, <3>1, <3>2 DEF CambiaStato
    <3>3. CASE ~(/\ "loss" \in Faults /\ canale \in attivo
                 /\ MinoreOUguale(cambio[canale], Now))
      BY <2>1, <3>3 DEF CambiaStato
    <3> QED BY <3>2, <3>3
  <2>2. CASE ~CambiaStato
    BY <2>2 DEF Select, EndRelease, EndBurst, EndReceive, NonChiudo,
       ChiudiCoppia, Tick
  <2> QED BY <2>1, <2>2
<1> QED BY <1>3, <1>4

-----------------------------------------------------------------------------
(* The refinement. *)

(* The channels of the network in a burst. *)
InBurst == {ch \in Channels : stato[ch] = 0}

(* The network starts empty and sending. *)
LEMMA InitRefines == RitInit => Net!DelayNetInit
<1> SUFFICES ASSUME RitInit PROVE Net!DelayNetInit
  OBVIOUS
<1>1. /\ \A s \in Sockets : Held(buffer[s]) = {}
      /\ Held(root) = {}
      /\ \A side \in Sides : arrived[side] = {}
  BY DEF RitInit, Held
<1>2. \A side \in Sides : \A ch \in Channels : <<Opposite(side), ch>> \in Sockets
  BY OppositeType DEF Sockets
<1>3. \A side \in Sides : OnItsWay(side) = {}
  BY <1>1, <1>2 DEF OnItsWay
<1>4. InBurst = {}
  BY DEF InBurst, RitInit
<1> QED BY <1>3, <1>4 DEF Net!DelayNetInit, Sides, InBurst

(* The two sides as psender and preceiver see them: latoreceiver is where netR
   leaves from, latosender netS. *)
LEMMA SideCases ==
    ASSUME NEW side \in Sides
    PROVE  \/ side = "latoreceiver" /\ Opposite(side) = "latosender"
           \/ side = "latosender" /\ Opposite(side) = "latoreceiver"
BY DEF Sides, Opposite

(* A datagram less on its way to one side, or a copy of one: dropped silently,
   unless the sets of the network do not tell. *)
LEMMA DropRefines ==
    ASSUME "loss" \in Faults, NEW side \in Sides,
           \E m : Loses(OnItsWay(side), OnItsWay(side)', m),
           OnItsWay(Opposite(side))' = OnItsWay(Opposite(side)),
           stato' = stato
    PROVE  Net!DelayNetNext \/ UNCHANGED Net!netVars
<1>1. PICK m \in OnItsWay(side) :
         OnItsWay(side)' = OnItsWay(side) \/ OnItsWay(side)' = OnItsWay(side) \ {m}
  BY DEF Loses
<1>2. InBurst' = InBurst
  BY DEF InBurst
<1>3. CASE OnItsWay(side)' = OnItsWay(side)
  <2>1. /\ OnItsWay("latosender")' = OnItsWay("latosender")
        /\ OnItsWay("latoreceiver")' = OnItsWay("latoreceiver")
    BY <1>3, SideCases
  <2> QED BY <1>2, <2>1 DEF Net!netVars, InBurst
<1>4. CASE OnItsWay(side)' = OnItsWay(side) \ {m}
  <2>1. CASE side = "latoreceiver"
    <3>1. /\ m \in OnItsWay("latoreceiver")
          /\ OnItsWay("latoreceiver")' = OnItsWay("latoreceiver") \ {m}
          /\ OnItsWay("latosender")' = OnItsWay("latosender")
      BY <1>4, <2>1, SideCases
    <3> QED BY <1>2, <3>1 DEF Net!DelayNetNext, Net!DropSilently, InBurst
  <2>2. CASE side = "latosender"
    <3>1. /\ m \in OnItsWay("latosender")
          /\ OnItsWay("latosender")' = OnItsWay("latosender") \ {m}
          /\ OnItsWay("latoreceiver")' = OnItsWay("latoreceiver")
      BY <1>4, <2>2, SideCases
    <3> QED BY <1>2, <3>1 DEF Net!DelayNetNext, Net!DropSilently, InBurst
  <2> QED BY <2>1, <2>2 DEF Sides
<1> QED BY <1>1, <1>3, <1>4

(* What the proxy on one side does to the network is what its program does. *)
ProxyUse(side) ==
    IF side = "latosender" THEN Net!PSenderUse ELSE Net!PReceiverUse

(* A datagram less on its way to the proxy that has received it. *)
LEMMA TakeRefines ==
    ASSUME "dup" \in Faults, NEW side \in Sides,
           \E m : Loses(OnItsWay(side), OnItsWay(side)', m),
           OnItsWay(Opposite(side))' = OnItsWay(Opposite(side)),
           stato' = stato
    PROVE  ProxyUse(side)
<1>1. PICK m \in OnItsWay(side) :
         OnItsWay(side)' = OnItsWay(side) \/ OnItsWay(side)' = OnItsWay(side) \ {m}
  BY DEF Loses
<1>2. Net!TakesOne(OnItsWay(side), OnItsWay(side)')
  BY <1>1 DEF Net!TakesOne, Net!Remains
<1>3. InBurst' = InBurst
  BY DEF InBurst
<1>4. CASE side = "latosender"
  <2>1. /\ Net!TakesOne(OnItsWay("latosender"), OnItsWay("latosender")')
        /\ OnItsWay("latoreceiver")' = OnItsWay("latoreceiver")
    BY <1>2, <1>4, SideCases
  <2> QED BY <1>3, <1>4, <2>1 DEF ProxyUse, Net!PSenderUse, InBurst
<1>5. CASE side = "latoreceiver"
  <2>1. /\ Net!TakesOne(OnItsWay("latoreceiver"), OnItsWay("latoreceiver")')
        /\ OnItsWay("latosender")' = OnItsWay("latosender")
    BY <1>2, <1>5, SideCases
  <2> QED BY <1>3, <1>5, <2>1 DEF ProxyUse, Net!PReceiverUse, InBurst
<1> QED BY <1>4, <1>5 DEF Sides

(* A datagram more on its way away from the proxy that has sent it. *)
LEMMA SendRefines ==
    ASSUME NEW side \in Sides, NEW m, m.type = "B",
           OnItsWay(Opposite(side))' = OnItsWay(Opposite(side)) \cup {m},
           OnItsWay(side)' = OnItsWay(side),
           stato' = stato
    PROVE  ProxyUse(side)
<1>1. Net!SendsOnly(OnItsWay(Opposite(side)), OnItsWay(Opposite(side))')
  BY DEF Net!SendsOnly
<1>2. InBurst' = InBurst
  BY DEF InBurst
<1>3. CASE side = "latosender"
  <2>1. /\ Net!SendsOnly(OnItsWay("latoreceiver"), OnItsWay("latoreceiver")')
        /\ OnItsWay("latosender")' = OnItsWay("latosender")
    BY <1>1, <1>3, SideCases
  <2> QED BY <1>2, <1>3, <2>1 DEF ProxyUse, Net!PSenderUse, InBurst
<1>4. CASE side = "latoreceiver"
  <2>1. /\ Net!SendsOnly(OnItsWay("latosender"), OnItsWay("latosender")')
        /\ OnItsWay("latoreceiver")' = OnItsWay("latoreceiver")
    BY <1>1, <1>4, SideCases
  <2> QED BY <1>2, <1>4, <2>1 DEF ProxyUse, Net!PReceiverUse, InBurst
<1> QED BY <1>3, <1>4 DEF Sides

(* A datagram less to one side and a note more to the other: DropWithIcmp. *)
LEMMA NoteRefines ==
    ASSUME "dup" \in Faults, "loss" \in Faults, NEW side \in Sides,
           NEW m, Loses(OnItsWay(side), OnItsWay(side)', m),
           m.type = "B", m.ch \in Channels, stato[m.ch] = 0,
           OnItsWay(Opposite(side))' = OnItsWay(Opposite(side)) \cup {IcmpPkt(m.ch)},
           stato' = stato
    PROVE  Net!DelayNetNext
<1>1. m \in OnItsWay(side) /\ OnItsWay(side)' \in Net!Remains(OnItsWay(side), m)
  <2>1. /\ m \in OnItsWay(side)
        /\ OnItsWay(side)' = OnItsWay(side) \/ OnItsWay(side)' = OnItsWay(side) \ {m}
    BY DEF Loses
  <2> QED BY <2>1 DEF Net!Remains
<1>2. InBurst' = InBurst /\ m.ch \in InBurst
  BY DEF InBurst
<1>3. Net!IcmpPkt(m.ch) = IcmpPkt(m.ch)
  BY DEF Net!IcmpPkt, IcmpPkt
<1>4. CASE side = "latoreceiver"
  <2>1. Opposite(side) = "latosender"
    BY <1>4 DEF Opposite
  <2>2. /\ m \in OnItsWay("latoreceiver")
        /\ OnItsWay("latoreceiver")' \in Net!Remains(OnItsWay("latoreceiver"), m)
    BY <1>1, <1>4
  <2>3. OnItsWay("latosender")' = OnItsWay("latosender") \cup {Net!IcmpPkt(m.ch)}
    BY <1>3, <2>1
  <2>4. Net!DropWithIcmp
    BY <1>2, <2>2, <2>3 DEF Net!DropWithIcmp, InBurst
  <2> QED BY <2>4 DEF Net!DelayNetNext
<1>5. CASE side = "latosender"
  <2>1. Opposite(side) = "latoreceiver"
    BY <1>5 DEF Opposite
  <2>2. /\ m \in OnItsWay("latosender")
        /\ OnItsWay("latosender")' \in Net!Remains(OnItsWay("latosender"), m)
    BY <1>1, <1>5
  <2>3. OnItsWay("latoreceiver")' = OnItsWay("latoreceiver") \cup {Net!IcmpPkt(m.ch)}
    BY <1>3, <2>1
  <2>4. Net!DropWithIcmp
    BY <1>2, <2>2, <2>3 DEF Net!DropWithIcmp, InBurst
  <2> QED BY <2>4 DEF Net!DelayNetNext
<1> QED BY <1>4, <1>5 DEF Sides

(* A step that moves no datagram is a stutter, or a burst begins or ends. *)
LEMMA QuietRefines ==
    ASSUME RitInv, \A side \in Sides : OnItsWay(side)' = OnItsWay(side),
           \/ stato' = stato
           \/ /\ "loss" \in Faults
              /\ \E ch \in Channels : stato' = [stato EXCEPT ![ch] = 1 - @]
    PROVE  Net!DelayNetNext \/ UNCHANGED Net!netVars
<1>1. /\ OnItsWay("latosender")' = OnItsWay("latosender")
      /\ OnItsWay("latoreceiver")' = OnItsWay("latoreceiver")
  BY DEF Sides
<1>2. CASE stato' = stato
  <2>1. InBurst' = InBurst
    BY <1>2 DEF InBurst
  <2> QED BY <1>1, <2>1 DEF Net!netVars, InBurst
<1>3. CASE "loss" \in Faults /\ \E ch \in Channels :
                                   stato' = [stato EXCEPT ![ch] = 1 - @]
  <2>1. PICK ch \in Channels : stato' = [stato EXCEPT ![ch] = 1 - stato[ch]]
    BY <1>3
  <2>2. stato \in [Channels -> {0, 1}]
    BY DEF RitInv, RitTypeOK
  <2>3. /\ \A x \in Channels : x # ch => stato'[x] = stato[x]
        /\ stato'[ch] = 0 <=> stato[ch] # 0
    <3>1. /\ \A x \in Channels : x # ch => stato'[x] = stato[x]
          /\ stato'[ch] = 1 - stato[ch] /\ stato[ch] \in {0, 1}
      BY <2>1, <2>2
    <3>2. stato'[ch] = 0 <=> stato[ch] # 0
      BY <3>1
    <3> QED BY <3>1, <3>2
  <2>4. InBurst' = IF ch \in InBurst THEN InBurst \ {ch} ELSE InBurst \cup {ch}
    <3>1. CASE ch \in InBurst
      BY <2>3, <3>1 DEF InBurst
    <3>2. CASE ch \notin InBurst
      BY <2>3, <3>2 DEF InBurst
    <3> QED BY <3>1, <3>2
  <2>5. Net!ChangeBurst(ch)
    BY <1>1, <1>3, <2>4 DEF Net!ChangeBurst, InBurst
  <2>6. ch \in Net!Channels
    BY DEF Net!Channels, Channels
  <2> QED BY <2>5, <2>6 DEF Net!DelayNetNext
<1> QED BY <1>2, <1>3

(* What the loop and the clock do to the datagrams is what the network does
   that the proxies are verified against. *)
LEMMA LoopRefines ==
    ASSUME "dup" \in Faults, RitInv, Loop \/ Tick
    PROVE  Net!DelayNetNext \/ UNCHANGED Net!netVars
<1>1. CASE Release
  <2>1. CASE \A x \in Sides : OnItsWay(x)' = OnItsWay(x)
    BY <1>1, <2>1, ReleaseOnWay, QuietRefines
  <2>2. CASE /\ "loss" \in Faults
             /\ \E side \in Sides :
                  /\ \E m : Loses(OnItsWay(side), OnItsWay(side)', m)
                  /\ \A x \in Sides : x # side => OnItsWay(x)' = OnItsWay(x)
    <3>1. PICK side \in Sides :
                /\ \E m : Loses(OnItsWay(side), OnItsWay(side)', m)
                /\ \A x \in Sides : x # side => OnItsWay(x)' = OnItsWay(x)
      BY <2>2
    <3>2. OnItsWay(Opposite(side))' = OnItsWay(Opposite(side)) /\ stato' = stato
      BY <1>1, <3>1, ReleaseOnWay, OppositeType
    <3> QED BY <2>2, <3>1, <3>2, DropRefines
  <2> QED BY <1>1, <2>1, <2>2, ReleaseOnWay
<1>2. ASSUME NEW s \in Sockets, ScartaSenzaIcmp(s)
      PROVE  Net!DelayNetNext \/ UNCHANGED Net!netVars
  <2>1. PICK o \in Sides : o = Opposite(s[1]) /\ Opposite(o) = s[1]
    BY OppositeType DEF Sockets
  <2>2. /\ \E m : Loses(OnItsWay(o), OnItsWay(o)', m)
        /\ OnItsWay(Opposite(o))' = OnItsWay(Opposite(o))
        /\ "loss" \in Faults /\ stato' = stato
    BY <1>2, <2>1, ScartaSenzaIcmpOnWay
  <2> QED BY <2>2, DropRefines
<1>3. ASSUME NEW s \in Sockets, ScartaConIcmp(s)
      PROVE  Net!DelayNetNext
  <2>1. PICK o \in Sides : o = Opposite(s[1]) /\ Opposite(o) = s[1]
    BY OppositeType DEF Sockets
  <2>2. "loss" \in Faults /\ stato' = stato
    BY <1>3, ScartaConIcmpOnWay
  <2>3. PICK m : /\ Loses(OnItsWay(o), OnItsWay(o)', m)
                 /\ m.type = "B" /\ m.ch = s[2] /\ stato[m.ch] = 0
    BY <1>3, <2>1, ScartaConIcmpOnWay
  <2>4. OnItsWay(Opposite(o))' = OnItsWay(Opposite(o)) \cup {IcmpPkt(m.ch)}
    BY <1>3, <2>1, <2>3, ScartaConIcmpOnWay
  <2>5. m.ch \in Channels
    BY <2>3 DEF Sockets
  <2> QED BY <2>2, <2>3, <2>4, <2>5, NoteRefines
<1>4. ASSUME NEW s \in Sockets, Inoltra(s)
      PROVE  Net!DelayNetNext \/ UNCHANGED Net!netVars
  <2>1. PICK o \in Sides : o = Opposite(s[1]) /\ s[1] \in Sides
    BY OppositeType DEF Sockets
  <2>2. /\ OnItsWay(o)' = OnItsWay(o) /\ OnItsWay(s[1])' = OnItsWay(s[1])
        /\ stato' = stato
    BY <1>4, <2>1, InoltraOnWay
  <2>3. \A side \in Sides : side = s[1] \/ side = o
    BY <2>1, OppositeType DEF Sides
  <2>4. \A side \in Sides : OnItsWay(side)' = OnItsWay(side)
    BY <2>2, <2>3
  <2> QED BY <2>2, <2>4, QuietRefines
<1>5. CASE \/ Select \/ EndRelease \/ EndBurst \/ CambiaStato \/ EndReceive
           \/ \E s \in Sockets : NonChiudo(s) \/ ChiudiCoppia(s)
           \/ Tick
  BY <1>5, OthersOnWay, QuietRefines
<1> QED BY <1>1, <1>2, <1>3, <1>4, <1>5 DEF Loop

(* The packets and acks that the proxies send are the only datagrams that are
   added besides the notes, each towards the other proxy. *)
LEMMA ProxyRefines ==
    ASSUME "dup" \in Faults, RitInv, NEW side \in Sides, Proxy(side)
    PROVE  ProxyUse(side)
<1>1. ASSUME NEW m \in Traffic(side), ProxySends(side, m)
      PROVE  ProxyUse(side)
  BY <1>1, SendsOnWay, SendRefines
<1>2. CASE ProxyReceives(side)
  <2>1. /\ \E m : Loses(OnItsWay(side), OnItsWay(side)', m)
        /\ OnItsWay(Opposite(side))' = OnItsWay(Opposite(side))
        /\ stato' = stato
    BY <1>2, ReceivesOnWay, OppositeType
  <2> QED BY <2>1, TakeRefines
<1> QED BY <1>1, <1>2 DEF Proxy

(* ImplementsDelayNet: what the Ritardatore and its clock do to the datagrams is
   what the proxies are verified against, whatever its delays, its bursts and
   its list do: it drops where DelayNet drops, and adds nothing but the note for
   a datagram that it drops in a burst.  All else is added by the proxies. *)
THEOREM RitardatoreImplementsDelayNet ==
    ASSUME "dup" \in Faults
    PROVE  RitSpec => ImplementsDelayNet
<1> DEFINE A == /\ Loop \/ Tick => Net!DelayNetNext \/ UNCHANGED Net!netVars
                /\ Proxy("latosender") => Net!PSenderUse
                /\ Proxy("latoreceiver") => Net!PReceiverUse
<1>1. RitInit => Net!DelayNetInit
  BY InitRefines
<1>2. RitInv => A
  <2> SUFFICES ASSUME RitInv PROVE A
    OBVIOUS
  <2>1. Loop \/ Tick => Net!DelayNetNext \/ UNCHANGED Net!netVars
    BY LoopRefines
  <2>2. \A side \in Sides : Proxy(side) => ProxyUse(side)
    BY ProxyRefines
  <2>3. Proxy("latosender") => Net!PSenderUse
    BY <2>2 DEF Sides, ProxyUse
  <2>4. Proxy("latoreceiver") => Net!PReceiverUse
    BY <2>2 DEF Sides, ProxyUse
  <2> QED BY <2>1, <2>3, <2>4
<1>3. RitInv /\ [RitNext]_ritVars => [A]_ritVars
  BY <1>2
<1> QED
  <2> HIDE DEF A
  <2>1. RitSpec => [][A]_ritVars
    BY <1>3, RitInvariant, PTL DEF RitSpec
  <2> QED BY <1>1, <2>1, PTL DEF RitSpec, ImplementsDelayNet, A
=============================================================================
