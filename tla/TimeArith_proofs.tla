-------------------------- MODULE TimeArith_proofs --------------------------
(***************************************************************************)
(* The timeval functions against arithmetic on the instants they stand     *)
(* for, for every SEC_IN_MCSEC.                                            *)
(***************************************************************************)
EXTENDS TimeArith, TLAPS

(* More seconds make a later instant, whatever the microseconds. *)
LEMMA MoreSeconds ==
    ASSUME NEW s \in Int, NEW t \in Int, NEW u \in Nat, NEW v \in Nat,
           s < t, u < SecInMcsec
    PROVE  s * SecInMcsec + u < t * SecInMcsec + v
<1>1. SecInMcsec \in Nat /\ SecInMcsec > 0
  BY SecAssumption
<1>2. t - s - 1 \in Nat
  OBVIOUS
<1>3. (t - s - 1) * SecInMcsec \in Nat
  BY <1>1, <1>2
<1>4. t * SecInMcsec = s * SecInMcsec + SecInMcsec + (t - s - 1) * SecInMcsec
  BY <1>1
<1>5. s * SecInMcsec \in Int /\ t * SecInMcsec \in Int
  BY <1>1
<1> QED BY <1>1, <1>3, <1>4, <1>5

(* A number is its quotient times the divisor and the remainder. *)
LEMMA DivMod ==
    ASSUME NEW u \in Nat, NEW M \in Nat, M > 0
    PROVE  u = (u \div M) * M + (u % M)
OBVIOUS

(* normalizza keeps the instant and leaves less than a second of
   microseconds. *)
THEOREM NormalizzaCorrect ==
    ASSUME NEW t \in Timeval
    PROVE  /\ Normalizza(t) \in Timeval
           /\ Normal(Normalizza(t))
           /\ Total(Normalizza(t)) = Total(t)
           /\ Normal(t) => Normalizza(t) = t
<1> DEFINE M == SecInMcsec
           q == t.usec \div M
           r == t.usec % M
<1>1. M \in Nat /\ M > 0 /\ t.sec \in Int /\ t.usec \in Nat
      /\ t = [sec |-> t.sec, usec |-> t.usec]
  BY SecAssumption DEF Timeval
<1>2. q \in Nat /\ r \in Nat /\ r < M
  BY <1>1
<1>3. t.usec = q * M + r
  BY <1>1, DivMod
<1>4. (t.sec + q) * M = t.sec * M + q * M
  BY <1>1, <1>2
<1>5. t.sec * M \in Int /\ q * M \in Int
  BY <1>1, <1>2
<1>6. t.usec < M => q = 0 /\ r = t.usec
  BY <1>1
<1>7. Normalizza(t) = [sec |-> t.sec + q, usec |-> r]
  BY DEF Normalizza
<1>8. Total(Normalizza(t)) = Total(t)
  BY <1>1, <1>2, <1>3, <1>4, <1>5, <1>7 DEF Total
<1>9. Normalizza(t) \in Timeval /\ Normal(Normalizza(t))
  BY <1>1, <1>2, <1>7 DEF Timeval, Normal
<1>10. Normal(t) => Normalizza(t) = t
  BY <1>1, <1>2, <1>6, <1>7 DEF Normal
<1> QED BY <1>8, <1>9, <1>10

(* somma adds. *)
THEOREM SommaCorrect ==
    ASSUME NEW a \in Timeval, NEW b \in Timeval
    PROVE  /\ Somma(a, b) \in Timeval
           /\ Normal(Somma(a, b))
           /\ Total(Somma(a, b)) = Total(a) + Total(b)
<1> DEFINE x == Normalizza(a)
           y == Normalizza(b)
           z == [sec |-> x.sec + y.sec, usec |-> x.usec + y.usec]
<1>1. SecInMcsec \in Nat
  BY SecAssumption
<1>2. x \in Timeval /\ y \in Timeval /\ Total(x) = Total(a) /\ Total(y) = Total(b)
  BY NormalizzaCorrect
<1>3. x.sec \in Int /\ x.usec \in Nat /\ y.sec \in Int /\ y.usec \in Nat
  BY <1>2 DEF Timeval
<1>4. z \in Timeval
  BY <1>3 DEF Timeval
<1>5. (x.sec + y.sec) * SecInMcsec = x.sec * SecInMcsec + y.sec * SecInMcsec
  BY <1>1, <1>3
<1>6. x.sec * SecInMcsec \in Int /\ y.sec * SecInMcsec \in Int
  BY <1>1, <1>3
<1>7. Total(z) = Total(x) + Total(y)
  BY <1>3, <1>5, <1>6 DEF Total
<1>8. Somma(a, b) = Normalizza(z)
  BY DEF Somma
<1> QED BY <1>2, <1>4, <1>7, <1>8, NormalizzaCorrect

(* minoreouguale is the order of the instants. *)
THEOREM MinoreOUgualeCorrect ==
    ASSUME NEW a \in Timeval, NEW b \in Timeval
    PROVE  MinoreOUguale(a, b) <=> Total(a) <= Total(b)
<1> DEFINE x == Normalizza(a)
           y == Normalizza(b)
<1>1. SecInMcsec \in Nat
  BY SecAssumption
<1>2. /\ x \in Timeval /\ y \in Timeval /\ Normal(x) /\ Normal(y)
      /\ Total(x) = Total(a) /\ Total(y) = Total(b)
  BY NormalizzaCorrect
<1>3. x.sec \in Int /\ x.usec \in Nat /\ y.sec \in Int /\ y.usec \in Nat
  BY <1>2 DEF Timeval
<1>4. x.usec < SecInMcsec /\ y.usec < SecInMcsec
  BY <1>2 DEF Normal
<1>5. x.sec * SecInMcsec \in Int /\ y.sec * SecInMcsec \in Int
  BY <1>1, <1>3
<1>6. MinoreOUguale(a, b)
        <=> x.sec < y.sec \/ (x.sec = y.sec /\ x.usec <= y.usec)
  BY DEF MinoreOUguale
<1>7. CASE x.sec < y.sec
  <2>1. Total(x) < Total(y)
    BY <1>3, <1>4, <1>7, MoreSeconds DEF Total
  <2> QED BY <1>2, <1>3, <1>5, <1>6, <1>7, <2>1 DEF Total
<1>8. CASE y.sec < x.sec
  <2>1. Total(y) < Total(x)
    BY <1>3, <1>4, <1>8, MoreSeconds DEF Total
  <2>2. Total(x) \in Int /\ Total(y) \in Int
    BY <1>3, <1>5 DEF Total
  <2> QED BY <1>2, <1>3, <1>6, <1>8, <2>1, <2>2
<1>9. CASE x.sec = y.sec
  BY <1>2, <1>3, <1>5, <1>6, <1>9 DEF Total
<1> QED BY <1>3, <1>7, <1>8, <1>9

(* differenza subtracts, and never below zero. *)
THEOREM DifferenzaCorrect ==
    ASSUME NEW a \in Timeval, NEW b \in Timeval
    PROVE  /\ Differenza(a, b) \in Timeval
           /\ Normal(Differenza(a, b))
           /\ Total(Differenza(a, b)) = IF Total(a) < Total(b) THEN 0
                                        ELSE Total(a) - Total(b)
<1> DEFINE x == Normalizza(a)
           y == Normalizza(b)
           M == SecInMcsec
<1>1. M \in Nat /\ M > 0
  BY SecAssumption
<1>2. /\ x \in Timeval /\ y \in Timeval /\ Normal(x) /\ Normal(y)
      /\ Total(x) = Total(a) /\ Total(y) = Total(b)
  BY NormalizzaCorrect
<1>3. x.sec \in Int /\ x.usec \in Nat /\ y.sec \in Int /\ y.usec \in Nat
  BY <1>2 DEF Timeval
<1>4. x.usec < M /\ y.usec < M
  BY <1>2 DEF Normal
<1>5. x.sec * M \in Int /\ y.sec * M \in Int
  BY <1>1, <1>3
<1>6. Total(x) = x.sec * M + x.usec /\ Total(y) = y.sec * M + y.usec
  BY DEF Total
<1>7. CASE x.sec < y.sec \/ (x.sec = y.sec /\ x.usec < y.usec)
  <2>1. Differenza(a, b) = [sec |-> 0, usec |-> 0]
    BY <1>7 DEF Differenza
  <2>2. Total(x) < Total(y)
    <3>1. CASE x.sec < y.sec
      BY <1>3, <1>4, <1>6, <3>1, MoreSeconds
    <3>2. CASE x.sec = y.sec /\ x.usec < y.usec
      BY <1>3, <1>5, <1>6, <3>2
    <3> QED BY <1>7, <3>1, <3>2
  <2>3. Total(Differenza(a, b)) = 0
    BY <1>1, <2>1 DEF Total
  <2> QED BY <1>1, <1>2, <2>1, <2>2, <2>3 DEF Timeval, Normal
<1>8. CASE ~(x.sec < y.sec \/ (x.sec = y.sec /\ x.usec < y.usec))
           /\ x.usec < y.usec
  <2>1. Differenza(a, b) = [sec |-> x.sec - y.sec - 1,
                            usec |-> x.usec - y.usec + M]
    BY <1>8 DEF Differenza
  <2>2. y.sec < x.sec
    BY <1>3, <1>8
  <2>3. Total(y) < Total(x)
    BY <1>3, <1>4, <1>6, <2>2, MoreSeconds
  <2>4. (x.sec - y.sec - 1) * M = x.sec * M - y.sec * M - M
    BY <1>1, <1>3
  <2>5. Total(Differenza(a, b)) = Total(x) - Total(y)
    BY <1>1, <1>3, <1>5, <1>6, <2>1, <2>4 DEF Total
  <2>6. Differenza(a, b) \in Timeval /\ Normal(Differenza(a, b))
    BY <1>1, <1>3, <1>4, <1>8, <2>1 DEF Timeval, Normal
  <2>7. Total(x) \in Int /\ Total(y) \in Int
    BY <1>3, <1>5, <1>6
  <2> QED BY <1>2, <2>3, <2>5, <2>6, <2>7
<1>9. CASE ~(x.sec < y.sec \/ (x.sec = y.sec /\ x.usec < y.usec))
           /\ ~(x.usec < y.usec)
  <2>1. Differenza(a, b) = [sec |-> x.sec - y.sec, usec |-> x.usec - y.usec]
    BY <1>9 DEF Differenza
  <2>2. ~(Total(x) < Total(y))
    <3>1. CASE y.sec < x.sec
      <4>1. Total(y) < Total(x)
        BY <1>3, <1>4, <1>6, <3>1, MoreSeconds
      <4> QED BY <1>3, <1>5, <1>6, <4>1
    <3>2. CASE y.sec = x.sec
      BY <1>3, <1>5, <1>6, <1>9, <3>2
    <3> QED BY <1>3, <1>9, <3>1, <3>2
  <2>3. (x.sec - y.sec) * M = x.sec * M - y.sec * M
    BY <1>1, <1>3
  <2>4. Total(Differenza(a, b)) = Total(x) - Total(y)
    BY <1>1, <1>3, <1>5, <1>6, <2>1, <2>3 DEF Total
  <2>5. Differenza(a, b) \in Timeval /\ Normal(Differenza(a, b))
    BY <1>1, <1>3, <1>4, <1>9, <2>1 DEF Timeval, Normal
  <2> QED BY <1>2, <2>2, <2>4, <2>5
<1> QED BY <1>7, <1>8, <1>9

(* minore is right unless its first argument is in a later second: then it
   goes by the microseconds, and calls a later instant the lesser one. *)
THEOREM MinoreCorrectWithinASecond ==
    ASSUME NEW a \in Timeval, NEW b \in Timeval
    PROVE  IF Normalizza(a).sec <= Normalizza(b).sec
           THEN Minore(a, b) <=> Total(a) < Total(b)
           ELSE /\ Total(b) < Total(a)
                /\ Minore(a, b) <=> Normalizza(a).usec < Normalizza(b).usec
<1> DEFINE x == Normalizza(a)
           y == Normalizza(b)
           M == SecInMcsec
<1>1. M \in Nat /\ M > 0
  BY SecAssumption
<1>2. /\ x \in Timeval /\ y \in Timeval /\ Normal(x) /\ Normal(y)
      /\ Total(x) = Total(a) /\ Total(y) = Total(b)
  BY NormalizzaCorrect
<1>3. x.sec \in Int /\ x.usec \in Nat /\ y.sec \in Int /\ y.usec \in Nat
  BY <1>2 DEF Timeval
<1>4. x.usec < M /\ y.usec < M
  BY <1>2 DEF Normal
<1>5. x.sec * M \in Int /\ y.sec * M \in Int
  BY <1>1, <1>3
<1>6. Total(x) = x.sec * M + x.usec /\ Total(y) = y.sec * M + y.usec
  BY DEF Total
<1>7. Minore(a, b) <=> x.sec < y.sec \/ x.usec < y.usec
  BY DEF Minore
<1>8. CASE x.sec < y.sec
  <2>1. Total(x) < Total(y)
    BY <1>3, <1>4, <1>6, <1>8, MoreSeconds
  <2> QED BY <1>2, <1>3, <1>7, <1>8, <2>1
<1>9. CASE x.sec = y.sec
  <2>1. Total(x) < Total(y) <=> x.usec < y.usec
    BY <1>3, <1>5, <1>6, <1>9
  <2> QED BY <1>2, <1>3, <1>7, <1>9, <2>1
<1>10. CASE y.sec < x.sec
  <2>1. Total(y) < Total(x)
    BY <1>3, <1>4, <1>6, <1>10, MoreSeconds
  <2> QED BY <1>2, <1>3, <1>7, <1>10, <2>1
<1> QED BY <1>3, <1>8, <1>9, <1>10
=============================================================================
