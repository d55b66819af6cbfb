----------------------------- MODULE TimeArith ------------------------------
(***************************************************************************)
(* The timeval arithmetic of Util.c, which the Ritardatore orders its      *)
(* datagrams and its bursts with.                                          *)
(***************************************************************************)
EXTENDS Integers

CONSTANT SecInMcsec   \* SEC_IN_MCSEC: units of tv_usec in a second

ASSUME SecAssumption == SecInMcsec \in Nat /\ SecInMcsec > 0

Timeval == [sec : Int, usec : Nat]

(* What gettimeofday and the functions below return. *)
Normal(t) == t.usec < SecInMcsec

(* The instant or the duration that a timeval stands for. *)
Total(t) == t.sec * SecInMcsec + t.usec

Normalizza(t) ==
    [sec |-> t.sec + (t.usec \div SecInMcsec), usec |-> t.usec % SecInMcsec]

Somma(tmr, ist) ==
    LET a == Normalizza(tmr)
        b == Normalizza(ist)
    IN  Normalizza([sec |-> a.sec + b.sec, usec |-> a.usec + b.usec])

(* dopo - prima, or zero when dopo is the earlier. *)
Differenza(dopo, prima) ==
    LET d == Normalizza(dopo)
        p == Normalizza(prima)
    IN  IF d.sec < p.sec \/ (d.sec = p.sec /\ d.usec < p.usec)
        THEN [sec |-> 0, usec |-> 0]
        ELSE IF d.usec < p.usec
        THEN [sec |-> d.sec - p.sec - 1, usec |-> d.usec - p.usec + SecInMcsec]
        ELSE [sec |-> d.sec - p.sec, usec |-> d.usec - p.usec]

(* minore compares the microseconds also when the first argument has more
   seconds. *)
Minore(a, b) ==
    LET x == Normalizza(a)
        y == Normalizza(b)
    IN  x.sec < y.sec \/ x.usec < y.usec

MinoreOUguale(a, b) ==
    LET x == Normalizza(a)
        y == Normalizza(b)
    IN  x.sec < y.sec \/ (x.sec = y.sec /\ x.usec <= y.usec)
=============================================================================
