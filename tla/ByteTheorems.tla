---------------------------- MODULE ByteTheorems ----------------------------
(***************************************************************************)
(* What the proofs need to know of a word that is kept in two bytes, whose *)
(* values are those below base.                                            *)
(***************************************************************************)
EXTENDS Integers, TLAPS

\* Multiplication by a natural number is monotonic, which the provers must be told.
LEMMA Multiply == ASSUME NEW a \in Nat, NEW b \in Nat, NEW c \in Nat, a <= b
                 PROVE  a * c \in Nat /\ b * c \in Nat /\ a * c <= b * c
  <1>1. a * c \in Nat /\ b * c \in Nat /\ (b - a) * c >= 0
    BY SMT
  <1>2. b * c = a * c + (b - a) * c
    BY SMT
  <1> QED
    BY <1>1, <1>2, SMT

\* Two bytes make a word.
LEMMA WordOfBytes == ASSUME NEW base \in Nat, base > 1,
                            NEW high \in 0 .. base - 1, NEW low \in 0 .. base - 1
                     PROVE  high * base + low \in 0 .. base * base - 1
  <1>1. (high + 1) * base <= base * base
    BY Multiply, SMT
  <1>2. (high + 1) * base = high * base + base /\ high * base \in Nat
    BY SMT
  <1> QED
    BY <1>1, <1>2, SMT

\* A word divides into two bytes.
LEMMA BytesOfWord == ASSUME NEW base \in Nat, base > 1, NEW word \in 0 .. base * base - 1
                     PROVE  /\ word \div base \in 0 .. base - 1
                            /\ word % base \in 0 .. base - 1
                            /\ word = (word \div base) * base + (word % base)
  <1>1. word % base \in 0 .. base - 1
    BY SMT
  <1>2. /\ word \div base \in Nat
        /\ word = (word \div base) * base + (word % base)
    BY SMT
  <1>3. (word \div base) * base <= word
    BY <1>1, <1>2, SMT
  <1>4. CASE word \div base >= base
    <2>1. base * base <= (word \div base) * base
      BY <1>2, <1>4, Multiply
    <2> QED
      BY <2>1, <1>3, SMT
  <1> QED
    BY <1>1, <1>2, <1>4, SMT
============================================================================
