---------------------------- MODULE QueueLemmas ----------------------------
(***************************************************************************)
(* What the proofs need to know of queues, which every block and socket of *)
(* the system has, and of minima.                                          *)
(***************************************************************************)
EXTENDS Integers, SequenceTheorems, FiniteSetsExt, WellFoundedInduction, TLAPS

(* The elements of a queue when one is added at its end.                   *)
LEMMA Appended ==
  ASSUME NEW S, NEW s \in Seq(S), NEW e \in S
  PROVE  /\ Append(s, e) \in Seq(S) /\ Append(s, e) # <<>>
         /\ Len(s) \in Nat /\ Len(Append(s, e)) = Len(s) + 1
         /\ \A i \in DOMAIN s : Append(s, e)[i] = s[i]
         /\ Append(s, e)[Len(s) + 1] = e
         /\ DOMAIN Append(s, e) = DOMAIN s \cup {Len(s) + 1}
OBVIOUS

(* Every element of a queue is of its kind.                                *)
LEMMA Element == ASSUME NEW S, NEW s \in Seq(S), NEW i \in DOMAIN s PROVE s[i] \in S
OBVIOUS

(* The elements of a queue when the first is taken.                        *)
LEMMA Shifted ==
  ASSUME NEW S, NEW s \in Seq(S), s # <<>>
  PROVE  /\ Tail(s) \in Seq(S) /\ Len(Tail(s)) = Len(s) - 1
         /\ Head(s) = s[1] /\ 1 \in DOMAIN s
         /\ \A i \in DOMAIN Tail(s) : /\ i \in Nat /\ i + 1 \in DOMAIN s
                                     /\ Tail(s)[i] = s[i + 1]
         /\ \A i \in DOMAIN s : i # 1 => i - 1 \in DOMAIN Tail(s) /\ Tail(s)[i - 1] = s[i]
         /\ Len(s) \in Nat /\ Len(s) >= 1 /\ s[1] \in S
         /\ Tail(s) = <<>> <=> Len(s) = 1
<1>1. Len(s) \in Nat /\ Len(s) >= 1
  BY EmptySeq
<1>2. Tail(s) \in Seq(S) /\ Len(Tail(s)) = Len(s) - 1
  BY <1>1
<1>3. Tail(s) = <<>> <=> Len(s) = 1
  <2> DEFINE t == Tail(s)
  <2>1. t \in Seq(S) /\ Len(t) = Len(s) - 1
    BY <1>2
  <2> HIDE DEF t
  <2>2. Len(t) = 0 <=> t = <<>>
    BY <2>1, EmptySeq
  <2>3. t = <<>> <=> Len(s) = 1
    BY <1>1, <2>1, <2>2
  <2> QED  BY <2>3 DEF t
<1> QED  BY <1>1, <1>2, <1>3

(* A function of the first n numbers is a queue.                           *)
LEMMA Tabulated ==
  ASSUME NEW S, NEW n \in Nat, NEW f \in [1..n -> S]
  PROVE  f \in Seq(S) /\ Len(f) = n /\ DOMAIN f = 1..n
<1>1. f \in Seq(S)
  BY SeqDef
<1>2. Len(f) \in Nat /\ 1..Len(f) = 1..n
  BY <1>1
<1> QED  BY <1>1, <1>2

(* A queue with all of another one behind it.                              *)
LEMMA Joined ==
  ASSUME NEW S, NEW s \in Seq(S), NEW t \in Seq(S)
  PROVE  /\ s \o t \in Seq(S) /\ Len(s \o t) = Len(s) + Len(t)
         /\ Len(s) \in Nat /\ Len(t) \in Nat
         /\ \A i \in DOMAIN s : i \in DOMAIN (s \o t) /\ (s \o t)[i] = s[i]
         /\ \A i \in DOMAIN t : /\ Len(s) + i \in DOMAIN (s \o t)
                               /\ (s \o t)[Len(s) + i] = t[i]
         /\ \A i \in DOMAIN (s \o t) : i \in DOMAIN s \/ i - Len(s) \in DOMAIN t
<1>1. Len(s) \in Nat /\ Len(t) \in Nat
  OBVIOUS
<1>2. /\ s \o t \in Seq(S) /\ Len(s \o t) = Len(s) + Len(t)
      /\ \A i \in 1..(Len(s) + Len(t)) :
           (s \o t)[i] = IF i <= Len(s) THEN s[i] ELSE t[i - Len(s)]
  BY ConcatProperties
<1> DEFINE u == s \o t
<1>3. u \in Seq(S) /\ Len(u) = Len(s) + Len(t) /\ DOMAIN u = 1..(Len(s) + Len(t))
  BY <1>2
<1>4. DOMAIN s = 1..Len(s) /\ DOMAIN t = 1..Len(t)
  OBVIOUS
<1>5. \A i \in 1..Len(s) : i \in 1..(Len(s) + Len(t)) /\ u[i] = s[i]
  BY <1>1, <1>2
<1>6. \A i \in 1..Len(t) : Len(s) + i \in 1..(Len(s) + Len(t)) /\ u[Len(s) + i] = t[i]
  BY <1>1, <1>2
<1>7. \A i \in 1..(Len(s) + Len(t)) : i \in 1..Len(s) \/ i - Len(s) \in 1..Len(t)
  BY <1>1
<1> HIDE DEF u
<1>8. /\ \A i \in DOMAIN s : i \in DOMAIN u /\ u[i] = s[i]
      /\ \A i \in DOMAIN t : Len(s) + i \in DOMAIN u /\ u[Len(s) + i] = t[i]
      /\ \A i \in DOMAIN u : i \in DOMAIN s \/ i - Len(s) \in DOMAIN t
  BY <1>3, <1>4, <1>5, <1>6, <1>7
<1> QED  BY <1>1, <1>3, <1>8 DEF u

(* A set of numbers has a least one.                                       *)
LEMMA Least ==
  ASSUME NEW S, S \subseteq Nat, S # {}
  PROVE  Min(S) \in S /\ \A y \in S : Min(S) <= y
<1> DEFINE R == OpToRel(<, Nat)
<1>1. IsWellFoundedOn(R, Nat)
  BY NatLessThanWellFounded
<1>2. \A x, y \in Nat : <<x, y>> \in R <=> x < y
  BY DEF OpToRel
<1> HIDE DEF R
<1>3. PICK x \in S : \A y \in S : ~(<<y, x>> \in R)
  BY <1>1, WFMin
<1>4. \A y \in S : x <= y
  <2> SUFFICES ASSUME NEW y \in S PROVE x <= y
    OBVIOUS
  <2>1. x \in Nat /\ y \in Nat /\ ~(y < x)
    BY <1>2, <1>3
  <2> QED  BY <2>1
<1> QED  BY <1>3, <1>4 DEF Min

(* A set of numbers that are not above n has a greatest one.               *)
LEMMA Greatest ==
  ASSUME NEW n \in Nat, NEW S, S \subseteq 1..n, S # {}
  PROVE  Max(S) \in S /\ \A y \in S : y <= Max(S)
<1> DEFINE T == {n - x : x \in S}
<1>0. \A x \in S : x \in Int /\ n - x \in Nat
  <2> SUFFICES ASSUME NEW x \in S PROVE x \in Int /\ n - x \in Nat
    OBVIOUS
  <2>1. x \in 1..n
    OBVIOUS
  <2> QED  BY <2>1
<1>1. T \subseteq Nat /\ T # {}
  BY <1>0
<1>2. Min(T) \in T /\ \A y \in T : Min(T) <= y
  BY <1>1, Least
<1>3. PICK x \in S : Min(T) = n - x
  BY <1>2
<1>4. \A y \in S : x >= y
  <2> SUFFICES ASSUME NEW y \in S PROVE x >= y
    OBVIOUS
  <2>1. n - x <= n - y
    BY <1>2, <1>3
  <2> QED  BY <2>1, <1>0
<1>5. Max(S) \in S /\ \A y \in S : Max(S) >= y
  BY <1>4 DEF Max
<1> QED  BY <1>5, <1>0

(* The elements of a queue when the first n are taken.                     *)
LEMMA Remaining ==
  ASSUME NEW S, NEW s \in Seq(S), NEW n \in Nat, n <= Len(s)
  PROVE  LET t == SubSeq(s, n + 1, Len(s)) IN
         /\ t \in Seq(S) /\ Len(t) = Len(s) - n
         /\ \A i \in DOMAIN t : i \in Nat /\ i + n \in DOMAIN s /\ t[i] = s[i + n]
<1> DEFINE t == SubSeq(s, n + 1, Len(s))
<1>1. Len(s) \in Nat /\ \A i \in n + 1 .. Len(s) : s[i] \in S
  OBVIOUS
<1>2. /\ t \in Seq(S) /\ Len(t) = IF n + 1 <= Len(s) THEN Len(s) - (n + 1) + 1 ELSE 0
      /\ \A i \in 1 .. Len(s) - (n + 1) + 1 : t[i] = s[n + 1 + i - 1]
  BY <1>1, SubSeqProperties
<1> HIDE DEF t
<1>3. Len(t) = Len(s) - n /\ DOMAIN t = 1 .. Len(t)
  BY <1>1, <1>2
<1>4. ASSUME NEW i \in DOMAIN t PROVE i \in Nat /\ i + n \in DOMAIN s /\ t[i] = s[i + n]
  <2>1. i \in Nat /\ i >= 1 /\ i <= Len(s) - n
    BY <1>1, <1>3
  <2>2. i \in 1 .. Len(s) - (n + 1) + 1 /\ n + 1 + i - 1 = i + n
    BY <1>1, <2>1
  <2>3. i + n \in DOMAIN s
    BY <1>1, <2>1
  <2> QED  BY <1>2, <2>1, <2>2, <2>3
<1> QED  BY <1>2, <1>3, <1>4 DEF t

(* The lesser of two numbers.                                              *)
LEMMA Lesser ==
  ASSUME NEW a \in Int, NEW b \in Int
  PROVE  Min({a, b}) = IF a <= b THEN a ELSE b
<1> DEFINE c == IF a <= b THEN a ELSE b
<1>1. c \in {a, b} /\ c \in Int /\ \A y \in {a, b} : c <= y
  OBVIOUS
<1>2. \A d \in {a, b} : (\A y \in {a, b} : d <= y) => d = c
  <2> SUFFICES ASSUME NEW d \in {a, b}, \A y \in {a, b} : d <= y PROVE d = c
    OBVIOUS
  <2>1. d <= a /\ d <= b /\ d \in Int
    OBVIOUS
  <2> QED  BY <2>1
<1> HIDE DEF c
<1> QED  BY <1>1, <1>2 DEF Min, c

(* The greater of two numbers.                                             *)
LEMMA Greater ==
  ASSUME NEW a \in Int, NEW b \in Int
  PROVE  Max({a, b}) = IF a >= b THEN a ELSE b
<1> DEFINE c == IF a >= b THEN a ELSE b
<1>1. c \in {a, b} /\ c \in Int /\ \A y \in {a, b} : c >= y
  OBVIOUS
<1>2. \A d \in {a, b} : (\A y \in {a, b} : d >= y) => d = c
  <2> SUFFICES ASSUME NEW d \in {a, b}, \A y \in {a, b} : d >= y PROVE d = c
    OBVIOUS
  <2>1. d >= a /\ d >= b /\ d \in Int
    OBVIOUS
  <2> QED  BY <2>1
<1> HIDE DEF c
<1> QED  BY <1>1, <1>2 DEF Max, c
=============================================================================
