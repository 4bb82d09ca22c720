------------------------------ MODULE Numbers ------------------------------
(***************************************************************************)
(* The remainder of sums, for the rings and streams that are counted       *)
(* modulo a constant, and induction over the elements of a set, for what   *)
(* is defined by recursion.                                                *)
(***************************************************************************)
EXTENDS Integers, TLAPS, WellFoundedInduction

-----------------------------------------------------------------------------
(* Remainders *)

\* The remainder is the number below m that differs by a multiple of it.
LEMMA ModuloUnique ==
    ASSUME NEW m \in Nat \ {0}, NEW n \in Nat, NEW q \in Int, NEW r \in 0 .. m - 1,
           n = m * q + r
    PROVE  n % m = r
OBVIOUS

\* Every number is a multiple of m and its remainder.
LEMMA ModuloParts ==
    ASSUME NEW m \in Nat \ {0}, NEW n \in Nat
    PROVE  n % m \in 0 .. m - 1 /\ \E q \in Int : n = m * q + (n % m)
<1>1. /\ n = m * (n \div m) + (n % m)
      /\ 0 <= n % m /\ n % m < m
      /\ n \div m \in Int /\ n % m \in Int
  OBVIOUS
<1>2. \E q \in Int : n = m * q + (n % m)
  <2> WITNESS n \div m \in Int
  <2> QED
    BY <1>1
<1>3. n % m \in 0 .. m - 1
  BY <1>1
<1> QED
  BY <1>2, <1>3, Zenon

\* Numbers may be reduced at every addition.
LEMMA ModuloSum ==
    ASSUME NEW m \in Nat \ {0}, NEW a \in Nat, NEW b \in Nat
    PROVE  ((a % m) + b) % m = (a + b) % m
<1>1. PICK r \in 0 .. m - 1 : r = a % m /\ \E q \in Int : a = m * q + r
  BY ModuloParts
<1>2. r + b \in Nat /\ a + b \in Nat
  OBVIOUS
<1>3. PICK t \in 0 .. m - 1 : t = (r + b) % m /\ \E p \in Int : r + b = m * p + t
  BY <1>2, ModuloParts
<1>4. PICK q \in Int, p \in Int : a = m * q + r /\ r + b = m * p + t
  BY <1>1, <1>3
<1>5. PICK d \in Int : d = q + p
  OBVIOUS
<1>6. m * d = m * q + m * p /\ m * q \in Int /\ m * p \in Int /\ m * d \in Int
  BY <1>5
<1>7. a + b = m * d + t
  BY <1>4, <1>6
<1>8. (a + b) % m = t
  BY <1>2, <1>7, ModuloUnique
<1> QED
  BY <1>1, <1>3, <1>8

\* One turn of a ring.
LEMMA ModuloOnce ==
    ASSUME NEW m \in Nat \ {0}, NEW a \in 0 .. 2 * m - 1
    PROVE  a % m = IF a < m THEN a ELSE a - m
OBVIOUS

\* The block of the numbers that share the quotient of x begins at a multiple of
\* the divisor; numbers less than a block apart are in the same or the next one.
LEMMA Blocks ==
    ASSUME NEW m \in Nat \ {0}, NEW x \in Nat
    PROVE  /\ \E i \in Nat, r \in 0 .. m - 1 :
                /\ i = (x \div m) * m /\ r = x % m
                /\ x = i + r /\ (i = 0 \/ i >= m)
           /\ \A y \in Nat : x >= y /\ x - y < m =>
                (x \div m) * m \in {(y \div m) * m, (y \div m) * m + m}
<1>1. ASSUME NEW y \in Nat
      PROVE  \E q \in Nat, r \in 0 .. m - 1 :
               y = m * q + r /\ r = y % m /\ (y \div m) * m = m * q
  <2>1. y \div m \in Nat /\ y % m \in 0 .. m - 1 /\ y = m * (y \div m) + (y % m)
    OBVIOUS
  <2>2. (y \div m) * m = m * (y \div m)
    BY <2>1
  <2> QED
    BY <2>1, <2>2
<1>2. PICK q \in Nat, r \in 0 .. m - 1 :
        x = m * q + r /\ r = x % m /\ (x \div m) * m = m * q
  BY <1>1
<1>3. m * q \in Nat /\ (m * q = 0 \/ m * q >= m)
  <2>1. CASE q = 0
    BY <2>1
  <2>2. CASE q >= 1
    <3>1. PICK p \in Nat : q = p + 1
      BY <2>2
    <3>2. m * q = m * p + m /\ m * p \in Nat
      BY <3>1
    <3> QED
      BY <3>2
  <2> QED
    BY <2>1, <2>2
<1>4. ASSUME NEW y \in Nat, x >= y, x - y < m
      PROVE  (x \div m) * m \in {(y \div m) * m, (y \div m) * m + m}
  <2>1. PICK p \in Nat, s \in 0 .. m - 1 : y = m * p + s /\ (y \div m) * m = m * p
    BY <1>1
  <2>2. PICK d \in Int : d = q - p
    OBVIOUS
  <2>3. m * q = m * p + m * d /\ m * d \in Int /\ m * p \in Int
    BY <2>2
  <2>4. m * d > -m /\ m * d < 2 * m
    BY <1>2, <1>4, <2>1, <2>3
  <2>5. d \in {0, 1}
    <3>1. d <= -1 => m * d <= -m
      OBVIOUS
    <3>2. d >= 2 => m * d >= 2 * m
      OBVIOUS
    <3> QED
      BY <2>3, <2>4, <3>1, <3>2
  <2> QED
    BY <1>2, <2>1, <2>3, <2>5
<1> QED
  BY <1>2, <1>3, <1>4

-----------------------------------------------------------------------------
(* Induction over a set of numbers *)

Smaller == {p \in Nat \X Nat : p[1] < p[2]}

LEMMA SmallerWellFounded == IsWellFoundedOn(Smaller, Nat)
BY NatLessThanWellFounded DEF OpToRel, Smaller

\* A set of numbers has a least element.
LEMMA LeastElement ==
    ASSUME NEW T, T \subseteq Nat, T # {}
    PROVE  \E x \in T : \A y \in T : x <= y
<1>1. PICK x \in T : \A y \in T : ~(<<y, x>> \in Smaller)
  BY WFMin, SmallerWellFounded
<1>2. \A y \in T : x <= y
  <2> TAKE y \in T
  <2>1. x \in Nat /\ y \in Nat
    OBVIOUS
  <2>2. ~(y < x)
    BY <1>1, <2>1 DEF Smaller
  <2> QED
    BY <2>1, <2>2
<1> QED
  BY <1>2

\* A set with 0 and, with each number, the next one, holds all of them.
LEMMA InductionOn ==
    ASSUME NEW T, 0 \in T, \A n \in Nat : n \in T => n + 1 \in T
    PROVE  \A n \in Nat : n \in T
<1> SUFFICES ASSUME Nat \ T # {} PROVE FALSE
  OBVIOUS
<1>1. PICK x \in Nat \ T : \A y \in Nat \ T : x <= y
  <2>1. Nat \ T \subseteq Nat
    OBVIOUS
  <2> QED
    BY <2>1, LeastElement
<1>2. x # 0 /\ x - 1 \in Nat
  OBVIOUS
<1>3. x - 1 \in T
  BY <1>1, <1>2
<1>4. (x - 1) + 1 \in T
  BY <1>2, <1>3
<1> QED
  BY <1>2, <1>4

\* The same, when the next one may need all those before it.
LEMMA StrongInductionOn ==
    ASSUME NEW T, \A n \in Nat : (\A m \in 0 .. n - 1 : m \in T) => n \in T
    PROVE  \A n \in Nat : n \in T
<1> SUFFICES ASSUME Nat \ T # {} PROVE FALSE
  OBVIOUS
<1>1. PICK x \in Nat \ T : \A y \in Nat \ T : x <= y
  <2>1. Nat \ T \subseteq Nat
    OBVIOUS
  <2> QED
    BY <2>1, LeastElement
<1>2. \A m \in 0 .. x - 1 : m \in T
  BY <1>1
<1> QED
  BY <1>2

\* Induction up to a bound.
LEMMA InductionUpTo ==
    ASSUME NEW T, NEW N \in Nat, 0 \in T, \A n \in 0 .. N - 1 : n \in T => n + 1 \in T
    PROVE  \A n \in 0 .. N : n \in T
<1> DEFINE U == {n \in Nat : n <= N => n \in T}
<1>1. 0 \in U
  OBVIOUS
<1>2. \A n \in Nat : n \in U => n + 1 \in U
  OBVIOUS
<1>3. \A n \in Nat : n \in U
  <2> HIDE DEF U
  <2> QED
    BY <1>1, <1>2, InductionOn
<1> QED
  BY <1>3
=============================================================================
