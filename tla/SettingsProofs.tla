--------------------------- MODULE SettingsProofs ---------------------------
(***************************************************************************)
(* Settings keeps its properties, for every command line, every list of    *)
(* words getopt has to permute, and files of every length.                 *)
(***************************************************************************)
EXTENDS Settings, Numbers, SequenceTheorems

-----------------------------------------------------------------------------
(* The least and the greatest element *)

LEMMA MinOf ==
    ASSUME NEW T, T \subseteq Nat, T # {}
    PROVE  Min(T) \in T /\ \A y \in T : Min(T) <= y
BY LeastElement DEF Min

LEMMA MaxOf ==
    ASSUME NEW T, T \subseteq Nat, NEW x \in T, \A y \in T : y <= x
    PROVE  Max(T) = x
<1>1. Max(T) \in T /\ \A y \in T : Max(T) >= y
  BY DEF Max
<1>2. Max(T) \in Nat /\ x \in Nat
  BY <1>1
<1>3. Max(T) <= x /\ x <= Max(T)
  BY <1>1, <1>2
<1> QED
  BY <1>2, <1>3

-----------------------------------------------------------------------------
(* gcd *)

\* g divides a and b, and is a combination of them.
IsGcd(g, a, b) ==
    /\ g \in Nat \ {0}
    /\ \E q \in Nat : a = g * q
    /\ \E q \in Nat : b = g * q
    /\ \E u, w \in Int : g = u * a + w * b

LEMMA GcdUnique ==
    ASSUME NEW a \in Nat, NEW b \in Nat, NEW g, NEW h, IsGcd(g, a, b), IsGcd(h, a, b)
    PROVE  g = h
<1>1. g \in Nat \ {0} /\ h \in Nat \ {0}
  BY DEF IsGcd
<1>2. PICK q1 \in Nat, r1 \in Nat, q2 \in Nat, r2 \in Nat :
          a = g * q1 /\ b = g * r1 /\ a = h * q2 /\ b = h * r2
  BY DEF IsGcd
<1>3. PICK u1 \in Int, w1 \in Int, u2 \in Int, w2 \in Int :
          g = u1 * a + w1 * b /\ h = u2 * a + w2 * b
  BY DEF IsGcd
<1> DEFINE z == u2 * q1 + w2 * r1
           y == u1 * q2 + w1 * r2
<1>4. h = g * z /\ z \in Int
  BY <1>1, <1>2, <1>3
<1>5. g = h * y /\ y \in Int
  BY <1>1, <1>2, <1>3
<1> HIDE DEF z, y
<1>6. z >= 1 /\ y >= 1
  BY <1>1, <1>4, <1>5
<1>7. h >= g /\ g >= h
  BY <1>1, <1>4, <1>5, <1>6
<1> QED
  BY <1>1, <1>7

\* One turn of the loop keeps it.
LEMMA GcdStep ==
    ASSUME NEW a \in Nat, NEW b \in Nat \ {0}
    PROVE  /\ a % b = 0 => IsGcd(b, a, b)
           /\ \A g : a % b # 0 /\ IsGcd(g, b, a % b) => IsGcd(g, a, b)
           /\ \A g : a % b # 0 /\ IsGcd(g, a, b) => IsGcd(g, b, a % b)
<1>1. PICK r \in 0 .. b - 1 : r = a % b /\ \E q \in Int : a = b * q + r
  BY ModuloParts
<1>2. PICK q \in Int : a = b * q + r
  BY <1>1
<1>3. q >= 0
  BY <1>2
<1>4. ASSUME r = 0 PROVE IsGcd(b, a, b)
  <2>1. \E d \in Nat : a = b * d
    BY <1>2, <1>3, <1>4
  <2>2. \E d \in Nat : b = b * d
    <3>1. b = b * 1
      OBVIOUS
    <3> QED
      BY <3>1
  <2>3. \E u, w \in Int : b = u * a + w * b
    <3>1. b = 0 * a + 1 * b
      OBVIOUS
    <3> QED
      BY <3>1
  <2> QED
    BY <2>1, <2>2, <2>3 DEF IsGcd
<1>5. ASSUME NEW g, r # 0, IsGcd(g, b, r) PROVE IsGcd(g, a, b)
  <2>1. PICK s \in Nat, t \in Nat, u \in Int, w \in Int :
            b = g * s /\ r = g * t /\ g = u * b + w * r
    BY <1>5 DEF IsGcd
  <2>2. g \in Nat \ {0}
    BY <1>5 DEF IsGcd
  <2>3. a = g * (s * q + t) /\ s * q + t \in Nat
    BY <1>2, <1>3, <2>1, <2>2
  <2>4. g = w * a + (u - w * q) * b /\ u - w * q \in Int
    BY <1>2, <2>1, <2>2
  <2> QED
    BY <2>1, <2>2, <2>3, <2>4 DEF IsGcd
<1>6. ASSUME NEW g, r # 0, IsGcd(g, a, b) PROVE IsGcd(g, b, r)
  <2>1. PICK s \in Nat, t \in Nat, u \in Int, w \in Int :
            a = g * s /\ b = g * t /\ g = u * a + w * b
    BY <1>6 DEF IsGcd
  <2>2. g \in Nat \ {0}
    BY <1>6 DEF IsGcd
  <2>3. r = g * (s - t * q) /\ s - t * q \in Int
    BY <1>2, <2>1, <2>2
  <2>4. s - t * q >= 0
    BY <2>2, <2>3
  <2>5. g = (u * q + w) * b + u * r /\ u * q + w \in Int
    BY <1>2, <2>1, <2>2
  <2>6. \E d \in Nat : r = g * d
    BY <2>3, <2>4
  <2>7. \E y, z \in Int : g = y * b + z * r
    BY <2>5
  <2> QED
    BY <2>1, <2>2, <2>6, <2>7 DEF IsGcd
<1> QED
  BY <1>1, <1>4, <1>5, <1>6

LEMMA GcdExists ==
    ASSUME NEW a \in Nat, NEW b \in Nat \ {0}
    PROVE  \E g : IsGcd(g, a, b)
<1> DEFINE T == {n \in Nat : n # 0 => \A x \in Nat : \E g : IsGcd(g, x, n)}
<1>1. ASSUME NEW n \in Nat, \A m \in 0 .. n - 1 : m \in T PROVE n \in T
  <2> SUFFICES ASSUME n # 0, NEW x \in Nat PROVE \E g : IsGcd(g, x, n)
    OBVIOUS
  <2>1. x % n \in 0 .. n - 1
    BY ModuloParts
  <2>2. CASE x % n = 0
    BY <2>2, GcdStep
  <2>3. CASE x % n # 0
    <3>1. PICK g : IsGcd(g, n, x % n)
      BY <1>1, <2>1, <2>3
    <3> QED
      BY <2>3, <3>1, GcdStep
  <2> QED
    BY <2>2, <2>3
<1>2. \A n \in Nat : n \in T
  <2> HIDE DEF T
  <2> QED
    BY <1>1, StrongInductionOn
<1> QED
  BY <1>2

\* The loop is well defined.
LEMMA GcdDefined ==
    gcd = [p \in Nat \X (Nat \ {0}) |->
              IF p[1] % p[2] = 0 THEN p[2] ELSE gcd[<<p[2], p[1] % p[2]>>]]
<1> DEFINE D == Nat \X (Nat \ {0})
           f == [p \in D |-> CHOOSE g : IsGcd(g, p[1], p[2])]
<1>1. \A a \in Nat, b \in Nat \ {0} : IsGcd(f[<<a, b>>], a, b)
  BY GcdExists
<1>2. ASSUME NEW p \in D
      PROVE  f[p] = IF p[1] % p[2] = 0 THEN p[2] ELSE f[<<p[2], p[1] % p[2]>>]
  <2>1. PICK a \in Nat, b \in Nat \ {0} : p = <<a, b>>
    OBVIOUS
  <2>2. IsGcd(f[p], a, b)
    BY <1>1, <2>1
  <2>3. a % b \in Nat
    BY ModuloParts
  <2>4. CASE a % b = 0
    BY <2>1, <2>2, <2>4, GcdStep, GcdUnique
  <2>5. CASE a % b # 0
    <3>1. IsGcd(f[<<b, a % b>>], b, a % b)
      BY <1>1, <2>3, <2>5
    <3>2. IsGcd(f[<<b, a % b>>], a, b)
      BY <2>5, <3>1, GcdStep
    <3> HIDE DEF f
    <3> QED
      BY <2>1, <2>2, <2>5, <3>2, GcdUnique
  <2> QED
    BY <2>4, <2>5
<1>3. f = [p \in D |-> IF p[1] % p[2] = 0 THEN p[2] ELSE f[<<p[2], p[1] % p[2]>>]]
  <2>1. f = [p \in D |-> f[p]]
    OBVIOUS
  <2> HIDE DEF f
  <2> QED
    BY <1>2, <2>1
<1> HIDE DEF f
<1> QED
  BY <1>3 DEF gcd

LEMMA GcdIs ==
    ASSUME NEW a \in Nat, NEW b \in Nat \ {0}
    PROVE  IsGcd(gcd[<<a, b>>], a, b)
<1> DEFINE T == {n \in Nat : n # 0 => \A x \in Nat : IsGcd(gcd[<<x, n>>], x, n)}
<1>1. ASSUME NEW n \in Nat, \A m \in 0 .. n - 1 : m \in T PROVE n \in T
  <2> SUFFICES ASSUME n # 0, NEW x \in Nat PROVE IsGcd(gcd[<<x, n>>], x, n)
    OBVIOUS
  <2>1. x % n \in 0 .. n - 1
    BY ModuloParts
  <2>2. gcd[<<x, n>>] = IF x % n = 0 THEN n ELSE gcd[<<n, x % n>>]
    BY GcdDefined
  <2>3. CASE x % n = 0
    BY <2>2, <2>3, GcdStep
  <2>4. CASE x % n # 0
    <3>1. IsGcd(gcd[<<n, x % n>>], n, x % n)
      BY <1>1, <2>1, <2>4
    <3> QED
      BY <2>2, <2>4, <3>1, GcdStep
  <2> QED
    BY <2>3, <2>4
<1>2. \A n \in Nat : n \in T
  <2> HIDE DEF T
  <2> QED
    BY <1>1, StrongInductionOn
<1> QED
  BY <1>2

-----------------------------------------------------------------------------
(* permute_args: the places of a cycle *)

\* Counted from the start of the two blocks, of lengths a and b, the j-th place
\* of the cycle that begins at the i-th word of the second one.
WalkAt(a, b, i, j) == (a + i + j * b) % (a + b)

\* The blocks are made of parts of the length g, a1 and b1 of them, m in all, and
\* b1 is invertible modulo m.
Parts(a, b, g, m, a1, b1, c, u) ==
    /\ a + b = g * m
    /\ (a + b) \div g = m
    /\ a = g * a1
    /\ b = g * b1
    /\ 1 = c * b1 + u * m

LEMMA WalkParts ==
    ASSUME NEW a \in Nat \ {0}, NEW b \in Nat \ {0}, NEW g, IsGcd(g, a, b)
    PROVE  \E m \in Nat \ {0}, a1 \in Nat, b1 \in Nat \ {0}, c \in Int, u \in Int :
               Parts(a, b, g, m, a1, b1, c, u)
<1>1. PICK a1 \in Nat, b1 \in Nat, v \in Int, w \in Int :
          a = g * a1 /\ b = g * b1 /\ g = v * a + w * b
  BY DEF IsGcd
<1>2. g \in Nat \ {0}
  BY DEF IsGcd
<1>3. b1 # 0
  BY <1>1, <1>2
<1> DEFINE m == a1 + b1
           c == w - v
<1>4. m \in Nat \ {0} /\ c \in Int /\ v \in Int
  BY <1>1, <1>3
<1>5. a + b = g * m
  BY <1>1, <1>2
<1>6. g * 1 = g * (c * b1 + v * m) /\ c * b1 + v * m \in Int
  BY <1>1, <1>2
<1>7. 1 = c * b1 + v * m
  <2>1. \A x \in Int : g * 1 = g * x => x = 1
    BY <1>2
  <2> QED
    BY <1>6, <2>1
<1> HIDE DEF m, c
<1>8. (a + b) \div g = m
  BY <1>2, <1>4, <1>5
<1> QED
  BY ZenonT(40), <1>1, <1>3, <1>4, <1>5, <1>7, <1>8 DEF Parts

\* Each place follows from the last as the code says.
LEMMA WalkStep ==
    ASSUME NEW a \in Nat \ {0}, NEW b \in Nat \ {0}, NEW i \in Nat, NEW j \in Nat
    PROVE  /\ WalkAt(a, b, i, j) \in 0 .. a + b - 1
           /\ WalkAt(a, b, i, j + 1) = IF WalkAt(a, b, i, j) >= a THEN WalkAt(a, b, i, j) - a
                                       ELSE WalkAt(a, b, i, j) + b
<1>1. PICK n \in Nat \ {0} : n = a + b
  OBVIOUS
<1>2. PICK x \in Nat : x = a + i + j * b
  OBVIOUS
<1>3. PICK y \in 0 .. n - 1 : y = x % n
  BY ModuloParts
<1>4. (x + b) % n = (y + b) % n
  BY <1>3, ModuloSum
<1>5. (y + b) % n = IF y + b < n THEN y + b ELSE y + b - n
  <2>1. PICK z \in 0 .. 2 * n - 1 : z = y + b
    BY <1>1
  <2>2. z % n = IF z < n THEN z ELSE z - n
    BY ModuloOnce
  <2> QED
    BY <2>1, <2>2
<1>6. WalkAt(a, b, i, j) = y
  BY <1>1, <1>2, <1>3 DEF WalkAt
<1>7. WalkAt(a, b, i, j + 1) = (x + b) % n
  <2>1. a + i + (j + 1) * b = x + b
    BY <1>2
  <2> QED
    BY <1>1, <2>1 DEF WalkAt
<1> QED
  BY <1>1, <1>4, <1>5, <1>6, <1>7

\* A cycle begins at its beginning and stays in one class of places.
LEMMA WalkClass ==
    ASSUME NEW a \in Nat \ {0}, NEW b \in Nat \ {0}, NEW g, IsGcd(g, a, b),
           NEW i \in 0 .. g - 1, NEW j \in Nat
    PROVE  /\ WalkAt(a, b, i, 0) = a + i /\ a + i < a + b
           /\ WalkAt(a, b, i, j) % g = i
<1>0. PICK m \in Nat \ {0}, a1 \in Nat, b1 \in Nat \ {0}, c \in Int, u \in Int :
          Parts(a, b, g, m, a1, b1, c, u)
  BY WalkParts
<1>1. a + b = g * m /\ a = g * a1 /\ b = g * b1
  BY <1>0 DEF Parts
<1>2. g \in Nat \ {0}
  BY DEF IsGcd
<1>3. g <= b
  BY <1>1, <1>2
<1>4. WalkAt(a, b, i, 0) = a + i
  <2>1. PICK n \in Nat \ {0}, x \in Nat : n = a + b /\ x = a + i /\ x < n
    BY <1>2, <1>3
  <2>2. x % n = x
    <3>1. x = n * 0 + x /\ x \in 0 .. n - 1
      BY <2>1
    <3> QED
      BY <3>1, ModuloUnique
  <2>3. a + i + 0 * b = x
    BY <1>2, <2>1
  <2> QED
    BY <2>1, <2>2, <2>3 DEF WalkAt
<1> DEFINE x == WalkAt(a, b, i, j)
<1>5. PICK q \in Int : a + i + j * b = (a + b) * q + x
  <2>1. a + i + j * b \in Nat /\ a + b \in Nat \ {0}
    OBVIOUS
  <2> QED
    BY <2>1, ModuloParts DEF WalkAt
<1>6. x \in 0 .. a + b - 1
  <2>1. i \in Nat
    BY <1>2
  <2> QED
    BY <2>1, WalkStep
<1> HIDE DEF x
<1>7. x = g * (a1 + j * b1 - m * q) + i /\ a1 + j * b1 - m * q \in Int
  <2>1. a + i + j * b = g * a1 + i + j * (g * b1)
    BY <1>1
  <2>2. (a + b) * q = (g * m) * q
    BY <1>1
  <2> QED
    BY <1>2, <1>5, <1>6, <2>1, <2>2
<1>8. x % g = i
  <2>1. x \in Nat
    BY <1>6
  <2> QED
    BY <1>2, <1>7, <2>1, ModuloUnique
<1>9. a + i < a + b
  BY <1>2, <1>3
<1>10. WalkAt(a, b, i, j) % g = i
  BY <1>8 DEF x
<1> QED
  BY <1>4, <1>9, <1>10, Zenon

\* It comes back to its beginning, and not before.
LEMMA WalkReturns ==
    ASSUME NEW a \in Nat \ {0}, NEW b \in Nat \ {0}, NEW g, IsGcd(g, a, b), NEW i \in 0 .. g - 1,
           NEW m, m = (a + b) \div g
    PROVE  /\ m \in Nat \ {0}
           /\ WalkAt(a, b, i, m) = WalkAt(a, b, i, 0)
           /\ \A j \in 0 .. m - 1, k \in 0 .. m - 1 :
                  j < k => WalkAt(a, b, i, j) # WalkAt(a, b, i, k)
<1>0. PICK a1 \in Nat, b1 \in Nat \ {0}, c \in Int, u \in Int :
          m \in Nat \ {0} /\ Parts(a, b, g, m, a1, b1, c, u)
  <2>1. PICK k \in Nat \ {0}, a1 \in Nat, b1 \in Nat \ {0}, c \in Int, u \in Int :
            Parts(a, b, g, k, a1, b1, c, u)
    BY WalkParts
  <2>2. m = k
    BY <2>1 DEF Parts
  <2> QED
    BY <2>1, <2>2
<1>1. m \in Nat \ {0} /\ a + b = g * m /\ b = g * b1 /\ 1 = c * b1 + u * m
  BY <1>0 DEF Parts
<1>2. g \in Nat \ {0}
  BY DEF IsGcd
<1>3. WalkAt(a, b, i, 0) = a + i /\ a + i < a + b
  BY WalkClass
<1>4. WalkAt(a, b, i, m) = a + i
  <2>1. m * b = (a + b) * b1
    BY <1>1, <1>2
  <2>2. PICK n \in Nat \ {0}, x \in Nat, y \in Nat :
            n = a + b /\ x = a + i + m * b /\ y = a + i /\ y < n
    <3>1. m * b \in Nat /\ a + i \in Nat /\ a + i + m * b \in Nat
      BY <1>1, <1>2
    <3>2. a + b \in Nat \ {0} /\ a + i < a + b
      BY <1>3
    <3> QED
      BY <3>1, <3>2
  <2>3. x = n * b1 + y /\ y \in 0 .. n - 1
    BY <2>1, <2>2
  <2>4. x % n = y
    BY <2>3, ModuloUnique
  <2> QED
    BY <2>2, <2>4 DEF WalkAt
<1>5. ASSUME NEW j \in 0 .. m - 1, NEW k \in 0 .. m - 1, j < k,
             WalkAt(a, b, i, j) = WalkAt(a, b, i, k)
      PROVE  FALSE
  <2> DEFINE x == WalkAt(a, b, i, j)
  <2>1. PICK p \in Int, q \in Int : a + i + j * b = (a + b) * p + x /\ a + i + k * b = (a + b) * q + x
    <3>1. a + i + j * b \in Nat /\ a + i + k * b \in Nat /\ a + b \in Nat \ {0}
      BY <1>2
    <3> QED
      BY ZenonT(40), <1>5, <3>1, ModuloParts DEF WalkAt
  <2>2. x \in Int
    BY WalkStep, <1>2
  <2> HIDE DEF x
  <2> DEFINE d == k - j
             e == q - p
  <2>3. d \in 1 .. m - 1 /\ e \in Int
    BY <1>5, <2>1
  <2>4. d * b = (a + b) * e
    BY <1>2, <2>1, <2>2
  <2> HIDE DEF d, e
  <2>5. g * (d * b1) = g * (m * e) /\ d * b1 \in Int /\ m * e \in Int
    BY <1>1, <1>2, <2>3, <2>4
  <2>6. d * b1 = m * e
    <3>1. \A y, z \in Int : g * y = g * z => y = z
      BY <1>2
    <3> QED
      BY <2>5, <3>1
  <2>7. d = d * (c * b1 + u * m)
    BY <1>1, <2>3
  <2>8. d * (c * b1 + u * m) = c * (d * b1) + m * (d * u)
    BY <1>1, <2>3
  <2>9. d = m * (c * e + d * u) /\ c * e + d * u \in Int
    <3>1. c * (m * e) + m * (d * u) = m * (c * e + d * u) /\ c * e + d * u \in Int
      BY <1>1, <2>3
    <3> QED
      BY <2>6, <2>7, <2>8, <3>1
  <2>10. \A z \in Int : m * z <= 0 \/ m * z >= m
    BY <1>1
  <2> QED
    BY <2>3, <2>9, <2>10
<1> QED
  BY <1>1, <1>3, <1>4, <1>5

\* It comes to every place of its class.
LEMMA WalkReaches ==
    ASSUME NEW a \in Nat \ {0}, NEW b \in Nat \ {0}, NEW g, IsGcd(g, a, b),
           NEW y \in 0 .. a + b - 1, NEW m, m = (a + b) \div g
    PROVE  \E j \in 1 .. m : WalkAt(a, b, y % g, j) = y
<1>0. PICK a1 \in Nat, b1 \in Nat \ {0}, c \in Int, u \in Int :
          m \in Nat \ {0} /\ Parts(a, b, g, m, a1, b1, c, u)
  <2>1. PICK k \in Nat \ {0}, a1 \in Nat, b1 \in Nat \ {0}, c \in Int, u \in Int :
            Parts(a, b, g, k, a1, b1, c, u)
    BY WalkParts
  <2>2. m = k
    BY <2>1 DEF Parts
  <2> QED
    BY <2>1, <2>2
<1>1. m \in Nat \ {0} /\ a + b = g * m /\ a = g * a1 /\ b = g * b1 /\ 1 = c * b1 + u * m
  BY <1>0 DEF Parts
<1>2. g \in Nat \ {0}
  BY DEF IsGcd
<1>3. PICK i \in 0 .. g - 1, h \in Int : i = y % g /\ y = g * h + i
  <2>1. y \in Nat
    OBVIOUS
  <2> QED
    BY <1>2, <2>1, ModuloParts
<1> DEFINE d == h - a1
<1>4. y = a + i + g * d /\ d \in Int
  BY <1>1, <1>2, <1>3
<1> HIDE DEF d
<1>5. PICK j \in 0 .. m - 1, q \in Int : c * d = m * q + j
  <2>1. \A z \in Int : z = m * (z \div m) + (z % m) /\ z % m \in 0 .. m - 1 /\ z \div m \in Int
    <3>1. m \in Nat \ {0}
      BY <1>1
    <3> QED
      BY <3>1
  <2>2. c * d \in Int
    BY <1>1, <1>4
  <2> QED
    BY <2>1, <2>2
<1>6. j * b = g * d - (a + b) * (d * u + q * b1)
  <2>1. j * b = (c * d - m * q) * (g * b1)
    BY <1>1, <1>2, <1>4, <1>5
  <2>2. (c * d - m * q) * (g * b1) = (g * d) * (c * b1) - (g * m) * (q * b1)
    BY <1>1, <1>2, <1>4, <1>5
  <2>3. c * b1 = 1 - u * m
    BY <1>1
  <2>4. (g * d) * (1 - u * m) = g * d - (g * m) * (d * u)
    BY <1>1, <1>2, <1>4
  <2>5. (g * m) * (d * u) + (g * m) * (q * b1) = (g * m) * (d * u + q * b1)
    BY <1>1, <1>2, <1>4, <1>5
  <2> DEFINE A == (g * m) * (d * u)
             B == (g * m) * (q * b1)
             C == (g * m) * (d * u + q * b1)
             G == g * d
  <2>6. A \in Int /\ B \in Int /\ C \in Int /\ G \in Int
    BY <1>1, <1>2, <1>4, <1>5
  <2>7. j * b = (G - A) - B
    BY <2>1, <2>2, <2>3, <2>4
  <2>8. A + B = C
    BY <2>5
  <2> HIDE DEF A, B, C, G
  <2>9. j * b = G - C
    BY <2>6, <2>7, <2>8
  <2> QED
    BY <1>1, <2>9 DEF G, C
<1>7. WalkAt(a, b, i, j) = y
  <2> DEFINE e == d * u + q * b1
  <2>1. e \in Int
    BY <1>1, <1>4, <1>5
  <2>2. a + i + j * b = (a + b) * (0 - e) + y
    BY <1>2, <1>3, <1>4, <1>6, <2>1
  <2> HIDE DEF e
  <2>3. PICK n \in Nat \ {0}, x \in Nat, f \in Int :
            n = a + b /\ x = a + i + j * b /\ f = 0 - e
    BY <1>2, <2>1
  <2>4. x = n * f + y /\ y \in 0 .. n - 1
    BY <2>2, <2>3
  <2>5. x % n = y
    BY <2>4, ModuloUnique
  <2> QED
    BY <2>3, <2>5 DEF WalkAt
<1>8. CASE j = 0
  <2>1. WalkAt(a, b, i, m) = y
    BY <1>1, <1>7, <1>8, WalkReturns
  <2> QED
    BY <1>1, <1>3, <2>1
<1>9. CASE j # 0
  BY <1>1, <1>3, <1>7, <1>9
<1> QED
  BY <1>8, <1>9

\* All of it: the cycles, of the length m, of blocks of the lengths a and b with
\* the divisor g.
Walked(a, b, g, m) ==
    /\ m \in Nat \ {0}
    /\ \A i \in 0 .. g - 1 :
          /\ WalkAt(a, b, i, 0) = a + i /\ WalkAt(a, b, i, m) = a + i
          /\ \A j \in Nat :
                /\ WalkAt(a, b, i, j) \in 0 .. a + b - 1
                /\ WalkAt(a, b, i, j) % g = i
                /\ WalkAt(a, b, i, j + 1) =
                       IF WalkAt(a, b, i, j) >= a THEN WalkAt(a, b, i, j) - a
                       ELSE WalkAt(a, b, i, j) + b
          /\ \A j \in 0 .. m - 1, k \in 0 .. m - 1 :
                j < k => WalkAt(a, b, i, j) # WalkAt(a, b, i, k)
    /\ \A y \in 0 .. a + b - 1 : \E j \in 1 .. m : WalkAt(a, b, y % g, j) = y

LEMMA WalkIs ==
    ASSUME NEW a \in Nat \ {0}, NEW b \in Nat \ {0}, NEW g, IsGcd(g, a, b),
           NEW m, m = (a + b) \div g
    PROVE  Walked(a, b, g, m)
<1>2. g \in Nat \ {0}
  BY DEF IsGcd
<1>3. m \in Nat \ {0}
  <2>1. 0 \in 0 .. g - 1
    BY <1>2
  <2> QED
    BY <2>1, WalkReturns
<1>4. ASSUME NEW i \in 0 .. g - 1
      PROVE  /\ WalkAt(a, b, i, 0) = a + i /\ WalkAt(a, b, i, m) = a + i
             /\ \A j \in 0 .. m - 1, k \in 0 .. m - 1 :
                   j < k => WalkAt(a, b, i, j) # WalkAt(a, b, i, k)
  <2>1. WalkAt(a, b, i, 0) = a + i
    <3>1. 0 \in Nat
      OBVIOUS
    <3> QED
      BY <3>1, WalkClass
  <2>2. /\ WalkAt(a, b, i, m) = WalkAt(a, b, i, 0)
        /\ \A j \in 0 .. m - 1, k \in 0 .. m - 1 :
              j < k => WalkAt(a, b, i, j) # WalkAt(a, b, i, k)
    BY WalkReturns
  <2> QED
    BY <2>1, <2>2
<1>5. ASSUME NEW i \in 0 .. g - 1, NEW j \in Nat
      PROVE  /\ WalkAt(a, b, i, j) \in 0 .. a + b - 1
             /\ WalkAt(a, b, i, j) % g = i
             /\ WalkAt(a, b, i, j + 1) =
                    IF WalkAt(a, b, i, j) >= a THEN WalkAt(a, b, i, j) - a
                    ELSE WalkAt(a, b, i, j) + b
  <2>1. i \in Nat
    BY <1>2
  <2>2. WalkAt(a, b, i, j) % g = i
    BY WalkClass
  <2>3. /\ WalkAt(a, b, i, j) \in 0 .. a + b - 1
        /\ WalkAt(a, b, i, j + 1) =
                    IF WalkAt(a, b, i, j) >= a THEN WalkAt(a, b, i, j) - a
                    ELSE WalkAt(a, b, i, j) + b
    BY ZenonT(40), <2>1, WalkStep
  <2> QED
    BY <2>2, <2>3
<1>6. ASSUME NEW y \in 0 .. a + b - 1 PROVE \E j \in 1 .. m : WalkAt(a, b, y % g, j) = y
  BY WalkReaches
<1> QED
  BY <1>3, <1>4, <1>5, <1>6, Zenon DEF Walked

-----------------------------------------------------------------------------
(* permute_args: the blocks change places *)

\* The blocks start..end-1 and end..opt_end-1 of a vector with the indices 1..L.
TwoBlocks(start, end, opt_end, L) ==
    /\ L \in Nat
    /\ start \in 1 .. L /\ end \in 1 .. L /\ opt_end \in 1 .. L + 1
    /\ start < end /\ end < opt_end

\* Where the word comes from that belongs to the place k of the blocks.
Origin(start, end, opt_end, k) ==
    IF k < start + (opt_end - end) THEN k + (end - start) ELSE k - (opt_end - end)

\* The vector v when the places in K have got what belongs there.
Moved(start, end, opt_end, K, v) ==
    [k \in DOMAIN v |-> IF k \in K THEN v[Origin(start, end, opt_end, k)] ELSE v[k]]

LEMMA BlockParts ==
    ASSUME NEW start, NEW end, NEW opt_end, NEW L, TwoBlocks(start, end, opt_end, L)
    PROVE  /\ end - start \in Nat \ {0} /\ opt_end - end \in Nat \ {0}
           /\ ncycle(start, end, opt_end) \in Nat \ {0}
           /\ IsGcd(ncycle(start, end, opt_end), end - start, opt_end - end)
           /\ (end - start) + (opt_end - end) = opt_end - start
<1>1. /\ end - start \in Nat \ {0} /\ opt_end - end \in Nat \ {0}
      /\ (end - start) + (opt_end - end) = opt_end - start
  BY DEF TwoBlocks
<1>2. IsGcd(ncycle(start, end, opt_end), end - start, opt_end - end)
  BY <1>1, GcdIs DEF ncycle
<1> QED
  BY <1>1, <1>2 DEF IsGcd

\* The loop over one cycle is well defined.
LEMMA CycleSteps ==
    ASSUME NEW start, NEW end, NEW opt_end, NEW cstart, NEW v,
           cyclelen(start, end, opt_end) \in Nat
    PROVE  \E after :
               /\ after[0] = [pos |-> cstart, v |-> v]
               /\ \A j \in 0 .. cyclelen(start, end, opt_end) - 1 :
                      after[j + 1] = Exchange(start, end, opt_end, cstart, after[j])
               /\ Cycle(start, end, opt_end, cstart, v) = after[cyclelen(start, end, opt_end)].v
<1> DEFINE N == cyclelen(start, end, opt_end)
           E(c) == Exchange(start, end, opt_end, cstart, c)
           base == [pos |-> cstart, v |-> v]
           Solves(h, n) == h = [j \in 0 .. n |-> IF j = 0 THEN base ELSE E(h[j - 1])]
           T == {n \in Nat : \E h : Solves(h, n)}
<1> HIDE DEF E, base, N
<1>1. 0 \in T
  <2> DEFINE h == [j \in 0 .. 0 |-> base]
  <2>1. Solves(h, 0)
    OBVIOUS
  <2> QED
    BY <2>1
<1>2. ASSUME NEW n \in Nat, n \in T PROVE n + 1 \in T
  <2>1. PICK h : Solves(h, n)
    BY <1>2
  <2> DEFINE f == [j \in 0 .. n + 1 |-> IF j = n + 1 THEN E(h[n]) ELSE h[j]]
  <2>2. \A j \in 0 .. n + 1 : f[j] = IF j = 0 THEN base ELSE E(f[j - 1])
    <3> TAKE j \in 0 .. n + 1
    <3>1. CASE j = n + 1
      BY <3>1
    <3>2. CASE j # n + 1
      <4>1. h[j] = IF j = 0 THEN base ELSE E(h[j - 1])
        BY <2>1, <3>2
      <4> QED
        BY <3>2, <4>1
    <3> QED
      BY <3>1, <3>2
  <2>3. Solves(f, n + 1)
    <3>1. f = [j \in 0 .. n + 1 |-> f[j]]
      OBVIOUS
    <3> HIDE DEF f
    <3> QED
      BY <2>2, <3>1
  <2>4. \E g : Solves(g, n + 1)
    <3> HIDE DEF f, Solves
    <3> QED
      BY <2>3
  <2> QED
    BY <2>4
<1>3. \A n \in Nat : n \in T
  <2> HIDE DEF T
  <2> QED
    BY <1>1, <1>2, InductionOn
<1>4. N \in Nat
  BY DEF N
<1>5. \E h : Solves(h, N)
  BY <1>3, <1>4
<1> DEFINE after == CHOOSE h : Solves(h, N)
<1>6. Solves(after, N)
  BY <1>5
<1>7. Cycle(start, end, opt_end, cstart, v) = after[N].v
  BY DEF Cycle, N, E, base
<1> HIDE DEF after
<1>8. after[0] = base
  BY <1>4, <1>6
<1>9. \A j \in 0 .. N - 1 : after[j + 1] = E(after[j])
  BY <1>4, <1>6
<1> QED
  BY <1>7, <1>8, <1>9 DEF N, E, base

\* The vectors after each cycle.
Cycles(start, end, opt_end, v, after) ==
    /\ after[0] = v
    /\ \A i \in 0 .. ncycle(start, end, opt_end) - 1 :
          after[i + 1] = Cycle(start, end, opt_end, end + i, after[i])
    /\ Permuted(start, end, opt_end, v) = after[ncycle(start, end, opt_end)]

\* So is the loop over the cycles.
LEMMA PermutedSteps ==
    ASSUME NEW start, NEW end, NEW opt_end, NEW v, end \in Int, ncycle(start, end, opt_end) \in Nat
    PROVE  \E after : Cycles(start, end, opt_end, v, after)
<1> DEFINE N == ncycle(start, end, opt_end)
           E(i, w) == Cycle(start, end, opt_end, end + i - 1, w)
           Solves(h, n) == h = [i \in 0 .. n |-> IF i = 0 THEN v ELSE E(i, h[i - 1])]
           T == {n \in Nat : \E h : Solves(h, n)}
<1> HIDE DEF E, N
<1>1. 0 \in T
  <2> DEFINE h == [i \in 0 .. 0 |-> v]
  <2>1. Solves(h, 0)
    OBVIOUS
  <2> QED
    BY <2>1
<1>2. ASSUME NEW n \in Nat, n \in T PROVE n + 1 \in T
  <2>1. PICK h : Solves(h, n)
    BY <1>2
  <2> DEFINE f == [i \in 0 .. n + 1 |-> IF i = n + 1 THEN E(n + 1, h[n]) ELSE h[i]]
  <2>2. \A i \in 0 .. n + 1 : f[i] = IF i = 0 THEN v ELSE E(i, f[i - 1])
    <3> TAKE i \in 0 .. n + 1
    <3>1. CASE i = n + 1
      BY <3>1
    <3>2. CASE i # n + 1
      <4>1. h[i] = IF i = 0 THEN v ELSE E(i, h[i - 1])
        BY <2>1, <3>2
      <4> QED
        BY <3>2, <4>1
    <3> QED
      BY <3>1, <3>2
  <2>3. Solves(f, n + 1)
    <3>1. f = [i \in 0 .. n + 1 |-> f[i]]
      OBVIOUS
    <3> HIDE DEF f
    <3> QED
      BY <2>2, <3>1
  <2>4. \E g : Solves(g, n + 1)
    <3> HIDE DEF f, Solves
    <3> QED
      BY <2>3
  <2> QED
    BY <2>4
<1>3. \A n \in Nat : n \in T
  <2> HIDE DEF T
  <2> QED
    BY <1>1, <1>2, InductionOn
<1>4. N \in Nat
  BY DEF N
<1>5. \E h : Solves(h, N)
  BY <1>3, <1>4
<1> DEFINE after == CHOOSE h : Solves(h, N)
<1>6. Solves(after, N)
  BY <1>5
<1>7. Permuted(start, end, opt_end, v) = after[N]
  BY DEF Permuted, N, E
<1> HIDE DEF after
<1>8. after[0] = v
  BY <1>4, <1>6
<1>9. \A i \in 0 .. N - 1 : after[i + 1] = Cycle(start, end, opt_end, end + i, after[i])
  <2> TAKE i \in 0 .. N - 1
  <2>1. after[i + 1] = E(i + 1, after[i])
    BY <1>4, <1>6
  <2>2. end + (i + 1) - 1 = end + i
    OBVIOUS
  <2> QED
    BY <2>1, <2>2 DEF E
<1> QED
  BY <1>7, <1>8, <1>9 DEF N, Cycles

\* The places of the cycle that begins at end + i.
Class(start, end, opt_end, i) ==
    {k \in start .. opt_end - 1 : (k - start) % ncycle(start, end, opt_end) = i}

\* One exchange after the other, the words of a cycle come to their places; the
\* word in hand is kept at cstart until the cycle is closed.
LEMMA CycleIs ==
    ASSUME NEW start, NEW end, NEW opt_end, NEW L, TwoBlocks(start, end, opt_end, L),
           NEW W, NEW v \in [1 .. L -> W], NEW i \in 0 .. ncycle(start, end, opt_end) - 1
    PROVE  Cycle(start, end, opt_end, end + i, v) =
               Moved(start, end, opt_end, Class(start, end, opt_end, i), v)
<1>1. PICK a \in Nat \ {0}, b \in Nat \ {0}, g \in Nat \ {0} :
          /\ a = end - start /\ b = opt_end - end /\ g = ncycle(start, end, opt_end)
          /\ IsGcd(g, a, b)
          /\ a + b = opt_end - start
  BY BlockParts
<1>2. i \in 0 .. g - 1 /\ i \in Nat
  BY <1>1
<1>3. start \in 1 .. L /\ end = start + a /\ opt_end = start + (a + b) /\ opt_end \in 1 .. L + 1 /\ L \in Nat
  BY <1>1 DEF TwoBlocks
<1>4. PICK m : m = (a + b) \div g /\ m = cyclelen(start, end, opt_end)
  BY <1>1 DEF cyclelen
<1> DEFINE At(j) == start + WalkAt(a, b, i, j)
           cstart == end + i
           From(k) == Origin(start, end, opt_end, k)
<1>5. Walked(a, b, g, m)
  BY <1>1, <1>4, WalkIs
<1>6. m \in Nat \ {0} /\ \A y \in 0 .. a + b - 1 : \E j \in 1 .. m : WalkAt(a, b, y % g, j) = y
  BY <1>5 DEF Walked
<1>7. /\ WalkAt(a, b, i, 0) = a + i /\ WalkAt(a, b, i, m) = a + i
      /\ \A j \in 0 .. m - 1, k \in 0 .. m - 1 : j < k => WalkAt(a, b, i, j) # WalkAt(a, b, i, k)
  BY <1>2, <1>5 DEF Walked
<1>8. \A j \in Nat : /\ WalkAt(a, b, i, j) \in 0 .. a + b - 1
                     /\ WalkAt(a, b, i, j) % g = i
                     /\ WalkAt(a, b, i, j + 1) =
                            IF WalkAt(a, b, i, j) >= a THEN WalkAt(a, b, i, j) - a
                            ELSE WalkAt(a, b, i, j) + b
  BY <1>2, <1>5 DEF Walked
<1>9. PICK after :
          /\ after[0] = [pos |-> cstart, v |-> v]
          /\ \A j \in 0 .. m - 1 : after[j + 1] = Exchange(start, end, opt_end, cstart, after[j])
          /\ Cycle(start, end, opt_end, cstart, v) = after[m].v
  <2>1. cyclelen(start, end, opt_end) \in Nat
    BY <1>4, <1>6
  <2> QED
    BY <1>4, <2>1, CycleSteps
<1>10. \A j \in Nat : At(j) \in start .. opt_end - 1 /\ At(j) \in 1 .. L
  <2> TAKE j \in Nat
  <2>1. PICK x \in 0 .. a + b - 1 : x = WalkAt(a, b, i, j)
    BY <1>8
  <2> QED
    BY SMTT(30), <1>1, <1>3, <2>1
<1>11. At(0) = cstart /\ At(m) = cstart
  BY <1>1, <1>2, <1>3, <1>7
<1>12. \A j \in Nat : /\ At(j + 1) = IF At(j) >= end THEN At(j) - (end - start)
                                     ELSE At(j) + (opt_end - end)
                      /\ From(At(j + 1)) = At(j)
  <2> TAKE j \in Nat
  <2> DEFINE x == WalkAt(a, b, i, j)
             y == WalkAt(a, b, i, j + 1)
  <2>1. /\ x \in 0 .. a + b - 1
        /\ y = IF x >= a THEN x - a ELSE x + b
    BY <1>8
  <2> HIDE DEF x, y
  <2>2. At(j) = start + x /\ At(j + 1) = start + y
    BY DEF x, y
  <2>3. At(j) >= end <=> x >= a
    BY <1>1, <1>3, <2>1, <2>2
  <2>4. /\ end - start = a /\ opt_end - end = b
        /\ start + x >= start + b <=> x >= b
    BY <1>1, <1>3, <2>1
  <2>5. start + y = IF x >= a THEN (start + x) - a ELSE (start + x) + b
    BY <1>1, <1>3, <2>1
  <2>6. From(start + y) = start + x
    <3>1. From(start + y) = IF start + y < start + b THEN (start + y) + a ELSE (start + y) - b
      BY <1>1 DEF Origin
    <3> QED
      BY <1>1, <1>3, <2>1, <3>1
  <2> QED
    BY <2>2, <2>3, <2>4, <2>5, <2>6
<1>13. \A j \in 0 .. m - 1, k \in 0 .. m - 1 : j < k => At(j) # At(k)
  <2> TAKE j \in 0 .. m - 1, k \in 0 .. m - 1
  <2>1. j \in Nat /\ k \in Nat
    BY <1>6
  <2>2. PICK x \in Int, y \in Int : x = WalkAt(a, b, i, j) /\ y = WalkAt(a, b, i, k)
    BY SMTT(30), <1>1, <1>8, <2>1
  <2>3. j < k => x # y
    BY <1>7, <2>2
  <2> QED
    BY <1>3, <2>2, <2>3
<1> HIDE DEF At, From
<1> DEFINE Word(j, k) == IF k = cstart THEN v[At(j)]
                         ELSE IF \E h \in 1 .. j : k = At(h) THEN v[From(k)] ELSE v[k]
           Inv(j) == /\ after[j].pos = At(j)
                     /\ after[j].v \in [1 .. L -> W]
                     /\ \A k \in 1 .. L : after[j].v[k] = Word(j, k)
           T == {j \in Nat : Inv(j)}
<1>14. 0 \in T
  <2>1. after[0].pos = At(0) /\ after[0].v = v
    BY <1>9, <1>11
  <2>2. \A k \in 1 .. L : v[k] = Word(0, k)
    BY <1>11
  <2> QED
    BY <2>1, <2>2
<1>15. ASSUME NEW j \in 0 .. (m - 1) - 1, j \in T PROVE j + 1 \in T
  <2> DEFINE p == At(j + 1)
             c == after[j]
  <2>1. Inv(j) /\ j \in Nat /\ j + 1 \in 1 .. m - 1
    <3>1. Inv(j)
      BY <1>15
    <3>2. j \in Nat /\ j + 1 \in 1 .. m - 1
      BY SMTT(30), <1>6
    <3> QED
      BY <3>1, <3>2
  <2>2. after[j + 1] = [pos |-> p, v |-> [c.v EXCEPT ![p] = c.v[cstart], ![cstart] = c.v[p]]]
    <3>1. c.pos = At(j)
      BY <2>1
    <3>2. p = IF c.pos >= end THEN c.pos - (end - start) ELSE c.pos + (opt_end - end)
      BY <1>12, <2>1, <3>1
    <3>3. after[j + 1] = Exchange(start, end, opt_end, cstart, c)
      BY <1>6, <1>9, <2>1
    <3> HIDE DEF c, p
    <3> QED
      BY <3>2, <3>3 DEF Exchange
  <2>3. p \in 1 .. L /\ cstart \in 1 .. L
    BY <1>10, <1>11, <2>1
  <2>4. p # cstart /\ \A h \in 1 .. j : p # At(h)
    <3>1. j + 1 \in 0 .. m - 1 /\ 0 \in 0 .. m - 1 /\ 0 < j + 1
      BY <1>6, <2>1
    <3>2. At(0) # p
      BY <1>13, <3>1
    <3>3. ASSUME NEW h \in 1 .. j PROVE p # At(h)
      <4>1. h \in 0 .. m - 1 /\ h < j + 1
        BY <1>6, <2>1
      <4> QED
        BY <1>13, <3>1, <4>1
    <3> QED
      BY <1>11, <3>2, <3>3
  <2>5. c.v[cstart] = v[At(j)] /\ c.v[p] = v[p]
    BY <2>1, <2>3, <2>4
  <2>6. From(p) = At(j)
    BY <1>12, <2>1
  <2>7. \A k : (\E h \in 1 .. j + 1 : k = At(h)) <=> (k = p \/ \E h \in 1 .. j : k = At(h))
    BY <2>1
  <2> HIDE DEF p, c
  <2>8. ASSUME NEW k \in 1 .. L PROVE after[j + 1].v[k] = Word(j + 1, k)
    <3>1. after[j + 1].v[k] = IF k = cstart THEN v[p] ELSE IF k = p THEN v[At(j)] ELSE c.v[k]
      <4>1. c.v \in [1 .. L -> W]
        BY <2>1 DEF c
      <4>2. after[j + 1].v = [c.v EXCEPT ![p] = c.v[cstart], ![cstart] = c.v[p]]
        BY <2>2
      <4> HIDE DEF Inv, Word, cstart
      <4> QED
        BY <2>3, <2>4, <2>5, <4>1, <4>2
    <3>2. k # cstart /\ k # p => c.v[k] = IF \E h \in 1 .. j : k = At(h) THEN v[From(k)] ELSE v[k]
      BY <2>1 DEF c
    <3>3. v[p] = v[At(j + 1)]
      BY DEF p
    <3> HIDE DEF Inv, cstart
    <3> QED
      BY <2>6, <2>7, <3>1, <3>2, <3>3
  <2>9. after[j + 1].v \in [1 .. L -> W]
    <3>1. c.v \in [1 .. L -> W]
      BY <2>1 DEF c
    <3>2. after[j + 1].v = [c.v EXCEPT ![p] = c.v[cstart], ![cstart] = c.v[p]]
      BY <2>2
    <3> HIDE DEF Inv, Word, cstart
    <3> QED
      BY <2>3, <3>1, <3>2
  <2>10. after[j + 1].pos = At(j + 1)
    BY <2>2 DEF p
  <2> QED
    BY <2>1, <2>8, <2>9, <2>10
<1>16. Inv(m - 1)
  <2>1. m - 1 \in Nat
    BY <1>6
  <2>2. \A j \in 0 .. m - 1 : j \in T
    <3> HIDE DEF T
    <3> QED
      BY <1>14, <1>15, <2>1, InductionUpTo
  <2> QED
    BY <2>1, <2>2
<1>17. ASSUME NEW k \in 1 .. L
       PROVE  after[m].v[k] = IF \E h \in 1 .. m : k = At(h) THEN v[From(k)] ELSE v[k]
  <2> DEFINE c == after[m - 1]
  <2>1. m - 1 \in Nat /\ m - 1 \in 0 .. m - 1 /\ (m - 1) + 1 = m
    BY <1>6
  <2>2. At((m - 1) + 1) = IF At(m - 1) >= end THEN At(m - 1) - (end - start)
                          ELSE At(m - 1) + (opt_end - end)
    BY <1>12, <2>1
  <2>3. after[(m - 1) + 1] = Exchange(start, end, opt_end, cstart, c)
    BY <1>9, <2>1
  <2>4. after[m].v = [c.v EXCEPT ![cstart] = c.v[cstart], ![cstart] = c.v[cstart]]
    BY <1>11, <1>16, <2>1, <2>2, <2>3 DEF Exchange
  <2>5. after[m].v[k] = c.v[k]
    BY <1>16, <2>4
  <2>6. c.v[k] = Word(m - 1, k)
    BY <1>16
  <2>7. From(cstart) = At(m - 1)
    BY <1>11, <1>12, <2>1
  <2>8. (\E h \in 1 .. m : k = At(h)) <=> (k = cstart \/ \E h \in 1 .. m - 1 : k = At(h))
    BY <1>6, <1>11
  <2> HIDE DEF c
  <2> QED
    BY <2>5, <2>6, <2>7, <2>8
<1>18. ASSUME NEW k \in 1 .. L
       PROVE  (\E h \in 1 .. m : k = At(h)) <=> k \in Class(start, end, opt_end, i)
  <2>1. ASSUME NEW h \in 1 .. m, k = At(h) PROVE k \in Class(start, end, opt_end, i)
    <3>1. h \in Nat
      BY <1>6
    <3>2. k - start = WalkAt(a, b, i, h)
      <4>1. PICK x \in Int : x = WalkAt(a, b, i, h)
        BY SMTT(30), <1>1, <1>8, <3>1
      <4>2. k = start + x
        BY <2>1, <4>1 DEF At
      <4> QED
        BY <1>3, <4>1, <4>2
    <3> QED
      BY <1>1, <1>8, <1>10, <2>1, <3>1, <3>2 DEF Class
  <2>2. ASSUME k \in Class(start, end, opt_end, i) PROVE \E h \in 1 .. m : k = At(h)
    <3>1. PICK y \in 0 .. a + b - 1 : y = k - start /\ y % g = i
      BY <1>1, <1>3, <2>2 DEF Class
    <3>2. PICK h \in 1 .. m : WalkAt(a, b, y % g, h) = y
      BY <1>6
    <3>3. WalkAt(a, b, i, h) = y
      BY <3>1, <3>2
    <3>4. k = start + y
      BY <1>3, <3>1
    <3> QED
      BY <3>2, <3>3, <3>4 DEF At
  <2> QED
    BY <2>1, <2>2
<1>19. after[m].v \in [1 .. L -> W]
  <2> DEFINE c == after[m - 1]
  <2>1. m - 1 \in Nat /\ m - 1 \in 0 .. m - 1 /\ (m - 1) + 1 = m
    BY <1>6
  <2>2. At((m - 1) + 1) = IF At(m - 1) >= end THEN At(m - 1) - (end - start)
                          ELSE At(m - 1) + (opt_end - end)
    BY <1>12, <2>1
  <2>3. after[(m - 1) + 1] = Exchange(start, end, opt_end, cstart, c)
    BY <1>9, <2>1
  <2>4. after[m].v = [c.v EXCEPT ![cstart] = c.v[cstart], ![cstart] = c.v[cstart]]
    BY <1>11, <1>16, <2>1, <2>2, <2>3 DEF Exchange
  <2>5. cstart \in 1 .. L
    BY <1>10, <1>11
  <2> QED
    BY <1>16, <2>4, <2>5
<1>20. DOMAIN v = 1 .. L
  OBVIOUS
<1>21. after[m].v = Moved(start, end, opt_end, Class(start, end, opt_end, i), v)
  BY <1>17, <1>18, <1>19, <1>20 DEF Moved, From
<1> QED
  BY <1>9, <1>21

\* Each cycle brings the words of its class to their places.
LEMMA PermutedIs ==
    ASSUME NEW start, NEW end, NEW opt_end, NEW L, TwoBlocks(start, end, opt_end, L),
           NEW W, NEW v \in [1 .. L -> W]
    PROVE  /\ Permuted(start, end, opt_end, v) =
                  Moved(start, end, opt_end, start .. opt_end - 1, v)
           /\ Permuted(start, end, opt_end, v) \in [1 .. L -> W]
<1>1. PICK a \in Nat \ {0}, b \in Nat \ {0}, g \in Nat \ {0} :
          /\ a = end - start /\ b = opt_end - end /\ g = ncycle(start, end, opt_end)
          /\ IsGcd(g, a, b)
          /\ a + b = opt_end - start
  BY BlockParts
<1> DEFINE From(k) == Origin(start, end, opt_end, k)
           Block == start .. opt_end - 1
           Done(i) == {k \in Block : (k - start) % g < i}
<1>2. start \in 1 .. L /\ end = start + a /\ opt_end = start + (a + b) /\ opt_end \in 1 .. L + 1 /\ L \in Nat
  BY <1>1 DEF TwoBlocks
<1>3. end \in Int /\ g \in Nat
  BY <1>1 DEF TwoBlocks
<1>4. PICK after :
          /\ after[0] = v
          /\ \A i \in 0 .. g - 1 : after[i + 1] = Cycle(start, end, opt_end, end + i, after[i])
          /\ Permuted(start, end, opt_end, v) = after[g]
  <2>1. g = ncycle(start, end, opt_end) /\ end \in Int
    BY <1>1, <1>3
  <2>2. ncycle(start, end, opt_end) \in Nat
    BY <2>1
  <2>3. PICK after : Cycles(start, end, opt_end, v, after)
    BY <2>1, <2>2, PermutedSteps
  <2> QED
    BY <2>1, <2>3 DEF Cycles
<1>5. ASSUME NEW k \in Block
      PROVE  From(k) \in Block /\ From(k) \in 1 .. L /\ (From(k) - start) % g = (k - start) % g
  <2> DEFINE x == k - start
             y == From(k) - start
  <2>1. From(k) = IF x < b THEN k + a ELSE k - b
    BY <1>1, <1>2 DEF Origin
  <2>2. x \in 0 .. a + b - 1 /\ y \in 0 .. a + b - 1
    BY <1>1, <1>2, <2>1
  <2>3. y = x + a \/ y = x - b
    BY <1>1, <1>2, <2>1
  <2>4. From(k) \in Block /\ From(k) \in 1 .. L
    BY SMTT(30), <1>1, <1>2, <2>1, <2>2
  <2> HIDE DEF x, y, From
  <2>5. PICK a1 \in Nat, b1 \in Nat : a = g * a1 /\ b = g * b1
    BY <1>1 DEF IsGcd
  <2>6. x \in Nat /\ y \in Nat
    BY <1>1, <2>2
  <2>7. PICK r \in 0 .. g - 1, q \in Int : r = x % g /\ x = g * q + r
    BY <2>6, ModuloParts
  <2>8. \E e \in Int : y = g * e + r
    <3>1. x + a = g * (q + a1) + r /\ x - b = g * (q - b1) + r
      BY <2>5, <2>7
    <3>2. q + a1 \in Int /\ q - b1 \in Int
      OBVIOUS
    <3>3. CASE y = x + a
      <4>1. y = g * (q + a1) + r
        BY <3>1, <3>3
      <4> QED
        BY <3>2, <4>1, Zenon
    <3>4. CASE y = x - b
      <4>1. y = g * (q - b1) + r
        BY <3>1, <3>4
      <4> QED
        BY <3>2, <4>1, Zenon
    <3> QED
      BY <2>3, <3>3, <3>4
  <2>9. y % g = r
    BY <2>6, <2>7, <2>8, ModuloUnique
  <2> QED
    BY <2>4, <2>7, <2>9 DEF x, y
<1> HIDE DEF From
<1> DEFINE T == {i \in Nat : after[i] = Moved(start, end, opt_end, Done(i), v)}
<1>6. \A K \in SUBSET Block : Moved(start, end, opt_end, K, v) \in [1 .. L -> W]
  BY <1>5 DEF Moved, From
<1>7. \A k \in Block : (k - start) % g \in 0 .. g - 1
  <2> TAKE k \in Block
  <2>1. k - start \in Nat
    BY <1>2
  <2> QED
    BY <1>1, <2>1, ModuloParts
<1>8. 0 \in T
  <2>1. Done(0) = {}
    BY <1>1, <1>7
  <2> QED
    BY <1>4, <2>1 DEF Moved
<1>9. ASSUME NEW i \in 0 .. g - 1, i \in T PROVE i + 1 \in T
  <2> DEFINE K == Class(start, end, opt_end, i)
             w == after[i]
  <2>1. w = Moved(start, end, opt_end, Done(i), v) /\ w \in [1 .. L -> W]
    <3>1. Done(i) \in SUBSET Block
      OBVIOUS
    <3> QED
      BY <1>6, <1>9, <3>1
  <2>2. after[i + 1] = Moved(start, end, opt_end, K, w)
    <3>1. after[i + 1] = Cycle(start, end, opt_end, end + i, w)
      BY <1>4
    <3>2. i \in 0 .. ncycle(start, end, opt_end) - 1
      BY <1>1
    <3> HIDE DEF w
    <3> QED
      BY <2>1, <3>1, <3>2, CycleIs
  <2>3. \A k : k \in K <=> k \in Block /\ (k - start) % g = i
    BY <1>1 DEF Class
  <2>4. \A k : k \in Done(i + 1) <=> k \in Done(i) \/ k \in K
    BY <1>1, <1>7, <2>3
  <2>5. \A k \in K : k \notin Done(i) /\ From(k) \in 1 .. L /\ From(k) \notin Done(i)
    BY <1>5, <2>3
  <2> HIDE DEF K
  <2>6. ASSUME NEW k \in 1 .. L
        PROVE  after[i + 1][k] = IF k \in Done(i + 1) THEN v[From(k)] ELSE v[k]
    <3> HIDE DEF Done
    <3>1. after[i + 1][k] = IF k \in K THEN w[From(k)] ELSE w[k]
      BY <2>1, <2>2 DEF Moved, From
    <3>2. \A h \in 1 .. L : w[h] = IF h \in Done(i) THEN v[From(h)] ELSE v[h]
      BY <2>1 DEF Moved, From
    <3> QED
      BY <2>4, <2>5, <3>1, <3>2
  <2>7. after[i + 1] = Moved(start, end, opt_end, Done(i + 1), v)
    <3>1. after[i + 1] = [k \in 1 .. L |-> after[i + 1][k]]
      BY <2>1, <2>2 DEF Moved
    <3> HIDE DEF Done
    <3> QED
      BY <2>6, <3>1 DEF Moved, From
  <2>8. i + 1 \in Nat
    BY <1>9
  <2> QED
    BY <2>7, <2>8
<1>10. g \in T
  <2>1. \A i \in 0 .. g : i \in T
    <3> HIDE DEF T
    <3> QED
      BY <1>3, <1>8, <1>9, InductionUpTo
  <2> QED
    BY <1>3, <2>1
<1>11. Done(g) = Block
  BY <1>1, <1>7
<1> QED
  BY <1>4, <1>6, <1>10, <1>11

-----------------------------------------------------------------------------
(* The options *)

\* The options the switch of get_options has a case for, and goes on after.
Accepted == {"A", "a", "b", "C", "c", "D", "d", "e", "F", "f", "FIXLOOP", "I", "i",
             "LOADONLY", "l", "LOOPALL", "NUMVOICES", "m", "N", "NOCMD", "NORC", "o",
             "P", "p", "PROBEONLY", "q", "R", "r", "M", "S", "s", "t", "u", "U",
             "VBLANK", "v", "Z", "z"}

\* The others getopt_long may return.
Leaving == {"L", "V", "h", "T"}

LEMMA LongOptions ==
    \A i \in DOMAIN lopt : /\ i \in Nat
                           /\ val(i) \in Accepted \cup Leaving
                           /\ has_arg(i) \in {no_argument, required_argument}
<1> DEFINE V(i) == val(i) \in Accepted \cup Leaving
           H(i) == has_arg(i) \in {no_argument, required_argument}
<1>11. DOMAIN lopt = 1 .. 41
  BY DEF lopt
<1> USE DEF lopt, val, has_arg, no_argument, required_argument, Accepted, Leaving
<1>1. \A i \in 1 .. 8 : V(i)
  OBVIOUS
<1>2. \A i \in 9 .. 16 : V(i)
  OBVIOUS
<1>3. \A i \in 17 .. 24 : V(i)
  OBVIOUS
<1>4. \A i \in 25 .. 32 : V(i)
  OBVIOUS
<1>5. \A i \in 33 .. 41 : V(i)
  OBVIOUS
<1>6. \A i \in 1 .. 8 : H(i)
  OBVIOUS
<1>7. \A i \in 9 .. 16 : H(i)
  OBVIOUS
<1>8. \A i \in 17 .. 24 : H(i)
  OBVIOUS
<1>9. \A i \in 25 .. 32 : H(i)
  OBVIOUS
<1>10. \A i \in 33 .. 41 : H(i)
  OBVIOUS
<1> HIDE DEF lopt, val, has_arg, Accepted, Leaving
<1> QED
  BY <1>1, <1>2, <1>3, <1>4, <1>5, <1>6, <1>7, <1>8, <1>9, <1>10, <1>11

LEMMA ShortOptions == Letters \subseteq Accepted \cup Leaving /\ WithArgument \subseteq Letters
BY DEF Letters, WithArgument, Accepted, Leaving

\* No option is taken for the end of the scan.
LEMMA Returned == \A c \in Accepted \cup Leaving : c \notin {"call", "end", "bad"}
BY DEF Accepted, Leaving

Codes == Accepted \cup Leaving \cup {"bad"}

\* Words, and arguments of options.
Text == Seq(STRING \cup {"NULL"})

\* What a command line asks for.
Asks == Codes \X Text
Meanings == [opts : Seq(Asks), rest : Seq(Text)]

LEMMA NullIs == NULL \in Text /\ EMSG \in Text
BY DEF NULL, EMSG, Text

LEMMA FailedIs == Failed \in Meanings /\ None \in Meanings
<1>1. <<"bad", NULL>> \in Asks
  BY NullIs DEF Asks, Codes
<1> QED
  BY <1>1 DEF Failed, None, Meanings

LEMMA ThenIs ==
    ASSUME NEW c \in Codes, NEW a \in Text, NEW r \in Meanings
    PROVE  /\ Then(c, a, r) \in Meanings
           /\ Then(c, a, r).opts = <<<<c, a>>>> \o r.opts
           /\ Then(c, a, r).rest = r.rest
<1>1. <<c, a>> \in Asks
  BY DEF Asks
<1>2. <<<<c, a>>>> \o r.opts \in Seq(Asks)
  BY <1>1 DEF Meanings
<1> QED
  BY <1>2 DEF Then, Meanings

\* A long option that is not refused has a value of its own.
LEMMA OptionNamed ==
    ASSUME NEW p, ~BadLong(p)
    PROVE  /\ val(Min(Candidates(Name(p)))) \in Accepted \cup Leaving
           /\ has_arg(Min(Candidates(Name(p)))) \in {no_argument, required_argument}
<1>1. Candidates(Name(p)) # {} /\ Candidates(Name(p)) \subseteq DOMAIN lopt
  BY DEF BadLong, Candidates
<1>2. Candidates(Name(p)) \subseteq Nat
  BY <1>1, LongOptions
<1>3. Min(Candidates(Name(p))) \in Candidates(Name(p))
  BY <1>1, <1>2, MinOf
<1> QED
  BY <1>1, <1>3, LongOptions

-----------------------------------------------------------------------------
(* The words *)

LEMMA IsSequence ==
    ASSUME NEW S, NEW n \in Nat, NEW f \in [1 .. n -> S]
    PROVE  f \in Seq(S) /\ Len(f) = n
OBVIOUS

LEMMA PartIs ==
    ASSUME NEW S, NEW s \in Seq(S), NEW m \in Nat \ {0}, NEW n \in 0 .. Len(s)
    PROVE  /\ SubSeq(s, m, n) \in Seq(S)
           /\ Len(SubSeq(s, m, n)) = IF m <= n THEN n - m + 1 ELSE 0
           /\ \A i \in 1 .. n - m + 1 : SubSeq(s, m, n)[i] = s[m + i - 1]
<1>1. m \in Int /\ n \in Int /\ \A i \in m .. n : s[i] \in S
  OBVIOUS
<1> QED
  BY <1>1, SubSeqProperties

\* A word from its token k on.
Onward(w, k) == SubSeq(w, k, Len(w))

LEMMA OnwardIs ==
    ASSUME NEW w \in Text, NEW k \in 1 .. Len(w) + 1
    PROVE  /\ Onward(w, k) \in Text
           /\ Len(Onward(w, k)) = Len(w) + 1 - k
           /\ Onward(w, k) = EMSG <=> k = Len(w) + 1
           /\ k <= Len(w) => /\ Head(Onward(w, k)) = w[k]
                             /\ Tail(Onward(w, k)) = Onward(w, k + 1)
<1>1. /\ Onward(w, k) \in Text
      /\ Len(Onward(w, k)) = Len(w) + 1 - k
  BY DEF Onward, Text
<1>2. Onward(w, k) = EMSG <=> k = Len(w) + 1
  BY <1>1 DEF EMSG, Text
<1>3. ASSUME k <= Len(w) PROVE Head(Onward(w, k)) = w[k] /\ Tail(Onward(w, k)) = Onward(w, k + 1)
  <2>1. k \in 1 .. Len(w) /\ Len(w) \in k .. Len(w) /\ Len(w) \in Nat
    BY <1>3 DEF Text
  <2> QED
    BY <2>1, HeadTailOfSubSeq DEF Onward, Text
<1> QED
  BY <1>1, <1>2, <1>3

LEMMA TailIs == ASSUME NEW w \in Text, w # EMSG PROVE Tail(w) = Onward(w, 2) /\ Len(w) >= 1
<1>1. Len(w) \in Nat /\ (Len(w) = 0 => w = EMSG)
  BY DEF Text, EMSG
<1> QED
  BY <1>1, TailIsSubSeq DEF Onward, Text, EMSG

-----------------------------------------------------------------------------
(* What an option word says *)

SimpleFlags == Letters \ WithArgument

LEMMA StopIs ==
    ASSUME NEW w \in Text, NEW k \in 1 .. Len(w) + 1
    PROVE  /\ Stop(w, k) \in k .. Len(w) + 1
           /\ k = Len(w) + 1 \/ w[k] \notin SimpleFlags => Stop(w, k) = k
           /\ \A j \in k .. Stop(w, k) - 1 : w[j] \in SimpleFlags
           /\ k <= Len(w) /\ w[k] \in SimpleFlags => Stop(w, k) = Stop(w, k + 1)
<1> DEFINE T(h) == {j \in h .. Len(w) + 1 : j = Len(w) + 1 \/ w[j] \notin SimpleFlags}
<1>1. Len(w) \in Nat
  BY DEF Text
<1>2. \A h : Stop(w, h) = Min(T(h))
  BY DEF Stop, SimpleFlags
<1>3. T(k) \subseteq Nat /\ T(k) # {}
  BY <1>1
<1>4. Stop(w, k) \in T(k) /\ \A y \in T(k) : Stop(w, k) <= y
  BY <1>2, <1>3, MinOf
<1>5. k = Len(w) + 1 \/ w[k] \notin SimpleFlags => Stop(w, k) = k
  <2>1. k = Len(w) + 1 \/ w[k] \notin SimpleFlags => k \in T(k)
    BY <1>1
  <2> QED
    BY <1>1, <1>4, <2>1
<1>6. \A j \in k .. Stop(w, k) - 1 : w[j] \in SimpleFlags
  BY <1>1, <1>4
<1>7. k <= Len(w) /\ w[k] \in SimpleFlags => T(k) = T(k + 1)
  BY <1>1
<1> QED
  BY <1>1, <1>2, <1>4, <1>5, <1>6, <1>7

LEMMA FlagsAre ==
    ASSUME NEW w \in Text, NEW k \in 1 .. Len(w) + 1, NEW s \in k .. Len(w) + 1,
           \A j \in k .. s - 1 : w[j] \in SimpleFlags
    PROVE  /\ Flags(w, k, s) \in Seq(Asks)
           /\ s = k => Flags(w, k, s) = <<>>
           /\ s # k => /\ k + 1 <= s
                       /\ <<w[k], NULL>> \in Asks
                       /\ Flags(w, k + 1, s) \in Seq(Asks)
                       /\ Flags(w, k, s) = <<<<w[k], NULL>>>> \o Flags(w, k + 1, s)
<1>1. Len(w) \in Nat
  BY DEF Text
<1>2. \A j \in k .. s - 1 : <<w[j], NULL>> \in Asks
  BY NullIs, ShortOptions DEF Asks, Codes, SimpleFlags
<1>3. ASSUME NEW h \in {k, k + 1}, h <= s
      PROVE  Flags(w, h, s) \in Seq(Asks) /\ Len(Flags(w, h, s)) = s - h
  <2>1. Flags(w, h, s) \in [1 .. s - h -> Asks] /\ s - h \in Nat
    BY <1>1, <1>2, <1>3 DEF Flags
  <2> QED
    BY <2>1, IsSequence
<1>4. /\ Flags(w, k, s) \in Seq(Asks) /\ Len(Flags(w, k, s)) = s - k
      /\ s # k => /\ k + 1 <= s
                  /\ Flags(w, k + 1, s) \in Seq(Asks) /\ Len(Flags(w, k + 1, s)) = s - (k + 1)
  BY <1>1, <1>3
<1>5. ASSUME s = k PROVE Flags(w, k, s) = <<>>
  <2>1. Len(Flags(w, k, s)) = 0 /\ Flags(w, k, s) \in Seq(Asks)
    BY <1>1, <1>4, <1>5
  <2> QED
    BY <2>1, EmptySeq
<1>6. ASSUME s # k PROVE Flags(w, k, s) = <<<<w[k], NULL>>>> \o Flags(w, k + 1, s)
  <2> DEFINE A == Flags(w, k, s)
             B == Flags(w, k + 1, s)
             c == <<w[k], NULL>>
             C == <<c>> \o B
  <2>1. A \in Seq(Asks) /\ B \in Seq(Asks) /\ Len(A) = s - k /\ Len(B) = s - (k + 1) /\ c \in Asks
    BY <1>1, <1>2, <1>4, <1>6
  <2>2. \A j \in 1 .. s - k : A[j] = <<w[k + j - 1], NULL>>
    BY DEF Flags
  <2>3. \A j \in 1 .. s - (k + 1) : B[j] = <<w[(k + 1) + j - 1], NULL>>
    BY DEF Flags
  <2> HIDE DEF A, B
  <2>4. C \in Seq(Asks) /\ Len(C) = s - k
    BY <1>1, <1>6, <2>1
  <2>5. ASSUME NEW j \in 1 .. s - k PROVE A[j] = C[j]
    <3>1. CASE j = 1
      <4>1. A[j] = c
        BY <1>1, <2>2, <3>1
      <4>2. C[j] = c
        BY <2>1, <3>1
      <4> QED
        BY <4>1, <4>2
    <3>2. CASE j # 1
      <4>1. C[j] = B[j - 1]
        <5>1. j > 1 /\ j <= 1 + Len(B)
          BY <1>1, <2>1, <3>2
        <5> HIDE DEF c
        <5> QED
          BY <2>1, <5>1
      <4>2. j - 1 \in 1 .. s - (k + 1) /\ (k + 1) + (j - 1) - 1 = k + j - 1
        BY <1>1, <3>2
      <4>3. B[j - 1] = <<w[k + j - 1], NULL>>
        BY <2>3, <4>2
      <4> QED
        BY <2>2, <4>1, <4>3
    <3> QED
      BY <3>1, <3>2
  <2> HIDE DEF C
  <2>6. A = C
    BY <2>1, <2>4, <2>5, SeqEqual
  <2> QED
    BY <2>6 DEF A, B, C
<1>7. s # k => <<w[k], NULL>> \in Asks
  BY <1>1, <1>2
<1> QED
  BY <1>4, <1>5, <1>6, <1>7

\* Whatever follows, a word adds options to it.
LEMMA EndingIs ==
    ASSUME NEW words \in Seq(Text), NEW i \in 1 .. Len(words), NEW s \in 1 .. Len(words[i]) + 1,
           NEW next, next[i + 1] \in Meanings, i < Len(words) => next[i + 2] \in Meanings
    PROVE  /\ Ending(words, i, s, next) \in Meanings
           /\ s = Len(words[i]) + 1 => Ending(words, i, s, next) = next[i + 1]
<1> DEFINE w == words[i]
           p == SubSeq(w, s + 1, Len(w))
           option == Min(Candidates(Name(p)))
<1>1. w \in Text /\ Len(w) \in Nat /\ Len(words) \in Nat
  BY DEF Text
<1>2. p \in Text /\ SubSeq(p, 3, Len(p)) \in Text
  <2>1. \A x \in Text, n \in Nat \ {0} : SubSeq(x, n, Len(x)) \in Text
    <3> TAKE x \in Text, n \in Nat \ {0}
    <3>1. Len(x) \in 0 .. Len(x)
      BY DEF Text
    <3> QED
      BY <3>1, PartIs DEF Text
  <2>2. PICK n \in Nat \ {0} : n = s + 1
    BY <1>1
  <2>3. p \in Text
    BY <1>1, <2>1, <2>2
  <2> HIDE DEF p
  <2> QED
    BY <2>1, <2>3
<1>3. ASSUME NEW c \in Codes PROVE NextWord(words, i, c, next) \in Meanings
  <2>1. i # Len(words) => words[i + 1] \in Text /\ i < Len(words)
    BY <1>1
  <2> QED
    BY <1>3, <2>1, FailedIs, ThenIs DEF NextWord
<1> HIDE DEF w, p
<1>4. ~BadLong(p) => val(option) \in Codes
  BY OptionNamed DEF Codes
<1>5. w[s] \in WithArgument => w[s] \in Codes
  BY ShortOptions DEF Codes
<1> HIDE DEF option
<1>6. Ending(words, i, s, next) =
         IF s > Len(w) THEN next[i + 1]
         ELSE IF w[s] = "-" THEN
              IF BadLong(p) THEN Failed
              ELSE IF has_arg(option) = no_argument THEN Then(val(option), NULL, next[i + 1])
              ELSE IF HasEqual(p) THEN Then(val(option), SubSeq(p, 3, Len(p)), next[i + 1])
              ELSE NextWord(words, i, val(option), next)
         ELSE IF w[s] \notin WithArgument THEN Failed
         ELSE IF p # EMSG THEN Then(w[s], p, next[i + 1])
         ELSE NextWord(words, i, w[s], next)
  BY DEF Ending, w, p, option
<1>7. /\ ~BadLong(p) => /\ Then(val(option), NULL, next[i + 1]) \in Meanings
                         /\ Then(val(option), SubSeq(p, 3, Len(p)), next[i + 1]) \in Meanings
                         /\ NextWord(words, i, val(option), next) \in Meanings
      /\ w[s] \in WithArgument => /\ Then(w[s], p, next[i + 1]) \in Meanings
                                  /\ NextWord(words, i, w[s], next) \in Meanings
  BY <1>2, <1>3, <1>4, <1>5, NullIs, ThenIs
<1>8. s = Len(w) + 1 => Ending(words, i, s, next) = next[i + 1]
  BY <1>1, <1>6 DEF w
<1> QED
  BY <1>6, <1>7, <1>8, FailedIs DEF w

LEMMA OptionWordIs ==
    ASSUME NEW words \in Seq(Text), NEW i \in 1 .. Len(words), NEW k \in 1 .. Len(words[i]) + 1,
           NEW next, next[i + 1] \in Meanings, i < Len(words) => next[i + 2] \in Meanings
    PROVE  /\ OptionWord(words, i, k, next) \in Meanings
           /\ k = Len(words[i]) + 1 => OptionWord(words, i, k, next) = next[i + 1]
           /\ words[i][k] \notin SimpleFlags =>
                  OptionWord(words, i, k, next) = Ending(words, i, k, next)
           /\ k <= Len(words[i]) /\ words[i][k] \in SimpleFlags =>
                  OptionWord(words, i, k, next) =
                      Then(words[i][k], NULL, OptionWord(words, i, k + 1, next))
<1> DEFINE w == words[i]
           E(s) == Ending(words, i, s, next)
           Word(h) == OptionWord(words, i, h, next)
<1>1. w \in Text /\ Len(w) \in Nat
  BY DEF Text
<1>2. \A s \in 1 .. Len(w) + 1 : E(s) \in Meanings
  BY EndingIs
<1> HIDE DEF w, E
<1>3. \A h \in 1 .. Len(w) + 1 :
          /\ Stop(w, h) \in h .. Len(w) + 1
          /\ h = Len(w) + 1 \/ w[h] \notin SimpleFlags => Stop(w, h) = h
          /\ \A j \in h .. Stop(w, h) - 1 : w[j] \in SimpleFlags
          /\ h <= Len(w) /\ w[h] \in SimpleFlags => Stop(w, h) = Stop(w, h + 1)
  BY <1>1, StopIs
<1>4. \A h : Word(h) = [E(Stop(w, h)) EXCEPT !.opts = Flags(w, h, Stop(w, h)) \o @]
  BY DEF OptionWord, E, w
<1>5. ASSUME NEW h \in 1 .. Len(w) + 1
      PROVE  LET s == Stop(w, h) IN
             /\ s \in 1 .. Len(w) + 1
             /\ Flags(w, h, s) \in Seq(Asks)
             /\ Word(h) \in Meanings
             /\ Word(h).opts = Flags(w, h, s) \o E(s).opts
             /\ Word(h).rest = E(s).rest
  <2> DEFINE s == Stop(w, h)
  <2>1. s \in h .. Len(w) + 1 /\ s \in 1 .. Len(w) + 1 /\ \A j \in h .. s - 1 : w[j] \in SimpleFlags
    BY <1>1, <1>3
  <2> HIDE DEF s
  <2>2. Flags(w, h, s) \in Seq(Asks)
    BY <1>1, <2>1, FlagsAre
  <2>3. E(s) \in Meanings
    BY <1>2, <2>1
  <2>4. Word(h) = [E(s) EXCEPT !.opts = Flags(w, h, s) \o @]
    BY <1>4 DEF s
  <2> HIDE DEF Word
  <2>5. Flags(w, h, s) \o E(s).opts \in Seq(Asks)
    BY <2>2, <2>3 DEF Meanings
  <2>6. /\ Word(h) \in Meanings
        /\ Word(h).opts = Flags(w, h, s) \o E(s).opts
        /\ Word(h).rest = E(s).rest
    BY <2>3, <2>4, <2>5 DEF Meanings
  <2> QED
    BY <2>1, <2>2, <2>6 DEF s
<1>6. Word(k) \in Meanings
  BY <1>5 DEF w
<1>7. ASSUME k = Len(w) + 1 \/ w[k] \notin SimpleFlags PROVE Word(k) = E(k)
  <2>1. k \in 1 .. Len(w) + 1 /\ Stop(w, k) = k
    BY <1>3, <1>7 DEF w
  <2>2. Flags(w, k, k) = <<>>
    <3>1. k \in k .. Len(w) + 1 /\ \A j \in k .. k - 1 : w[j] \in SimpleFlags
      BY <1>1, <2>1
    <3> QED
      BY <1>1, <2>1, <3>1, FlagsAre
  <2>3. Word(k) = [E(k) EXCEPT !.opts = <<>> \o @]
    BY <1>4, <2>1, <2>2
  <2>4. E(k) \in Meanings
    BY <1>2, <2>1
  <2>5. <<>> \o E(k).opts = E(k).opts
    BY <2>4, ConcatEmptySeq DEF Meanings
  <2> HIDE DEF Word
  <2> QED
    BY <2>3, <2>4, <2>5 DEF Meanings
<1>8. k = Len(w) + 1 => E(k) = next[i + 1]
  <2>1. k \in 1 .. Len(words[i]) + 1
    OBVIOUS
  <2> QED
    BY <2>1, EndingIs DEF E, w
<1>9. ASSUME k <= Len(w), w[k] \in SimpleFlags
      PROVE  Word(k) = Then(w[k], NULL, Word(k + 1))
  <2> DEFINE s == Stop(w, k)
             c == <<w[k], NULL>>
  <2>1. k \in 1 .. Len(w) /\ k + 1 \in 1 .. Len(w) + 1
    BY <1>1, <1>9 DEF w
  <2>2. s = Stop(w, k + 1) /\ s \in k + 1 .. Len(w) + 1 /\ \A j \in k .. s - 1 : w[j] \in SimpleFlags
    BY <1>1, <1>3, <1>9, <2>1
  <2>3. /\ Word(k).opts = Flags(w, k, s) \o E(s).opts /\ Word(k).rest = E(s).rest
        /\ Word(k) \in Meanings
    BY SMTT(30), <1>5, <2>1
  <2>4. /\ Word(k + 1).opts = Flags(w, k + 1, s) \o E(s).opts /\ Word(k + 1).rest = E(s).rest
        /\ Word(k + 1) \in Meanings
    BY <1>5, <2>1, <2>2
  <2>5. E(s) \in Meanings
    BY <1>1, <1>2, <2>1, <2>2
  <2> HIDE DEF s, Word
  <2>6. /\ c \in Asks
        /\ Flags(w, k + 1, s) \in Seq(Asks)
        /\ Flags(w, k, s) = <<c>> \o Flags(w, k + 1, s)
    <3>1. k \in 1 .. Len(w) + 1 /\ s \in k .. Len(w) + 1 /\ s # k
      BY <1>1, <2>1, <2>2
    <3> QED
      BY <1>1, <2>2, <3>1, FlagsAre
  <2>7. c \in Asks /\ w[k] \in Codes /\ NULL \in Text
    BY <1>9, <2>6, NullIs, ShortOptions DEF Codes, SimpleFlags
  <2> HIDE DEF c
  <2>8. Word(k).opts = <<c>> \o Word(k + 1).opts
    <3>1. <<c>> \in Seq(Asks) /\ E(s).opts \in Seq(Asks)
      BY <2>5, <2>6 DEF Meanings
    <3>2. (<<c>> \o Flags(w, k + 1, s)) \o E(s).opts = <<c>> \o (Flags(w, k + 1, s) \o E(s).opts)
      <4>1. PICK x \in Seq(Asks), y \in Seq(Asks), z \in Seq(Asks) :
                x = <<c>> /\ y = Flags(w, k + 1, s) /\ z = E(s).opts
        BY <2>6, <3>1
      <4>2. (x \o y) \o z = x \o (y \o z)
        BY SMTT(30), ConcatAssociative
      <4> QED
        BY <4>1, <4>2
    <3> QED
      BY <2>3, <2>4, <2>6, <3>2
  <2>9. /\ Then(w[k], NULL, Word(k + 1)) \in Meanings
        /\ Then(w[k], NULL, Word(k + 1)).opts = <<c>> \o Word(k + 1).opts
        /\ Then(w[k], NULL, Word(k + 1)).rest = Word(k + 1).rest
    BY <2>4, <2>7, ThenIs DEF c
  <2>10. \A x \in Meanings, y \in Meanings : x.opts = y.opts /\ x.rest = y.rest => x = y
    BY DEF Meanings
  <2> QED
    BY <2>3, <2>4, <2>8, <2>9, <2>10
<1>10. k = Len(w) + 1 => Word(k) = next[i + 1]
  BY <1>7, <1>8
<1> QED
  BY <1>6, <1>7, <1>9, <1>10 DEF w, E

-----------------------------------------------------------------------------
(* The meaning of the words is well defined *)

\* What the words from i on say depends on what the next two say.
LEMMA FromWordUses ==
    ASSUME NEW words, NEW posix, NEW i, NEW f, NEW h, f[i + 1] = h[i + 1], f[i + 2] = h[i + 2]
    PROVE  FromWord(words, posix, i, f) = FromWord(words, posix, i, h)
<1>1. \A c : NextWord(words, i, c, f) = NextWord(words, i, c, h)
  BY DEF NextWord
<1>2. \A s : Ending(words, i, s, f) = Ending(words, i, s, h)
  <2> TAKE s
  <2> DEFINE w == words[i]
             p == SubSeq(w, s + 1, Len(w))
             option == Min(Candidates(Name(p)))
             Says(next) == IF s > Len(w) THEN next[i + 1]
                           ELSE IF w[s] = "-" THEN
                                IF BadLong(p) THEN Failed
                                ELSE IF has_arg(option) = no_argument
                                     THEN Then(val(option), NULL, next[i + 1])
                                ELSE IF HasEqual(p)
                                     THEN Then(val(option), SubSeq(p, 3, Len(p)), next[i + 1])
                                ELSE NextWord(words, i, val(option), next)
                           ELSE IF w[s] \notin WithArgument THEN Failed
                           ELSE IF p # EMSG THEN Then(w[s], p, next[i + 1])
                           ELSE NextWord(words, i, w[s], next)
  <2>1. Ending(words, i, s, f) = Says(f)
    BY DEF Ending
  <2>2. Ending(words, i, s, h) = Says(h)
    BY DEF Ending
  <2>3. Says(f) = Says(h)
    <3> HIDE DEF w, p, option
    <3> QED
      BY <1>1
  <2> HIDE DEF Says
  <2> QED
    BY <2>1, <2>2, <2>3
<1>3. OptionWord(words, i, 2, f) = OptionWord(words, i, 2, h)
  BY <1>2 DEF OptionWord
<1> QED
  BY <1>3 DEF FromWord

LEMMA FromWordIs ==
    ASSUME NEW words \in Seq(Text), NEW posix, NEW i \in 1 .. Len(words), NEW next,
           next[i + 1] \in Meanings, next[i + 2] \in Meanings
    PROVE  FromWord(words, posix, i, next) \in Meanings
<1> DEFINE w == words[i]
<1>1. w \in Text /\ Len(w) \in Nat /\ Len(words) \in Nat
  BY DEF Text
<1>2. CASE IsEnd(w)
  <2>1. SubSeq(words, i + 1, Len(words)) \in Seq(Text)
    BY <1>1, PartIs
  <2> QED
    BY <1>1, <1>2, <2>1 DEF FromWord, Meanings
<1>3. CASE ~IsEnd(w) /\ ~IsOperand(w)
  <2>1. 2 \in 1 .. Len(w) + 1
    BY <1>1, <1>3 DEF IsOperand
  <2>2. OptionWord(words, i, 2, next) \in Meanings
    BY <2>1, OptionWordIs
  <2> QED
    BY <1>1, <1>3, <2>2 DEF FromWord
<1>4. CASE ~IsEnd(w) /\ IsOperand(w) /\ posix
  <2>1. SubSeq(words, i, Len(words)) \in Seq(Text)
    BY <1>1, PartIs
  <2> QED
    BY <1>1, <1>4, <2>1 DEF FromWord, Meanings
<1>5. CASE ~IsEnd(w) /\ IsOperand(w) /\ ~posix
  <2>1. FromWord(words, posix, i, next) = [next[i + 1] EXCEPT !.rest = <<w>> \o @]
    BY <1>1, <1>5 DEF FromWord
  <2>2. <<w>> \o next[i + 1].rest \in Seq(Text)
    BY <1>1 DEF Meanings
  <2> QED
    BY <2>1, <2>2 DEF Meanings
<1> QED
  BY <1>2, <1>3, <1>4, <1>5

LEMMA MeaningIs ==
    ASSUME NEW words \in Seq(Text), NEW posix
    PROVE  \A i \in 1 .. Len(words) + 2 :
               /\ Meaning(words, posix)[i] = FromWord(words, posix, i, Meaning(words, posix))
               /\ Meaning(words, posix)[i] \in Meanings
<1> DEFINE L == Len(words) + 2
           B(i, h) == FromWord(words, posix, i, h)
           Solves(h, n) == /\ h = [i \in 1 .. L |-> h[i]]
                           /\ \A i \in L + 1 - n .. L : h[i] = B(i, h)
           T == {n \in Nat : n <= L => \E h : Solves(h, n)}
<1>1. L \in Nat /\ Len(words) \in Nat
  OBVIOUS
<1>2. \A i \in 1 .. L : \A f, h :
          (i <= Len(words) => f[i + 1] = h[i + 1] /\ f[i + 2] = h[i + 2]) => B(i, f) = B(i, h)
  <2> TAKE i \in 1 .. L
  <2> TAKE f, h
  <2>1. CASE i <= Len(words)
    BY <2>1, FromWordUses
  <2>2. CASE i > Len(words)
    BY <2>2 DEF FromWord
  <2> QED
    BY <1>1, <2>1, <2>2
<1> HIDE DEF B, L
<1>3. 0 \in T
  <2> DEFINE h == [i \in 1 .. L |-> 0]
  <2>1. Solves(h, 0)
    BY <1>1
  <2>2. \E g : Solves(g, 0)
    <3> HIDE DEF h, Solves
    <3> QED
      BY <2>1
  <2> QED
    BY <2>2
<1>4. ASSUME NEW n \in Nat, n \in T PROVE n + 1 \in T
  <2> SUFFICES ASSUME n + 1 <= L PROVE \E h : Solves(h, n + 1)
    OBVIOUS
  <2>1. PICK h : Solves(h, n)
    BY <1>1, <1>4
  <2> DEFINE k == L - n
             f == [i \in 1 .. L |-> IF i = k THEN B(k, h) ELSE h[i]]
  <2>2. k \in 1 .. L /\ L + 1 - (n + 1) = k /\ L + 1 - n = k + 1
    BY <1>1
  <2>3. \A i \in 1 .. L : i # k => f[i] = h[i]
    OBVIOUS
  <2>4. f[k] = B(k, h)
    BY <2>2
  <2>5. f = [i \in 1 .. L |-> f[i]]
    OBVIOUS
  <2> HIDE DEF f
  <2>6. \A i \in k .. L : B(i, f) = B(i, h)
    <3> TAKE i \in k .. L
    <3>1. i \in 1 .. L
      BY <1>1, <2>2
    <3>2. i <= Len(words) => f[i + 1] = h[i + 1] /\ f[i + 2] = h[i + 2]
      <4>1. i <= Len(words) => i + 1 \in 1 .. L /\ i + 2 \in 1 .. L /\ i + 1 # k /\ i + 2 # k
        BY <1>1, <2>2, <3>1 DEF L
      <4> QED
        BY <2>3, <4>1
    <3> QED
      BY <1>2, <3>1, <3>2
  <2>7. \A i \in k .. L : f[i] = B(i, f)
    <3> TAKE i \in k .. L
    <3>1. CASE i = k
      BY <2>4, <2>6, <3>1
    <3>2. CASE i # k
      <4>1. i \in L + 1 - n .. L /\ i \in 1 .. L
        BY <1>1, <2>2, <3>2
      <4>2. h[i] = B(i, h)
        BY <2>1, <4>1
      <4> QED
        BY <2>3, <2>6, <3>2, <4>1, <4>2
    <3> QED
      BY <3>1, <3>2
  <2>8. Solves(f, n + 1)
    BY <2>2, <2>5, <2>7
  <2> HIDE DEF Solves
  <2> QED
    BY <2>8
<1>5. \A n \in Nat : n \in T
  <2> HIDE DEF T
  <2> QED
    BY <1>3, <1>4, InductionOn
<1>6. \E h : Solves(h, L)
  <2>1. L \in T
    BY <1>1, <1>5
  <2> HIDE DEF Solves
  <2> QED
    BY <1>1, <2>1
<1> DEFINE M == Meaning(words, posix)
<1>7. M = CHOOSE h : h = [i \in 1 .. L |-> B(i, h)]
  BY DEF Meaning, L, B
<1>8. \E h : h = [i \in 1 .. L |-> B(i, h)]
  <2>1. PICK h : Solves(h, L)
    BY <1>6
  <2>2. h = [i \in 1 .. L |-> h[i]] /\ \A i \in 1 .. L : h[i] = B(i, h)
    BY <1>1, <2>1
  <2>3. h = [i \in 1 .. L |-> B(i, h)]
    BY <2>2
  <2> QED
    BY <2>3
<1> HIDE DEF M
<1>9. M = [i \in 1 .. L |-> B(i, M)]
  BY <1>7, <1>8
<1>10. \A i \in 1 .. L : M[i] = B(i, M)
  BY <1>9
<1> DEFINE U == {n \in Nat : n <= L => \A i \in L - n .. L : i >= 1 => M[i] \in Meanings}
<1>11. \A i \in 1 .. L : i > Len(words) => M[i] \in Meanings
  BY <1>10, FailedIs DEF B, FromWord
<1>12. 0 \in U
  BY <1>1, <1>11 DEF L
<1>13. ASSUME NEW n \in Nat, n \in U PROVE n + 1 \in U
  <2> SUFFICES ASSUME n + 1 <= L, NEW i \in L - (n + 1) .. L, i >= 1 PROVE M[i] \in Meanings
    OBVIOUS
  <2>1. i \in 1 .. L
    BY <1>1
  <2>2. CASE i > Len(words)
    BY <1>11, <2>1, <2>2
  <2>3. CASE i <= Len(words)
    <3>1. i \in 1 .. Len(words)
      BY <1>1, <2>1, <2>3
    <3>2. i + 1 \in L - n .. L /\ i + 2 \in L - n .. L /\ i + 1 >= 1 /\ i + 2 >= 1
      BY <1>1, <2>1, <2>3 DEF L
    <3>3. M[i + 1] \in Meanings /\ M[i + 2] \in Meanings
      BY <1>1, <1>13, <3>2
    <3>4. FromWord(words, posix, i, M) \in Meanings
      BY <3>1, <3>3, FromWordIs
    <3> QED
      BY <1>10, <2>1, <3>4 DEF B
  <2> QED
    BY <1>1, <2>1, <2>2, <2>3
<1>14. \A n \in Nat : n \in U
  <2> HIDE DEF U
  <2> QED
    BY <1>12, <1>13, InductionOn
<1>15. \A i \in 1 .. L : M[i] \in Meanings
  <2>1. L \in U
    BY <1>1, <1>14
  <2> QED
    BY <1>1, <2>1
<1> QED
  BY <1>10, <1>15 DEF L, B, M

-----------------------------------------------------------------------------
(* The scan and what the words mean *)

words    == input.argv
meanings == Meaning(words, input.posix)

\* The operands the scan has passed over.
PassedOver ==
    IF nonopt_start = -1 THEN <<>>
    ELSE SubSeq(argv, nonopt_start, (IF nonopt_end = -1 THEN optind ELSE nonopt_end) - 1)

\* The first token that is left of the word being scanned.
Token == Len(words[optind]) + 1 - Len(place)

\* What is ahead of the scan.
Ahead == IF place = EMSG THEN meanings[optind] ELSE OptionWord(words, optind, Token, meanings)

\* The option getopt_long has returned and main has not used.
Pending == IF optchar \in {"call", "end"} THEN <<>> ELSE <<<<optchar, optarg>>>>

ScanTypes ==
    /\ input \in Inputs
    /\ argv \in Seq(Text) /\ Len(argv) = Len(words)
    /\ optind \in 1 .. Len(words) + 1
    /\ place \in Text
    /\ optarg \in Text
    /\ optchar \in Codes \cup {"call", "end"}
    /\ posixly_correct = input.posix
    /\ got \in Seq(Asks)

\* The scan has moved no word from its place on.
WordsKept == \A i \in optind .. Len(words) : argv[i] = words[i]

MidWord ==
    place # EMSG =>
        /\ optind <= Len(words)
        /\ ~IsOperand(words[optind]) /\ ~IsEnd(words[optind])
        /\ Token \in 3 .. Len(words[optind])
        /\ place = Onward(words[optind], Token)

BlocksInOrder ==
    /\ nonopt_start \in -1 .. optind /\ nonopt_end \in -1 .. optind
    /\ nonopt_start = -1 => nonopt_end = -1
    /\ nonopt_start # -1 => ~posixly_correct /\ nonopt_start \in 1 .. optind - 1
    /\ nonopt_end # -1 => nonopt_start < nonopt_end /\ (place = EMSG => nonopt_end < optind)
    /\ place # EMSG /\ nonopt_start # -1 => nonopt_end # -1

\* What was read and what is ahead is what was asked for.
Complete ==
    /\ asked.opts = (got \o Pending) \o Ahead.opts
    /\ asked.rest = PassedOver \o Ahead.rest

InScan == WordsKept /\ MidWord /\ BlocksInOrder /\ Complete

\* What main finds when getopt_long has returned, and what the scan keeps.
ScanInv ==
    /\ ScanTypes
    /\ optchar \notin {"bad", "end"} => InScan
    /\ optchar = "bad" => asked.opts = got \o Pending
    /\ optchar = "end" => got = asked.opts /\ SubSeq(argv, optind, Len(argv)) = asked.rest

ParseInv ==
    /\ ScanTypes
    /\ pc \in {"config", "getopt", "checks", "play", "done", "exit"}
    /\ pc \in {"config", "getopt", "checks"} => ScanInv
    /\ pc = "config" => optchar = "call"
    /\ pc = "exit" => IsPrefix(got, asked.opts)
    /\ pc \in {"checks", "play", "done"} => optchar = "end" /\ got = asked.opts

LEMMA WordsAre ==
    ASSUME input \in Inputs
    PROVE  /\ words \in Seq(Text)
           /\ asked = meanings[1]
           /\ \A i \in 1 .. Len(words) + 2 :
                 meanings[i] = FromWord(words, input.posix, i, meanings) /\ meanings[i] \in Meanings
<1>1. words \in Seq(Seq(STRING))
  BY SettingsAssumption DEF words
<1>2. Seq(STRING) \subseteq Text
  BY SeqMonotonic DEF Text
<1>3. words \in Seq(Text)
  BY <1>1, <1>2, SeqMonotonic
<1>4. asked = meanings[1]
  BY DEF asked, Reference, meanings, words
<1> QED
  BY <1>3, <1>4, MeaningIs DEF meanings

\* Where an option is read, the word's next token is looked at.
LEMMA AtOptionIs ==
    ASSUME ScanTypes, InScan, AtOption
    PROVE  \E k \in 2 .. Len(words[optind]) :
              /\ optind \in 1 .. Len(words)
              /\ words[optind] \in Text
              /\ Here = Onward(words[optind], k)
              /\ Head(Here) = words[optind][k]
              /\ Tail(Here) = Onward(words[optind], k + 1)
              /\ ~IsOperand(words[optind]) /\ ~IsEnd(words[optind])
              /\ Ahead = OptionWord(words, optind, k, meanings)
              /\ meanings[optind + 1] \in Meanings /\ meanings[optind + 2] \in Meanings
<1> DEFINE w == words[optind]
<1>0. words \in Seq(Text) /\ Len(words) \in Nat
  BY WordsAre DEF ScanTypes
<1>1. CASE place = EMSG
  <2>1. /\ optind \in 1 .. Len(words) /\ w = argv[optind]
        /\ ~IsOperand(w) /\ ~IsEnd(w)
    BY <1>0, <1>1 DEF AtOption, nargc, ScanTypes, InScan, WordsKept
  <2>2. w \in Text /\ Len(w) \in Nat
    BY <1>0, <2>1 DEF Text
  <2>3. Len(w) > 1 /\ w # EMSG
    BY <2>1, <2>2 DEF IsOperand, EMSG
  <2>4. Here = Onward(w, 2)
    BY <1>1, <2>1, <2>2, <2>3, TailIs DEF Here
  <2>5. Ahead = OptionWord(words, optind, 2, meanings)
    <3>1. meanings[optind] = FromWord(words, input.posix, optind, meanings)
      BY <1>0, <2>1, WordsAre DEF ScanTypes
    <3>2. FromWord(words, input.posix, optind, meanings) = OptionWord(words, optind, 2, meanings)
      BY <1>0, <2>1 DEF FromWord
    <3> QED
      BY <1>1, <3>1, <3>2 DEF Ahead
  <2>6. 2 \in 1 .. Len(w) + 1 /\ 2 <= Len(w)
    BY <2>2, <2>3
  <2>7. Head(Here) = w[2] /\ Tail(Here) = Onward(w, 3)
    BY <2>2, <2>4, <2>6, OnwardIs
  <2>8. meanings[optind + 1] \in Meanings /\ meanings[optind + 2] \in Meanings
    BY <1>0, <2>1, WordsAre DEF ScanTypes
  <2>9. 2 \in 2 .. Len(w) /\ 3 = 2 + 1
    BY <2>2, <2>6
  <2> QED
    BY <2>1, <2>2, <2>4, <2>5, <2>7, <2>8, <2>9
<1>2. CASE place # EMSG
  <2>1. /\ optind \in 1 .. Len(words)
        /\ ~IsOperand(w) /\ ~IsEnd(w)
        /\ Token \in 3 .. Len(w)
        /\ place = Onward(w, Token)
    BY <1>0, <1>2 DEF ScanTypes, InScan, MidWord
  <2>2. w \in Text /\ Len(w) \in Nat
    BY <1>0, <2>1 DEF Text
  <2>3. Here = Onward(w, Token) /\ Ahead = OptionWord(words, optind, Token, meanings)
    BY <1>2, <2>1 DEF Here, Ahead
  <2>4. Token \in 1 .. Len(w) + 1 /\ Token <= Len(w) /\ Token \in 2 .. Len(w)
    BY <2>1, <2>2
  <2>5. Head(Here) = w[Token] /\ Tail(Here) = Onward(w, Token + 1)
    BY <2>2, <2>3, <2>4, OnwardIs
  <2>6. meanings[optind + 1] \in Meanings /\ meanings[optind + 2] \in Meanings
    BY <1>0, <2>1, WordsAre DEF ScanTypes
  <2> QED
    BY <2>1, <2>2, <2>3, <2>4, <2>5, <2>6
<1> QED
  BY <1>1, <1>2

\* An option ends the block of operands, and moves no word.
LEMMA BlockEnds ==
    ASSUME ScanTypes, InScan, AtOption, EndBlock, UNCHANGED <<input, argv, nonopt_start, posixly_correct>>,
           \/ place' # EMSG /\ optind' = optind
           \/ place' = EMSG /\ optind' \in {optind + 1, optind + 2}
    PROVE  BlocksInOrder' /\ PassedOver' = PassedOver
<1>1. optind \in Nat /\ optind >= 1 /\ BlocksInOrder
  BY WordsAre DEF ScanTypes, InScan
<1>2. CASE nonopt_start = -1
  <2>1. nonopt_end = -1 /\ nonopt_end' = -1 /\ nonopt_start' = -1
    BY <1>1, <1>2 DEF BlocksInOrder, EndBlock, BlockEnd
  <2> QED
    BY <1>1, <1>2, <2>1 DEF BlocksInOrder, PassedOver
<1>3. CASE nonopt_start # -1 /\ nonopt_end = -1
  <2>1. place = EMSG /\ nonopt_end' = optind /\ nonopt_start' = nonopt_start
    BY <1>1, <1>3 DEF BlocksInOrder, EndBlock, BlockEnd
  <2> QED
    BY <1>1, <1>3, <2>1 DEF BlocksInOrder, PassedOver
<1>4. CASE nonopt_start # -1 /\ nonopt_end # -1
  <2>1. nonopt_end' = nonopt_end /\ nonopt_start' = nonopt_start
    BY <1>1, <1>4 DEF BlocksInOrder, EndBlock, BlockEnd
  <2> QED
    BY <1>1, <1>4, <2>1 DEF BlocksInOrder, PassedOver
<1> QED
  BY <1>2, <1>3, <1>4

\* The next call goes on where the last one stopped.
LEMMA OptionRead ==
    ASSUME ScanTypes, InScan, InCall, UNCHANGED <<input, got>>, PassedOver' = PassedOver,
           NEW c \in Accepted \cup Leaving, NEW a \in Text, optchar' = c, optarg' = a,
           Ahead' \in Meanings, Ahead = Then(c, a, Ahead')
    PROVE  Complete'
<1>1. words' = words /\ meanings' = meanings /\ asked' = asked
  BY DEF words, meanings, asked
<1>2. got \in Seq(Asks) /\ Pending = <<>> /\ got \o Pending = got
  BY ConcatEmptySeq DEF ScanTypes, Pending, InCall
<1>3. c \in Codes /\ <<c, a>> \in Asks /\ Pending' = <<<<c, a>>>>
  BY Returned DEF Asks, Codes, Pending
<1>4. Ahead.opts = <<<<c, a>>>> \o Ahead'.opts /\ Ahead.rest = Ahead'.rest
  BY <1>3, ThenIs
<1>5. asked.opts = (got \o Pending') \o Ahead'.opts
  <2>1. PICK x \in Seq(Asks), y \in Seq(Asks), z \in Seq(Asks) :
            x = got /\ y = <<<<c, a>>>> /\ z = Ahead'.opts
    <3>1. \A e \in Asks : <<e>> \in Seq(Asks)
      OBVIOUS
    <3>2. <<<<c, a>>>> \in Seq(Asks)
      BY <1>3, <3>1
    <3>3. Ahead'.opts \in Seq(Asks)
      BY DEF Meanings
    <3> QED
      BY <1>2, <3>2, <3>3
  <2>2. (x \o y) \o z = x \o (y \o z)
    BY ConcatAssociative
  <2>3. asked.opts = got \o Ahead.opts
    BY <1>2 DEF InScan, Complete
  <2> QED
    BY <1>3, <1>4, <2>1, <2>2, <2>3
<1>6. asked.rest = PassedOver' \o Ahead'.rest
  BY <1>4 DEF InScan, Complete
<1> QED
  BY <1>1, <1>5, <1>6 DEF Complete

LEMMA OptionRefused ==
    ASSUME ScanTypes, InScan, InCall, UNCHANGED <<input, got>>, optchar' = "bad", optarg' = NULL,
           Ahead = Failed
    PROVE  asked'.opts = got' \o Pending'
<1>1. asked' = asked
  BY DEF asked
<1>2. got \in Seq(Asks) /\ Pending = <<>> /\ got \o Pending = got
  BY ConcatEmptySeq DEF ScanTypes, Pending, InCall
<1>3. Pending' = <<<<"bad", NULL>>>>
  BY DEF Pending
<1> QED
  BY <1>1, <1>2, <1>3 DEF InScan, Complete, Failed

LEMMA Answered ==
    ASSUME ScanTypes, InScan, AtOption, EndBlock,
           UNCHANGED <<input, got, argv, nonopt_start, posixly_correct>>,
           place' = EMSG, optind' \in {optind + 1, optind + 2}, optind' <= Len(words) + 1,
           optchar' \in Accepted \cup Leaving, optarg' \in Text,
           Ahead = Then(optchar', optarg', meanings[optind'])
    PROVE  ScanInv'
<1>1. words' = words /\ meanings' = meanings /\ asked' = asked
  BY DEF words, meanings, asked
<1>2. words \in Seq(Text) /\ Len(words) \in Nat /\ optind \in 1 .. Len(words) + 1
  BY WordsAre DEF ScanTypes
<1>3. optind' \in 1 .. Len(words) + 1 /\ meanings[optind'] \in Meanings
  BY <1>2, WordsAre DEF ScanTypes
<1>4. Ahead' = meanings[optind']
  BY <1>1 DEF Ahead
<1>5. BlocksInOrder' /\ PassedOver' = PassedOver
  BY BlockEnds
<1>6. Complete'
  BY <1>3, <1>4, <1>5, OptionRead DEF AtOption
<1>7. WordsKept'
  BY <1>1, <1>2 DEF WordsKept, InScan
<1>8. MidWord'
  BY DEF MidWord
<1>9. ScanTypes'
  BY <1>1, <1>3, NullIs DEF ScanTypes, Codes
<1> QED
  BY <1>5, <1>6, <1>7, <1>8, <1>9, Returned DEF ScanInv, InScan

LEMMA Failing ==
    ASSUME ScanTypes, InScan, InCall, UNCHANGED <<input, got, argv, posixly_correct>>,
           place' \in Text, optind' \in {optind, optind + 1}, optind' <= Len(words) + 1,
           optchar' = "bad", optarg' = NULL, Ahead = Failed
    PROVE  ScanInv'
<1>1. words' = words /\ asked' = asked
  BY DEF words, asked
<1>2. Len(words) \in Nat /\ optind \in 1 .. Len(words) + 1
  BY WordsAre DEF ScanTypes
<1>3. ScanTypes'
  BY <1>1, <1>2, NullIs DEF ScanTypes, Codes
<1>4. asked'.opts = got' \o Pending'
  BY OptionRefused
<1> QED
  BY <1>3, <1>4 DEF ScanInv

LEMMA NextWordRead ==
    ASSUME ScanTypes, InScan, AtOption, NEW c \in Accepted \cup Leaving,
           EndBlock, UNCHANGED <<input, got, argv, nonopt_start, posixly_correct>>, place' = EMSG,
           optind \in 1 .. Len(words),
           Ahead = NextWord(words, optind, c, meanings),
           \/ /\ optind + 1 < nargc
              /\ optind' = optind + 2
              /\ optchar' = c /\ optarg' = argv[optind + 1]
           \/ /\ optind + 1 >= nargc
              /\ optind' = optind + 1
              /\ optchar' = "bad" /\ optarg' = NULL
    PROVE  ScanInv'
<1>1. words \in Seq(Text) /\ Len(words) \in Nat /\ nargc = Len(words) + 1
  BY WordsAre DEF ScanTypes, nargc
<1>2. CASE optind + 1 < nargc
  <2>1. optind + 1 \in 1 .. Len(words) /\ optind + 1 \in optind .. Len(words)
    BY <1>1, <1>2
  <2>2. argv[optind + 1] = words[optind + 1] /\ words[optind + 1] \in Text
    BY <1>1, <2>1 DEF InScan, WordsKept
  <2>3. Ahead = Then(c, words[optind + 1], meanings[optind + 2])
    BY <1>1, <1>2 DEF NextWord
  <2>4. optind' = optind + 2 /\ optchar' = c /\ optarg' = words[optind + 1]
    BY <1>1, <1>2, <2>2
  <2> QED
    BY <1>1, <1>2, <2>2, <2>3, <2>4, Answered
<1>3. CASE ~(optind + 1 < nargc)
  <2>1. optind = Len(words) /\ optind' = optind + 1 /\ optchar' = "bad" /\ optarg' = NULL
    BY <1>1, <1>3
  <2>2. Ahead = Failed
    BY <2>1 DEF NextWord
  <2> QED
    BY <1>1, <2>1, <2>2, NullIs, Failing DEF AtOption
<1> QED
  BY <1>2, <1>3

LEMMA LongOptionRead ==
    ASSUME ScanTypes, InScan, LongOption, UNCHANGED <<input, got>>
    PROVE  ScanInv'
<1>1. PICK k \in 2 .. Len(words[optind]) :
          /\ optind \in 1 .. Len(words)
          /\ words[optind] \in Text
          /\ Head(Here) = words[optind][k]
          /\ Tail(Here) = Onward(words[optind], k + 1)
          /\ Ahead = OptionWord(words, optind, k, meanings)
          /\ meanings[optind + 1] \in Meanings /\ meanings[optind + 2] \in Meanings
  BY AtOptionIs DEF LongOption
<1> DEFINE w == words[optind]
           p == Tail(Here)
           option == Min(Candidates(Name(p)))
<1>2. words \in Seq(Text) /\ Len(words) \in Nat /\ Len(w) \in Nat /\ optind + 1 <= Len(words) + 1
  BY <1>1, WordsAre DEF ScanTypes, Text
<1>3. w[k] = "-" /\ w[k] \notin SimpleFlags
  <2>1. w[k] = "-"
    BY <1>1 DEF LongOption
  <2>2. "-" \notin SimpleFlags
    BY DEF SimpleFlags, Letters, WithArgument
  <2> QED
    BY <2>1, <2>2
<1>4. Ahead = Ending(words, optind, k, meanings)
  <2>1. k \in 1 .. Len(words[optind]) + 1
    BY <1>1, <1>2
  <2> QED
    BY <1>1, <1>2, <1>3, <2>1, OptionWordIs
<1>5. p = SubSeq(w, k + 1, Len(w))
  BY <1>1 DEF Onward
<1>6. p \in Text
  <2>1. k + 1 \in 1 .. Len(w) + 1
    BY <1>1, <1>2
  <2> QED
    BY <1>1, <2>1, OnwardIs
<1>7. Ahead = IF BadLong(p) THEN Failed
              ELSE IF has_arg(option) = no_argument THEN Then(val(option), NULL, meanings[optind + 1])
              ELSE IF HasEqual(p) THEN Then(val(option), SubSeq(p, 3, Len(p)), meanings[optind + 1])
              ELSE NextWord(words, optind, val(option), meanings)
  <2>1. ~(k > Len(w))
    BY <1>1, <1>2
  <2> QED
    BY <1>3, <1>4, <1>5, <2>1 DEF Ending
<1>8. SubSeq(p, 3, Len(p)) \in Text
  <2>1. Len(p) \in 0 .. Len(p) /\ 3 \in Nat \ {0}
    BY <1>6 DEF Text
  <2> HIDE DEF p
  <2> QED
    BY <1>6, <2>1, PartIs DEF Text
<1>9. ~BadLong(p) => val(option) \in Accepted \cup Leaving
  BY OptionNamed
<1>10. /\ AtOption /\ EndBlock /\ place' = EMSG
       /\ UNCHANGED <<input, got, argv, nonopt_start, posixly_correct>>
  BY DEF LongOption, Return
<1>11. has_arg(option) = required_argument => has_arg(option) # no_argument
  BY DEF required_argument, no_argument
<1>12. \/ /\ BadLong(p)
          /\ optind' = optind + 1 /\ optchar' = "bad" /\ optarg' = NULL
       \/ /\ ~BadLong(p) /\ has_arg(option) = no_argument
          /\ optind' = optind + 1 /\ optchar' = val(option) /\ optarg' = NULL
       \/ /\ ~BadLong(p) /\ has_arg(option) = required_argument /\ HasEqual(p)
          /\ optind' = optind + 1 /\ optchar' = val(option) /\ optarg' = SubSeq(p, 3, Len(p))
       \/ /\ ~BadLong(p) /\ has_arg(option) = required_argument /\ ~HasEqual(p)
          /\ \/ /\ optind + 1 < nargc
                /\ optind' = optind + 2
                /\ optchar' = val(option) /\ optarg' = argv[optind + 1]
             \/ /\ optind + 1 >= nargc
                /\ optind' = optind + 1
                /\ optchar' = "bad" /\ optarg' = NULL
  BY DEF LongOption, Return
<1> HIDE DEF w, p, option
<1>13. CASE BadLong(p)
  <2>1. Ahead = Failed /\ InCall
    BY <1>7, <1>10, <1>13 DEF AtOption
  <2>2. place' \in Text
    BY <1>10, NullIs
  <2>3. optind' = optind + 1 /\ optchar' = "bad" /\ optarg' = NULL
    BY <1>12, <1>13
  <2> QED
    BY <1>2, <1>10, <2>1, <2>2, <2>3, Failing
<1>14. CASE ~BadLong(p) /\ has_arg(option) = no_argument
  <2>1. Ahead = Then(val(option), NULL, meanings[optind + 1])
    BY <1>7, <1>14
  <2>2. optind' = optind + 1 /\ optchar' = val(option) /\ optarg' = NULL
    BY <1>11, <1>12, <1>14
  <2> QED
    BY <1>2, <1>9, <1>10, <1>14, <2>1, <2>2, NullIs, Answered
<1>15. CASE ~BadLong(p) /\ has_arg(option) = required_argument /\ HasEqual(p)
  <2>1. Ahead = Then(val(option), SubSeq(p, 3, Len(p)), meanings[optind + 1])
    BY <1>7, <1>11, <1>15
  <2>2. optind' = optind + 1 /\ optchar' = val(option) /\ optarg' = SubSeq(p, 3, Len(p))
    BY <1>11, <1>12, <1>15
  <2> QED
    BY <1>2, <1>8, <1>9, <1>10, <1>15, <2>1, <2>2, Answered
<1>16. CASE ~BadLong(p) /\ has_arg(option) = required_argument /\ ~HasEqual(p)
  <2>1. Ahead = NextWord(words, optind, val(option), meanings)
    BY <1>7, <1>11, <1>16
  <2> QED
    BY <1>1, <1>9, <1>10, <1>11, <1>12, <1>16, <2>1, NextWordRead
<1> QED
  BY <1>12, <1>13, <1>14, <1>15, <1>16

LEMMA ShortFlagRead ==
    ASSUME ScanTypes, InScan, ShortFlag, UNCHANGED <<input, got>>
    PROVE  ScanInv'
<1>1. PICK k \in 2 .. Len(words[optind]) :
          /\ optind \in 1 .. Len(words)
          /\ words[optind] \in Text
          /\ Head(Here) = words[optind][k]
          /\ Tail(Here) = Onward(words[optind], k + 1)
          /\ ~IsOperand(words[optind]) /\ ~IsEnd(words[optind])
          /\ Ahead = OptionWord(words, optind, k, meanings)
          /\ meanings[optind + 1] \in Meanings /\ meanings[optind + 2] \in Meanings
  BY AtOptionIs DEF ShortFlag
<1> DEFINE w == words[optind]
<1>2. words \in Seq(Text) /\ Len(words) \in Nat /\ Len(w) \in Nat
  BY <1>1, WordsAre DEF ScanTypes, Text
<1>3. w[k] \in SimpleFlags /\ optchar' = w[k] /\ optarg' = NULL /\ place' = Onward(w, k + 1)
  BY <1>1 DEF ShortFlag, Return, SimpleFlags
<1>4. w[k] \in Accepted \cup Leaving
  BY <1>3, ShortOptions DEF SimpleFlags
<1>5. k + 1 \in 1 .. Len(w) + 1 /\ k \in 1 .. Len(w) + 1 /\ k <= Len(w)
  <2>1. k \in 2 .. Len(w) /\ Len(w) \in Nat
    BY <1>2
  <2> HIDE DEF w
  <2> QED
    BY <2>1
<1>6. Ahead = Then(w[k], NULL, OptionWord(words, optind, k + 1, meanings))
  BY <1>1, <1>2, <1>3, <1>5, OptionWordIs
<1>7. place' \in Text /\ Len(place') = Len(w) - k /\ (place' = EMSG <=> k + 1 = Len(w) + 1)
  <2>1. w \in Text
    BY <1>1
  <2>2. PICK n \in 1 .. Len(w) + 1 : n = k + 1
    BY <1>5
  <2>3. /\ Onward(w, n) \in Text /\ Len(Onward(w, n)) = Len(w) + 1 - n
        /\ Onward(w, n) = EMSG <=> n = Len(w) + 1
    BY <2>1, OnwardIs
  <2> HIDE DEF w
  <2> QED
    BY <1>2, <1>3, <1>5, <2>2, <2>3
<1>8. /\ AtOption /\ EndBlock
      /\ UNCHANGED <<input, got, argv, nonopt_start, posixly_correct>>
      /\ optind' = IF place' = EMSG THEN optind + 1 ELSE optind
  BY DEF ShortFlag, Return
<1>9. CASE place' = EMSG
  <2>1. OptionWord(words, optind, k + 1, meanings) = meanings[optind + 1]
    BY <1>1, <1>2, <1>5, <1>7, <1>9, OptionWordIs
  <2>2. optind' = optind + 1 /\ optind' <= Len(words) + 1
    BY <1>1, <1>2, <1>8, <1>9
  <2> QED
    BY <1>3, <1>4, <1>6, <1>8, <1>9, <2>1, <2>2, NullIs, Answered
<1>10. CASE place' # EMSG
  <2>1. words' = words /\ meanings' = meanings /\ asked' = asked
    BY <1>8 DEF words, meanings, asked
  <2>2. optind' = optind /\ words'[optind'] = w
    BY <1>8, <1>10, <2>1
  <2>3. Token' = k + 1
    <3>1. Token' = Len(w) + 1 - Len(place')
      BY <2>2 DEF Token
    <3> QED
      BY <1>2, <1>5, <1>7, <3>1
  <2>4. Ahead' = OptionWord(words, optind, k + 1, meanings)
    BY <1>10, <2>1, <2>2, <2>3 DEF Ahead
  <2>5. Ahead' \in Meanings
    BY <1>1, <1>2, <1>5, <2>4, OptionWordIs
  <2>6. BlocksInOrder' /\ PassedOver' = PassedOver
    BY <1>8, <1>10, <2>2, BlockEnds
  <2>7. Complete'
    BY <1>3, <1>4, <1>6, <1>8, <2>4, <2>5, <2>6, NullIs, OptionRead DEF AtOption
  <2>8. WordsKept'
    BY <1>8, <2>1, <2>2 DEF WordsKept, InScan
  <2>9. MidWord'
    <3>1. k + 1 \in 3 .. Len(w)
      <4>1. k \in 2 .. Len(w) /\ Len(w) \in Nat /\ k + 1 # Len(w) + 1
        BY <1>2, <1>7, <1>10
      <4> HIDE DEF w
      <4> QED
        BY <4>1
    <3>2. optind <= Len(words)
      BY <1>1, <1>2
    <3> QED
      BY <1>1, <1>3, <2>1, <2>2, <2>3, <3>1, <3>2 DEF MidWord
  <2>10. ScanTypes'
    BY <1>3, <1>4, <1>7, <1>8, <2>1, <2>2, NullIs DEF ScanTypes, Codes
  <2> QED
    BY <1>3, <1>4, <2>6, <2>7, <2>8, <2>9, <2>10, Returned DEF ScanInv, InScan
<1> QED
  BY <1>9, <1>10

LEMMA ShortWithArgumentRead ==
    ASSUME ScanTypes, InScan, ShortWithArgument, UNCHANGED <<input, got>>
    PROVE  ScanInv'
<1>1. PICK k \in 2 .. Len(words[optind]) :
          /\ optind \in 1 .. Len(words)
          /\ words[optind] \in Text
          /\ Head(Here) = words[optind][k]
          /\ Tail(Here) = Onward(words[optind], k + 1)
          /\ Ahead = OptionWord(words, optind, k, meanings)
          /\ meanings[optind + 1] \in Meanings /\ meanings[optind + 2] \in Meanings
  BY AtOptionIs DEF ShortWithArgument
<1> DEFINE w == words[optind]
           p == Tail(Here)
<1>2. words \in Seq(Text) /\ Len(words) \in Nat /\ Len(w) \in Nat /\ optind + 1 <= Len(words) + 1
  BY SMTT(30), <1>1, WordsAre DEF ScanTypes, Text
<1>3. w[k] \in WithArgument /\ w[k] \notin SimpleFlags /\ w[k] # "-" /\ w[k] \in Accepted \cup Leaving
  <2>1. w[k] \in WithArgument
    BY <1>1 DEF ShortWithArgument
  <2>2. "-" \notin WithArgument
    BY DEF WithArgument
  <2> QED
    BY <2>1, <2>2, ShortOptions DEF SimpleFlags
<1>4. Ahead = Ending(words, optind, k, meanings)
  <2>1. k \in 1 .. Len(words[optind]) + 1
    BY <1>1, <1>2
  <2> QED
    BY <1>1, <1>2, <1>3, <2>1, OptionWordIs
<1>5. p = SubSeq(w, k + 1, Len(w))
  BY <1>1 DEF Onward
<1>6. p \in Text
  <2>1. k + 1 \in 1 .. Len(w) + 1
    BY <1>1, <1>2
  <2> QED
    BY <1>1, <2>1, OnwardIs
<1>7. Ahead = IF p # EMSG THEN Then(w[k], p, meanings[optind + 1])
              ELSE NextWord(words, optind, w[k], meanings)
  <2>1. ~(k > Len(w))
    BY <1>1, <1>2
  <2> QED
    BY <1>3, <1>4, <1>5, <2>1 DEF Ending
<1>8. /\ AtOption /\ EndBlock /\ place' = EMSG
      /\ UNCHANGED <<input, got, argv, nonopt_start, posixly_correct>>
  BY DEF ShortWithArgument, Return
<1>9. \/ /\ p # EMSG
         /\ optind' = optind + 1 /\ optchar' = w[k] /\ optarg' = p
      \/ /\ p = EMSG
         /\ \/ /\ optind + 1 < nargc
               /\ optind' = optind + 2
               /\ optchar' = w[k] /\ optarg' = argv[optind + 1]
            \/ /\ optind + 1 >= nargc
               /\ optind' = optind + 1
               /\ optchar' = "bad" /\ optarg' = NULL
  BY <1>1 DEF ShortWithArgument, Return
<1> HIDE DEF w, p
<1>10. CASE p # EMSG
  <2>1. Ahead = Then(w[k], p, meanings[optind + 1])
    BY <1>7, <1>10
  <2>2. optind' = optind + 1 /\ optchar' = w[k] /\ optarg' = p
    BY <1>9, <1>10
  <2> QED
    BY <1>2, <1>3, <1>6, <1>8, <2>1, <2>2, Answered
<1>11. CASE p = EMSG
  <2>1. Ahead = NextWord(words, optind, w[k], meanings)
    BY <1>7, <1>11
  <2> QED
    BY <1>1, <1>3, <1>8, <1>9, <1>11, <2>1, NextWordRead
<1> QED
  BY <1>10, <1>11

LEMMA UnknownLetterRead ==
    ASSUME ScanTypes, InScan, UnknownLetter, UNCHANGED <<input, got>>
    PROVE  ScanInv'
<1>1. PICK k \in 2 .. Len(words[optind]) :
          /\ optind \in 1 .. Len(words)
          /\ words[optind] \in Text
          /\ Head(Here) = words[optind][k]
          /\ Tail(Here) = Onward(words[optind], k + 1)
          /\ Ahead = OptionWord(words, optind, k, meanings)
          /\ meanings[optind + 1] \in Meanings /\ meanings[optind + 2] \in Meanings
  BY AtOptionIs DEF UnknownLetter
<1> DEFINE w == words[optind]
<1>2. words \in Seq(Text) /\ Len(words) \in Nat /\ Len(w) \in Nat /\ optind + 1 <= Len(words) + 1
  BY <1>1, WordsAre DEF ScanTypes, Text
<1>3. w[k] \notin WithArgument /\ w[k] \notin SimpleFlags /\ w[k] # "-"
  BY <1>1, ShortOptions DEF UnknownLetter, SimpleFlags
<1>4. k \in 1 .. Len(w) + 1 /\ k + 1 \in 1 .. Len(w) + 1 /\ ~(k > Len(w))
  <2>1. k \in 2 .. Len(w) /\ Len(w) \in Nat
    BY <1>2
  <2> HIDE DEF w
  <2> QED
    BY <2>1
<1>5. Ahead = Ending(words, optind, k, meanings)
  BY <1>1, <1>2, <1>3, <1>4, OptionWordIs
<1>6. Ahead = Failed
  BY <1>3, <1>4, <1>5 DEF Ending
<1>7. place' \in Text
  BY <1>1, <1>4, OnwardIs DEF UnknownLetter
<1>8. /\ InCall /\ UNCHANGED <<input, got, argv, posixly_correct>>
      /\ optind' \in {optind, optind + 1}
      /\ optchar' = "bad" /\ optarg' = NULL
  BY DEF UnknownLetter, AtOption, Return
<1>9. optind' <= Len(words) + 1
  BY <1>1, <1>2, <1>8
<1> QED
  BY <1>6, <1>7, <1>8, <1>9, Failing

-----------------------------------------------------------------------------
(* An operand is passed over, and the scan ends *)

LEMMA SameParts ==
    ASSUME NEW S, NEW u \in Seq(S), NEW v \in Seq(S), NEW m \in Nat \ {0},
           NEW q \in 0 .. Len(u), q <= Len(v), \A i \in m .. q : u[i] = v[i]
    PROVE  SubSeq(u, m, q) = SubSeq(v, m, q)
<1>1. q \in 0 .. Len(v)
  OBVIOUS
<1>2. /\ SubSeq(u, m, q) \in Seq(S)
      /\ Len(SubSeq(u, m, q)) = IF m <= q THEN q - m + 1 ELSE 0
      /\ \A i \in 1 .. q - m + 1 : SubSeq(u, m, q)[i] = u[m + i - 1]
  BY PartIs
<1>3. /\ SubSeq(v, m, q) \in Seq(S)
      /\ Len(SubSeq(v, m, q)) = IF m <= q THEN q - m + 1 ELSE 0
      /\ \A i \in 1 .. q - m + 1 : SubSeq(v, m, q)[i] = v[m + i - 1]
  BY <1>1, PartIs
<1>4. PICK x \in Seq(S), y \in Seq(S) : x = SubSeq(u, m, q) /\ y = SubSeq(v, m, q)
  BY <1>2, <1>3
<1>5. Len(x) = Len(y)
  BY <1>2, <1>3, <1>4
<1>6. \A i \in 1 .. Len(x) : x[i] = y[i]
  <2> TAKE i \in 1 .. Len(x)
  <2>1. i \in 1 .. q - m + 1 /\ m + i - 1 \in m .. q
    BY <1>2, <1>4
  <2> QED
    BY <1>2, <1>3, <1>4, <2>1
<1>7. x = y
  BY <1>5, <1>6, SeqEqual
<1> QED
  BY <1>4, <1>7

\* The block s..e-1 of v is behind the block e..o-1 in p as it is, and what is
\* behind them stays.
Swapped(s, e, o, v, p) ==
    /\ Len(p) = Len(v)
    /\ SubSeq(p, o - (e - s), o - 1) = SubSeq(v, s, e - 1)
    /\ \A k \in o .. Len(v) : p[k] = v[k]

LEMMA PermutedSwaps ==
    ASSUME NEW S, NEW v \in Seq(S), NEW s, NEW e, NEW o, TwoBlocks(s, e, o, Len(v))
    PROVE  /\ Permuted(s, e, o, v) \in Seq(S)
           /\ Swapped(s, e, o, v, Permuted(s, e, o, v))
<1>1. /\ Len(v) \in Nat /\ s \in Nat /\ e \in Nat /\ o \in Nat
      /\ 1 <= s /\ s < e /\ e < o /\ o <= Len(v) + 1
  BY DEF TwoBlocks
<1>2. v \in [1 .. Len(v) -> S]
  OBVIOUS
<1>3. PICK p : p = Permuted(s, e, o, v)
  OBVIOUS
<1>4. p = Moved(s, e, o, s .. o - 1, v) /\ p \in [1 .. Len(v) -> S]
  <2>1. PICK L : L = Len(v)
    OBVIOUS
  <2>2. TwoBlocks(s, e, o, L) /\ v \in [1 .. L -> S]
    BY <1>2, <2>1
  <2>3. p = Moved(s, e, o, s .. o - 1, v) /\ p \in [1 .. L -> S]
    BY <1>3, <2>2, PermutedIs
  <2> QED
    BY <2>1, <2>3
<1>5. p \in Seq(S) /\ Len(p) = Len(v)
  BY <1>1, <1>4, IsSequence
<1>6. \A k \in 1 .. Len(v) : p[k] = IF k \in s .. o - 1 THEN v[Origin(s, e, o, k)] ELSE v[k]
  BY <1>2, <1>4 DEF Moved
<1>7. \A k \in o .. Len(v) : p[k] = v[k]
  BY <1>1, <1>6
<1>8. \A k \in o - (e - s) .. o - 1 : p[k] = v[k - (o - e)]
  <2> TAKE k \in o - (e - s) .. o - 1
  <2>1. k \in 1 .. Len(v) /\ k \in s .. o - 1 /\ ~(k < s + (o - e))
    BY <1>1
  <2> QED
    BY <1>6, <2>1 DEF Origin
<1>9. SubSeq(p, o - (e - s), o - 1) = SubSeq(v, s, e - 1)
  <2>1. /\ o - (e - s) \in Nat \ {0} /\ o - 1 \in 0 .. Len(p)
        /\ s \in Nat \ {0} /\ e - 1 \in 0 .. Len(v)
        /\ o - (e - s) <= o - 1 /\ s <= e - 1
        /\ (o - 1) - (o - (e - s)) + 1 = e - s /\ (e - 1) - s + 1 = e - s
    BY <1>1, <1>5
  <2>2. /\ SubSeq(p, o - (e - s), o - 1) \in Seq(S)
        /\ Len(SubSeq(p, o - (e - s), o - 1)) = e - s
        /\ \A i \in 1 .. e - s : SubSeq(p, o - (e - s), o - 1)[i] = p[(o - (e - s)) + i - 1]
    BY SMTT(30), <1>5, <2>1, PartIs
  <2>3. /\ SubSeq(v, s, e - 1) \in Seq(S)
        /\ Len(SubSeq(v, s, e - 1)) = e - s
        /\ \A i \in 1 .. e - s : SubSeq(v, s, e - 1)[i] = v[s + i - 1]
    <3>1. PICK n : n = e - 1 /\ n \in 0 .. Len(v) /\ s <= n /\ n - s + 1 = e - s
      BY <2>1
    <3>2. /\ SubSeq(v, s, n) \in Seq(S)
          /\ Len(SubSeq(v, s, n)) = n - s + 1
          /\ \A i \in 1 .. n - s + 1 : SubSeq(v, s, n)[i] = v[s + i - 1]
      BY SMTT(30), <2>1, <3>1, PartIs
    <3> QED
      BY <3>1, <3>2
  <2>4. \A i \in 1 .. e - s : p[(o - (e - s)) + i - 1] = v[s + i - 1]
    <3> TAKE i \in 1 .. e - s
    <3>1. PICK k : k = (o - (e - s)) + i - 1
      OBVIOUS
    <3>2. k \in o - (e - s) .. o - 1 /\ k - (o - e) = s + i - 1
      BY <1>1, <3>1
    <3> QED
      BY <1>8, <3>1, <3>2
  <2>5. PICK x \in Seq(S), y \in Seq(S) :
            x = SubSeq(p, o - (e - s), o - 1) /\ y = SubSeq(v, s, e - 1)
    BY <2>2, <2>3
  <2>6. Len(x) = Len(y) /\ \A i \in 1 .. Len(x) : x[i] = y[i]
    BY <2>2, <2>3, <2>4, <2>5
  <2>7. x = y
    BY <2>6, SeqEqual
  <2> QED
    BY <2>5, <2>7
<1> QED
  BY <1>3, <1>5, <1>7, <1>9 DEF Swapped
LEMMA OneWord ==
    ASSUME NEW S, NEW u \in Seq(S), NEW k \in 1 .. Len(u)
    PROVE  SubSeq(u, k, k) = <<u[k]>>
<1>1. k \in Nat \ {0} /\ k \in 0 .. Len(u) /\ k - k + 1 = 1 /\ k + 1 - 1 = k /\ u[k] \in S
  OBVIOUS
<1>2. /\ SubSeq(u, k, k) \in Seq(S)
      /\ Len(SubSeq(u, k, k)) = k - k + 1
      /\ \A i \in 1 .. k - k + 1 : SubSeq(u, k, k)[i] = u[k + i - 1]
  BY <1>1, PartIs
<1>3. PICK x \in Seq(S), y \in Seq(S) : x = SubSeq(u, k, k) /\ y = <<u[k]>>
  <2>1. \A e \in S : <<e>> \in Seq(S)
    OBVIOUS
  <2> QED
    BY <1>1, <1>2, <2>1
<1>4. Len(x) = 1 /\ Len(y) = 1 /\ x[1] = u[k] /\ y[1] = u[k]
  BY <1>1, <1>2, <1>3
<1>5. \A i \in 1 .. Len(x) : x[i] = y[i]
  BY <1>4
<1>6. x = y
  BY <1>4, <1>5, SeqEqual
<1> QED
  BY <1>3, <1>6

LEMMA OperandIs == ASSUME NEW w, IsOperand(w) PROVE ~IsEnd(w)
<1>1. Len(<<"-", "-">>) = 2 /\ <<"-", "-">>[1] = "-"
  OBVIOUS
<1> QED
  BY <1>1 DEF IsOperand, IsEnd

LEMMA Regrouped ==
    \A x \in Seq(Text) : \A y \in Seq(Text) : \A z \in Seq(Text) : (x \o y) \o z = x \o (y \o z)
BY ConcatAssociative

\* The word at optind is passed over: it follows the operands before it.
LEMMA Passing ==
    ASSUME ScanTypes, InScan, InCall, place = EMSG, UNCHANGED <<input, got, optarg, optchar, place>>,
           optind \in 1 .. Len(words), IsOperand(words[optind]), ~input.posix,
           optind' = optind + 1, PassedOver \in Seq(Text),
           PassedOver' = PassedOver \o <<words[optind]>>
    PROVE  Complete'
<1>1. words' = words /\ meanings' = meanings /\ asked' = asked
  BY DEF words, meanings, asked
<1>2. words \in Seq(Text) /\ Len(words) \in Nat /\ words[optind] \in Text
  BY WordsAre DEF ScanTypes
<1>3. ~IsEnd(words[optind])
  BY OperandIs
<1>4. meanings[optind] = FromWord(words, input.posix, optind, meanings) /\ meanings[optind + 1] \in Meanings
  BY <1>2, WordsAre DEF ScanTypes
<1>5. meanings[optind] = [meanings[optind + 1] EXCEPT !.rest = <<words[optind]>> \o @]
  BY <1>2, <1>3, <1>4 DEF FromWord
<1>6. /\ meanings[optind].opts = meanings[optind + 1].opts
      /\ meanings[optind].rest = <<words[optind]>> \o meanings[optind + 1].rest
  BY <1>4, <1>5 DEF Meanings
<1>7. Ahead = meanings[optind] /\ Ahead' = meanings[optind + 1] /\ Pending' = Pending
  BY <1>1 DEF Ahead, Pending
<1>8. asked.rest = PassedOver' \o Ahead'.rest
  <2>1. PICK x \in Seq(Text), y \in Seq(Text), z \in Seq(Text) :
            x = PassedOver /\ y = <<words[optind]>> /\ z = meanings[optind + 1].rest
    <3>1. \A e \in Text : <<e>> \in Seq(Text)
      OBVIOUS
    <3>2. <<words[optind]>> \in Seq(Text)
      BY <1>2, <3>1
    <3>3. meanings[optind + 1].rest \in Seq(Text)
      BY <1>4 DEF Meanings
    <3> QED
      BY <3>2, <3>3
  <2>2. (x \o y) \o z = x \o (y \o z)
    BY ZenonT(40), Regrouped
  <2> QED
    BY <1>6, <1>7, <2>1, <2>2 DEF InScan, Complete
<1>9. asked.opts = (got \o Pending) \o Ahead'.opts
  BY <1>6, <1>7 DEF InScan, Complete
<1> QED
  BY <1>1, <1>7, <1>8, <1>9 DEF Complete

LEMMA OperandPassed ==
    ASSUME ScanTypes, InScan, PassOperand, UNCHANGED <<input, got>>
    PROVE  ScanInv'
<1>1. words' = words /\ meanings' = meanings /\ asked' = asked
  BY DEF words, meanings, asked
<1>2. words \in Seq(Text) /\ Len(words) \in Nat
  BY WordsAre DEF ScanTypes
<1>3. /\ InCall /\ place = EMSG /\ optind \in 1 .. Len(words)
      /\ optind' = optind + 1 /\ ~input.posix /\ ~posixly_correct
      /\ UNCHANGED <<place, optarg, optchar, posixly_correct>>
  BY <1>2 DEF PassOperand, NewWord, nargc, ScanTypes
<1>4. argv[optind] = words[optind] /\ words[optind] \in Text /\ IsOperand(words[optind])
  BY <1>2, <1>3 DEF PassOperand, InScan, WordsKept
<1>5. PICK n \in Nat : n = Len(argv) /\ n = Len(words)
  BY <1>2 DEF ScanTypes
<1>6. argv \in Seq(Text) /\ BlocksInOrder /\ WordsKept
  BY DEF ScanTypes, InScan
<1>7. MidWord'
  BY <1>3 DEF MidWord
<1>8. SUFFICES /\ argv' \in Seq(Text) /\ Len(argv') = Len(argv)
               /\ \A i \in optind .. Len(words) : argv'[i] = argv[i]
               /\ BlocksInOrder'
               /\ PassedOver \in Seq(Text)
               /\ PassedOver' = PassedOver \o <<words[optind]>>
  <2>1. Complete'
    BY <1>3, <1>4, <1>8, Passing
  <2>2. WordsKept'
    BY SMTT(30), <1>1, <1>2, <1>3, <1>6, <1>8 DEF WordsKept
  <2>3. ScanTypes'
    BY <1>1, <1>2, <1>3, <1>8 DEF ScanTypes
  <2> QED
    BY <1>1, <1>3, <1>7, <1>8, <2>1, <2>2, <2>3 DEF ScanInv, InScan, InCall
<1>9. CASE nonopt_start = -1
  <2>1. nonopt_start' = optind /\ nonopt_end = -1 /\ nonopt_end' = -1 /\ argv' = argv
    BY <1>6, <1>9 DEF PassOperand, BlocksInOrder
  <2>2. BlocksInOrder'
    BY <1>3, <2>1 DEF BlocksInOrder
  <2>3. PassedOver = <<>> /\ PassedOver \in Seq(Text)
    BY <1>9 DEF PassedOver
  <2>4. PassedOver' = SubSeq(argv, optind, optind)
    BY <1>3, <2>1 DEF PassedOver
  <2>5. SubSeq(argv, optind, optind) = <<argv[optind]>>
    <3>1. optind \in 1 .. Len(argv)
      BY <1>3, <1>5
    <3> QED
      BY <1>6, <3>1, OneWord
  <2>6. <<>> \o <<words[optind]>> = <<words[optind]>>
    BY <1>4, ConcatEmptySeq
  <2> QED
    BY <1>4, <1>6, <2>1, <2>2, <2>3, <2>4, <2>5, <2>6
<1>10. CASE nonopt_start # -1 /\ nonopt_end = -1
  <2>1. nonopt_start' = nonopt_start /\ nonopt_end' = -1 /\ argv' = argv
    BY <1>10 DEF PassOperand
  <2>2. nonopt_start \in 1 .. optind - 1
    BY <1>6, <1>10 DEF BlocksInOrder
  <2>3. BlocksInOrder'
    BY <1>3, <1>10, <2>1, <2>2 DEF BlocksInOrder
  <2>4. /\ PassedOver = SubSeq(argv, nonopt_start, optind - 1)
        /\ PassedOver' = SubSeq(argv, nonopt_start, optind)
    <3>1. optind' - 1 = optind /\ nonopt_start' # -1
      BY <1>3, <1>10, <2>1
    <3> QED
      BY <1>10, <2>1, <3>1 DEF PassedOver
  <2>5. SubSeq(argv, nonopt_start, optind - 1) \in Seq(Text)
    <3>1. nonopt_start \in Nat \ {0} /\ optind - 1 \in 0 .. Len(argv)
      BY <1>3, <1>5, <2>2
    <3> QED
      BY <1>6, <3>1, PartIs
  <2>6. SubSeq(argv, nonopt_start, optind) =
            SubSeq(argv, nonopt_start, optind - 1) \o SubSeq(argv, optind, optind)
    <3>1. PICK m, k, q : /\ m = nonopt_start /\ k = optind - 1 /\ q = optind /\ k + 1 = optind
                         /\ m \in 1 .. Len(argv) + 1 /\ k \in m - 1 .. Len(argv) /\ q \in k .. Len(argv)
      BY <1>3, <1>5, <2>2
    <3>2. SubSeq(argv, m, k) \o SubSeq(argv, k + 1, q) = SubSeq(argv, m, q)
      BY <1>6, <3>1, ConcatAdjacentSubSeq
    <3> QED
      BY <3>1, <3>2
  <2>7. SubSeq(argv, optind, optind) = <<argv[optind]>>
    <3>1. optind \in 1 .. Len(argv)
      BY <1>3, <1>5
    <3> QED
      BY <1>6, <3>1, OneWord
  <2> QED
    BY <1>4, <1>6, <2>1, <2>3, <2>4, <2>5, <2>6, <2>7
<1>11. CASE nonopt_start # -1 /\ nonopt_end # -1
  <2> DEFINE s == nonopt_start
             e == nonopt_end
             o == optind
  <2>1. /\ s' = o - (e - s) /\ nonopt_end' = -1
        /\ argv' = Permuted(s, e, o, argv)
    BY <1>11 DEF PassOperand
  <2>2. s \in 1 .. o - 1 /\ s < e /\ e < o /\ e \in Int
    BY <1>3, <1>6, <1>11 DEF BlocksInOrder
  <2>3. TwoBlocks(s, e, o, Len(argv))
    BY <1>3, <1>5, <2>2 DEF TwoBlocks
  <2>4. /\ argv' \in Seq(Text) /\ Len(argv') = Len(argv)
        /\ SubSeq(argv', o - (e - s), o - 1) = SubSeq(argv, s, e - 1)
        /\ \A k \in o .. Len(argv) : argv'[k] = argv[k]
    <3>1. argv \in Seq(Text)
      BY <1>6
    <3> HIDE DEF s, e, o
    <3>2. PICK p : p = Permuted(s, e, o, argv)
      OBVIOUS
    <3>3. p \in Seq(Text) /\ Swapped(s, e, o, argv, p)
      BY <2>3, <3>1, <3>2, PermutedSwaps
    <3> QED
      BY <2>1, <3>2, <3>3 DEF Swapped
  <2>5. BlocksInOrder'
    <3>1. nonopt_start' \in 1 .. optind' - 1 /\ nonopt_start' # -1
      BY <1>3, <2>1, <2>2
    <3> QED
      BY <1>3, <2>1, <3>1 DEF BlocksInOrder
  <2>6. /\ PassedOver = SubSeq(argv, s, e - 1)
        /\ PassedOver' = SubSeq(argv', o - (e - s), o)
    <3>1. o - (e - s) # -1 /\ optind' - 1 = o
      BY <1>3, <2>2
    <3> QED
      BY <1>11, <2>1, <3>1 DEF PassedOver
  <2>7. SubSeq(argv, s, e - 1) \in Seq(Text)
    <3>1. s \in Nat \ {0} /\ e - 1 \in 0 .. Len(argv)
      BY <1>3, <1>5, <2>2
    <3> QED
      BY <1>6, <3>1, PartIs
  <2>8. SubSeq(argv', o - (e - s), o) = SubSeq(argv', o - (e - s), o - 1) \o SubSeq(argv', o, o)
    <3>1. PICK m, k, q : /\ m = o - (e - s) /\ k = o - 1 /\ q = o /\ k + 1 = o
                         /\ m \in 1 .. Len(argv) + 1 /\ k \in m - 1 .. Len(argv) /\ q \in k .. Len(argv)
      BY <1>3, <1>5, <2>2
    <3>2. SubSeq(argv', m, k) \o SubSeq(argv', k + 1, q) = SubSeq(argv', m, q)
      <4>1. PICK u \in Seq(Text) : u = argv' /\ Len(u) = Len(argv)
        BY <2>4
      <4>2. SubSeq(u, m, k) \o SubSeq(u, k + 1, q) = SubSeq(u, m, q)
        BY <3>1, <4>1, ConcatAdjacentSubSeq
      <4> QED
        BY <4>1, <4>2
    <3> QED
      BY <3>1, <3>2
  <2>9. SubSeq(argv', o, o) = <<argv[o]>>
    <3>1. PICK u \in Seq(Text) : u = argv' /\ Len(u) = Len(argv)
      BY <2>4
    <3>2. o \in 1 .. Len(u) /\ o \in o .. Len(argv)
      <4>1. o \in 1 .. n /\ Len(u) = n /\ Len(argv) = n
        BY <1>3, <1>5, <3>1
      <4> HIDE DEF o
      <4> QED
        BY <4>1
    <3>3. SubSeq(u, o, o) = <<u[o]>>
      BY <3>2, OneWord
    <3> QED
      BY <2>4, <3>1, <3>2, <3>3
  <2>10. \A i \in optind .. Len(words) : argv'[i] = argv[i]
    BY <1>5, <2>4
  <2> QED
    BY <1>4, <2>4, <2>5, <2>6, <2>7, <2>8, <2>9, <2>10
<1> QED
  BY <1>9, <1>10, <1>11

\* Finish puts the operands passed over in front of those that were not looked
\* at.
LEMMA Finished ==
    ASSUME ScanTypes, InScan, InCall, place = EMSG, UNCHANGED <<input, got>>,
           NEW end, NEW i, Finish(end, i),
           i \in optind .. Len(words) + 1, i >= 1,
           asked.opts = got, asked.rest = PassedOver \o SubSeq(words, i, Len(words)),
           \/ nonopt_start = -1 /\ end = -1
           \/ /\ nonopt_start # -1 /\ nonopt_end = -1 /\ end = -1
              /\ i = optind /\ optind = Len(words) + 1
           \/ /\ nonopt_start # -1 /\ end # -1 /\ end < i
              /\ end = IF nonopt_end = -1 THEN optind ELSE nonopt_end
    PROVE  ScanInv'
<1>1. words' = words /\ asked' = asked
  BY DEF words, meanings, asked
<1>2. words \in Seq(Text) /\ Len(words) \in Nat
  BY WordsAre DEF ScanTypes
<1>3. PICK n \in Nat : n = Len(argv) /\ n = Len(words)
  BY <1>2 DEF ScanTypes
<1>4. argv \in Seq(Text) /\ BlocksInOrder /\ WordsKept /\ optind \in 1 .. n + 1 /\ i \in 1 .. n + 1
  BY <1>3 DEF ScanTypes, InScan
<1>5. SubSeq(argv, i, n) = SubSeq(words, i, n)
  <2>1. i \in Nat \ {0} /\ \A k \in i .. n : argv[k] = words[k]
    BY <1>3, <1>4 DEF WordsKept
  <2> QED
    BY <1>2, <1>3, <1>4, <2>1, SameParts
<1>6. /\ place' = EMSG /\ nonopt_start' = -1 /\ nonopt_end' = -1
      /\ optchar' = "end" /\ optarg' = NULL /\ UNCHANGED posixly_correct
  BY DEF Finish, Return
<1>7. SUFFICES /\ argv' \in Seq(Text) /\ Len(argv') = n /\ optind' \in 1 .. n + 1
               /\ SubSeq(argv', optind', n) = PassedOver \o SubSeq(argv, i, n)
  <2>1. ScanTypes'
    BY <1>1, <1>3, <1>6, <1>7, NullIs DEF ScanTypes
  <2>2. SubSeq(argv', optind', Len(argv')) = asked'.rest
    BY <1>1, <1>3, <1>5, <1>7
  <2> QED
    BY <1>1, <1>6, <2>1, <2>2 DEF ScanInv
<1>8. SubSeq(argv, i, n) \in Seq(Text)
  <2>1. i \in Nat \ {0} /\ n \in 0 .. Len(argv)
    BY <1>3, <1>4
  <2> QED
    BY <1>4, <2>1, PartIs
<1>9. CASE nonopt_start = -1 /\ end = -1
  <2>1. argv' = argv /\ optind' = i /\ PassedOver = <<>>
    BY <1>9 DEF Finish, PassedOver
  <2> QED
    BY <1>3, <1>4, <1>8, <2>1, ConcatEmptySeq
<1>10. CASE /\ nonopt_start # -1 /\ nonopt_end = -1 /\ end = -1
            /\ i = optind /\ optind = Len(words) + 1
  <2>1. argv' = argv /\ optind' = nonopt_start /\ PassedOver = SubSeq(argv, nonopt_start, optind - 1)
    BY <1>10 DEF Finish, PassedOver
  <2>2. optind - 1 = n /\ nonopt_start \in 1 .. n
    BY <1>3, <1>4, <1>10 DEF BlocksInOrder
  <2>3. SubSeq(argv, i, n) = <<>>
    BY <1>3, <1>10, SubSeqEmpty
  <2>4. SubSeq(argv, nonopt_start, n) \in Seq(Text)
    <3>1. nonopt_start \in Nat \ {0} /\ n \in 0 .. Len(argv)
      BY <1>3, <2>2
    <3> QED
      BY <1>4, <3>1, PartIs
  <2>5. SubSeq(argv, nonopt_start, n) \o <<>> = SubSeq(argv, nonopt_start, n)
    BY <2>4, ConcatEmptySeq
  <2>6. optind' \in 1 .. n + 1
    BY <2>1, <2>2
  <2> QED
    BY <1>3, <1>4, <2>1, <2>2, <2>3, <2>5, <2>6
<1>11. CASE /\ nonopt_start # -1 /\ end # -1 /\ end < i
            /\ end = IF nonopt_end = -1 THEN optind ELSE nonopt_end
  <2> DEFINE s == nonopt_start
             e == end
  <2>1. argv' = Permuted(s, e, i, argv) /\ optind' = i - (e - s)
    BY <1>11 DEF Finish
  <2>2. s \in 1 .. optind - 1 /\ s < e /\ e < i /\ e \in Int
    BY <1>4, <1>11 DEF BlocksInOrder
  <2>3. TwoBlocks(s, e, i, Len(argv))
    BY <1>3, <1>4, <2>2 DEF TwoBlocks
  <2>4. /\ argv' \in Seq(Text) /\ Len(argv') = Len(argv)
        /\ SubSeq(argv', i - (e - s), i - 1) = SubSeq(argv, s, e - 1)
        /\ \A k \in i .. Len(argv) : argv'[k] = argv[k]
    <3>1. argv \in Seq(Text)
      BY <1>4
    <3> HIDE DEF s, e
    <3>2. PICK p : p = Permuted(s, e, i, argv)
      OBVIOUS
    <3>3. p \in Seq(Text) /\ Swapped(s, e, i, argv, p)
      BY <2>3, <3>1, <3>2, PermutedSwaps
    <3> QED
      BY <2>1, <3>2, <3>3 DEF Swapped
  <2>5. PassedOver = SubSeq(argv, s, e - 1)
    BY <1>11 DEF PassedOver
  <2>6. PICK m, k \in Nat :
            /\ m = i - (e - s) /\ k = i - 1 /\ k + 1 = i
            /\ m \in 1 .. n + 1 /\ k \in m - 1 .. n
    BY <1>3, <1>4, <2>2
  <2>7. SubSeq(argv', m, n) = SubSeq(argv', m, k) \o SubSeq(argv', i, n)
    <3>1. PICK u \in Seq(Text) : u = argv' /\ Len(u) = n
      BY <1>3, <2>4
    <3>2. n \in k .. Len(u)
      BY <2>6, <3>1
    <3>3. SubSeq(u, m, k) \o SubSeq(u, k + 1, n) = SubSeq(u, m, n)
      BY <2>6, <3>1, <3>2, ConcatAdjacentSubSeq
    <3> QED
      BY <2>6, <3>1, <3>3
  <2>8. SubSeq(argv', i, n) = SubSeq(argv, i, n)
    <3>1. PICK u \in Seq(Text) : u = argv' /\ Len(u) = n
      BY <1>3, <2>4
    <3>2. \A j \in i .. n : u[j] = argv[j]
      BY <1>3, <2>4, <3>1
    <3>3. i \in Nat \ {0} /\ n \in 0 .. Len(u) /\ n <= Len(argv)
      BY <1>3, <1>4, <3>1
    <3>4. SubSeq(u, i, n) = SubSeq(argv, i, n)
      BY <1>4, <3>2, <3>3, SameParts
    <3> QED
      BY <3>1, <3>4
  <2> QED
    BY <1>3, <2>1, <2>4, <2>5, <2>6, <2>7, <2>8
<1> QED
  BY <1>9, <1>10, <1>11
LEMMA NothingAhead ==
    ASSUME ScanTypes, InScan, InCall, Ahead.opts = <<>>
    PROVE  asked.opts = got
<1>1. got \in Seq(Asks) /\ Pending = <<>>
  BY DEF ScanTypes, Pending, InCall
<1>2. got \o <<>> = got
  BY <1>1, ConcatEmptySeq
<1> QED
  BY <1>1, <1>2 DEF InScan, Complete

LEMMA ArgumentsEnd ==
    ASSUME ScanTypes, InScan, EndOfArguments, UNCHANGED <<input, got>>
    PROVE  ScanInv'
<1>1. words \in Seq(Text) /\ Len(words) \in Nat
  BY WordsAre DEF ScanTypes
<1>2. /\ InCall /\ place = EMSG /\ optind = Len(words) + 1 /\ optind >= 1
      /\ Finish(nonopt_end, optind)
  BY <1>1 DEF EndOfArguments, NewWord, nargc, ScanTypes
<1>3. Ahead = None
  <2>1. optind \in 1 .. Len(words) + 2 /\ optind > Len(words)
    BY <1>1, <1>2
  <2>2. meanings[optind] = FromWord(words, input.posix, optind, meanings)
    BY <2>1, WordsAre DEF ScanTypes
  <2> QED
    BY <1>2, <2>1, <2>2 DEF Ahead, FromWord
<1>4. asked.opts = got /\ asked.rest = PassedOver \o <<>>
  BY <1>2, <1>3, NothingAhead DEF None, InScan, Complete
<1>5. SubSeq(words, optind, Len(words)) = <<>>
  BY <1>1, <1>2, SubSeqEmpty
<1>6. optind \in optind .. Len(words) + 1
  BY <1>1, <1>2
<1>7. \/ nonopt_start = -1 /\ nonopt_end = -1
      \/ nonopt_start # -1 /\ nonopt_end = -1
      \/ nonopt_start # -1 /\ nonopt_end # -1 /\ nonopt_end < optind
  BY <1>2 DEF InScan, BlocksInOrder
<1> QED
  BY <1>2, <1>4, <1>5, <1>6, <1>7, Finished

LEMMA DashesRead ==
    ASSUME ScanTypes, InScan, DoubleDash, UNCHANGED <<input, got>>
    PROVE  ScanInv'
<1>1. words \in Seq(Text) /\ Len(words) \in Nat
  BY WordsAre DEF ScanTypes
<1>2. /\ InCall /\ place = EMSG /\ optind \in 1 .. Len(words)
      /\ Finish(BlockEnd, optind + 1)
  BY <1>1 DEF DoubleDash, NewWord, nargc, ScanTypes
<1>3. IsEnd(words[optind])
  BY <1>1, <1>2 DEF DoubleDash, InScan, WordsKept
<1>4. Ahead = [opts |-> <<>>, rest |-> SubSeq(words, optind + 1, Len(words))]
  <2>1. optind \in 1 .. Len(words) + 2 /\ ~(optind > Len(words))
    BY <1>1, <1>2
  <2>2. meanings[optind] = FromWord(words, input.posix, optind, meanings)
    BY <2>1, WordsAre DEF ScanTypes
  <2> QED
    BY <1>2, <1>3, <2>1, <2>2 DEF Ahead, FromWord
<1>5. asked.opts = got /\ asked.rest = PassedOver \o SubSeq(words, optind + 1, Len(words))
  BY <1>2, <1>4, NothingAhead DEF InScan, Complete
<1>6. optind + 1 \in optind .. Len(words) + 1 /\ optind + 1 >= 1
  BY <1>1, <1>2
<1>7. \/ nonopt_start = -1 /\ BlockEnd = -1
      \/ /\ nonopt_start # -1 /\ BlockEnd # -1 /\ BlockEnd < optind + 1
         /\ BlockEnd = IF nonopt_end = -1 THEN optind ELSE nonopt_end
  <2>1. CASE nonopt_start = -1
    BY <1>2, <2>1 DEF InScan, BlocksInOrder, BlockEnd
  <2>2. CASE nonopt_start # -1 /\ nonopt_end = -1
    BY <1>2, <2>2 DEF BlockEnd
  <2>3. CASE nonopt_start # -1 /\ nonopt_end # -1
    BY <1>2, <2>3 DEF InScan, BlocksInOrder, BlockEnd
  <2> QED
    BY <2>1, <2>2, <2>3
<1>8. PICK end, i : end = BlockEnd /\ i = optind + 1
  OBVIOUS
<1> QED
  BY <1>2, <1>5, <1>6, <1>7, <1>8, Finished

LEMMA OperandEnds ==
    ASSUME ScanTypes, InScan, StopAtOperand, UNCHANGED <<input, got>>
    PROVE  ScanInv'
<1>1. words' = words /\ asked' = asked
  BY DEF words, asked
<1>2. words \in Seq(Text) /\ Len(words) \in Nat
  BY WordsAre DEF ScanTypes
<1>3. PICK n \in Nat : n = Len(argv) /\ n = Len(words)
  BY <1>2 DEF ScanTypes
<1>4. /\ InCall /\ place = EMSG /\ optind \in 1 .. n /\ posixly_correct /\ input.posix
      /\ optchar' = "end" /\ optarg' = NULL
      /\ UNCHANGED <<argv, optind, place, nonopt_start, nonopt_end, posixly_correct>>
  BY <1>3 DEF StopAtOperand, NewWord, nargc, ScanTypes, Return, scan
<1>5. IsOperand(words[optind]) /\ ~IsEnd(words[optind])
  BY <1>3, <1>4, OperandIs DEF StopAtOperand, InScan, WordsKept
<1>6. Ahead = [opts |-> <<>>, rest |-> SubSeq(words, optind, Len(words))]
  <2>1. optind \in 1 .. Len(words) + 2 /\ ~(optind > Len(words))
    BY <1>3, <1>4
  <2>2. meanings[optind] = FromWord(words, input.posix, optind, meanings)
    BY <2>1, WordsAre DEF ScanTypes
  <2> QED
    BY <1>4, <1>5, <2>1, <2>2 DEF Ahead, FromWord
<1>7. PassedOver = <<>>
  BY <1>4 DEF PassedOver, InScan, BlocksInOrder
<1>8. SubSeq(argv, optind, n) = SubSeq(words, optind, n)
  <2>1. argv \in Seq(Text) /\ \A k \in optind .. n : argv[k] = words[k]
    BY <1>3 DEF WordsKept, InScan, ScanTypes
  <2>2. optind \in Nat \ {0} /\ n \in 0 .. Len(argv) /\ n <= Len(words)
    BY <1>3, <1>4
  <2> QED
    BY <1>2, <2>1, <2>2, SameParts
<1>9. asked.rest = SubSeq(words, optind, n)
  <2>1. optind \in Nat \ {0} /\ n \in 0 .. Len(words)
    BY <1>3, <1>4
  <2>2. SubSeq(words, optind, n) \in Seq(Text)
    BY <1>2, <2>1, PartIs
  <2>3. <<>> \o SubSeq(words, optind, n) = SubSeq(words, optind, n)
    BY <2>2, ConcatEmptySeq
  <2> QED
    BY <1>3, <1>6, <1>7, <2>3 DEF InScan, Complete
<1>10. asked.opts = got
  BY <1>4, <1>6, NothingAhead
<1>11. ScanTypes'
  BY <1>1, <1>4, NullIs DEF ScanTypes
<1> QED
  BY <1>1, <1>3, <1>4, <1>8, <1>9, <1>10, <1>11 DEF ScanInv

\* Whatever getopt_long does, the words it has read and those ahead of it are
\* the command line.
LEMMA Scanned ==
    ASSUME ScanInv, getopt_long, UNCHANGED <<input, got>>
    PROVE  ScanInv'
<1>1. ScanTypes /\ InScan
  <2>1. InCall
    BY DEF getopt_long, EndOfArguments, DoubleDash, StopAtOperand, PassOperand, NewWord,
           LongOption, ShortFlag, ShortWithArgument, UnknownLetter, AtOption
  <2> QED
    BY <2>1 DEF ScanInv, InCall
<1>2. CASE EndOfArguments
  BY <1>1, <1>2, ArgumentsEnd
<1>3. CASE DoubleDash
  BY <1>1, <1>3, DashesRead
<1>4. CASE StopAtOperand
  BY <1>1, <1>4, OperandEnds
<1>5. CASE PassOperand
  BY <1>1, <1>5, OperandPassed
<1>6. CASE LongOption
  BY <1>1, <1>6, LongOptionRead
<1>7. CASE ShortFlag
  BY <1>1, <1>7, ShortFlagRead
<1>8. CASE ShortWithArgument
  BY <1>1, <1>8, ShortWithArgumentRead
<1>9. CASE UnknownLetter
  BY <1>1, <1>9, UnknownLetterRead
<1> QED
  BY <1>2, <1>3, <1>4, <1>5, <1>6, <1>7, <1>8, <1>9 DEF getopt_long
-----------------------------------------------------------------------------
(* main: the parse *)

LEMMA PrefixIs ==
    ASSUME NEW S, NEW x \in Seq(S), NEW y \in Seq(S)
    PROVE  IsPrefix(x, x) /\ IsPrefix(x, x \o y)
<1>1. /\ x \o y \in Seq(S) /\ Len(x \o y) = Len(x) + Len(y)
      /\ \A i \in 1 .. Len(x) : (x \o y)[i] = x[i]
  BY ConcatProperties
<1>2. PICK z \in Seq(S) : z = x \o y
  BY <1>1
<1>3. Len(x) \in 0 .. Len(x) /\ Len(x) <= Len(z) /\ \A i \in 1 .. Len(x) : x[i] = z[i]
  BY <1>1, <1>2
<1>4. SubSeq(x, 1, Len(x)) = SubSeq(z, 1, Len(x))
  BY <1>3, SameParts
<1> QED
  BY <1>2, <1>3, <1>4 DEF IsPrefix

LEMMA AheadIs ==
    ASSUME ScanTypes, InScan
    PROVE  Ahead \in Meanings
<1>1. words \in Seq(Text) /\ Len(words) \in Nat /\ optind \in 1 .. Len(words) + 1
  BY WordsAre DEF ScanTypes
<1>2. /\ meanings[optind] \in Meanings /\ meanings[optind + 1] \in Meanings
      /\ optind < Len(words) => meanings[optind + 2] \in Meanings
  <2>1. /\ optind \in 1 .. Len(words) + 2 /\ optind + 1 \in 1 .. Len(words) + 2
        /\ optind < Len(words) => optind + 2 \in 1 .. Len(words) + 2
    BY <1>1
  <2> QED
    BY <2>1, WordsAre DEF ScanTypes
<1>3. CASE place = EMSG
  BY <1>2, <1>3 DEF Ahead
<1>4. CASE place # EMSG
  <2>1. optind \in 1 .. Len(words) /\ Token \in 3 .. Len(words[optind])
    BY <1>1, <1>4 DEF InScan, MidWord
  <2>2. words[optind] \in Text /\ Len(words[optind]) \in Nat
    BY <1>1, <2>1 DEF Text
  <2>3. Token \in 1 .. Len(words[optind]) + 1
    BY <2>1, <2>2
  <2> QED
    BY <1>1, <1>2, <1>4, <2>1, <2>3, OptionWordIs DEF Ahead
<1> QED
  BY <1>3, <1>4

LEMMA PendingIs ==
    ASSUME ScanTypes
    PROVE  /\ Pending \in Seq(Asks) /\ got \o Pending \in Seq(Asks)
           /\ optchar \notin {"call", "end"} =>
                  /\ <<optchar, optarg>> \in Asks
                  /\ got \o Pending = Append(got, <<optchar, optarg>>)
           /\ optchar \in {"call", "end"} => got \o Pending = got
<1>1. got \in Seq(Asks)
  BY DEF ScanTypes
<1>2. CASE optchar \in {"call", "end"}
  <2>1. Pending = <<>> /\ got \o <<>> = got
    BY <1>1, <1>2, ConcatEmptySeq DEF Pending
  <2> QED
    BY <1>1, <1>2, <2>1
<1>3. CASE optchar \notin {"call", "end"}
  <2>1. <<optchar, optarg>> \in Asks /\ Pending = <<<<optchar, optarg>>>>
    BY <1>3 DEF ScanTypes, Asks, Pending
  <2>2. \A e \in Asks : <<e>> \in Seq(Asks) /\ got \o <<e>> \in Seq(Asks) /\ got \o <<e>> = Append(got, e)
    <3> TAKE e \in Asks
    <3>1. <<e>> \in Seq(Asks)
      OBVIOUS
    <3>2. got \o <<e>> \in Seq(Asks)
      BY <1>1, <3>1, ConcatProperties
    <3>3. got \o <<e>> = Append(got, e)
      BY <1>1, AppendIsConcat
    <3> QED
      BY <3>1, <3>2, <3>3
  <2> QED
    BY <1>3, <2>1, <2>2
<1> QED
  BY <1>2, <1>3

\* What getopt_long has returned so far was asked for.
LEMMA GotIsPrefix ==
    ASSUME ScanInv
    PROVE  /\ IsPrefix(got, asked.opts)
           /\ optchar # "end" => IsPrefix(got \o Pending, asked.opts)
<1>1. ScanTypes /\ got \in Seq(Asks)
  BY DEF ScanInv, ScanTypes
<1>2. Pending \in Seq(Asks) /\ got \o Pending \in Seq(Asks)
  BY <1>1, PendingIs
<1>3. PICK x \in Seq(Asks), y \in Seq(Asks), xy \in Seq(Asks) :
          x = got /\ y = Pending /\ xy = got \o Pending
  BY <1>1, <1>2
<1>4. CASE optchar = "end"
  BY <1>1, <1>4, PrefixIs DEF ScanInv
<1>5. CASE optchar = "bad"
  <2>1. asked.opts = xy
    BY <1>3, <1>5 DEF ScanInv
  <2>2. IsPrefix(x, x \o y) /\ IsPrefix(xy, xy)
    BY PrefixIs
  <2> QED
    BY <1>3, <2>1, <2>2
<1>6. CASE optchar \notin {"bad", "end"}
  <2>1. InScan /\ Ahead \in Meanings
    BY <1>1, <1>6, AheadIs DEF ScanInv
  <2>2. PICK z \in Seq(Asks) : z = Ahead.opts
    BY <2>1 DEF Meanings
  <2>3. asked.opts = xy \o z
    BY <1>3, <2>1, <2>2 DEF InScan, Complete
  <2>4. (x \o y) \o z = x \o (y \o z)
    BY ConcatAssociative
  <2>5. y \o z \in Seq(Asks)
    BY ConcatProperties
  <2>6. IsPrefix(xy, xy \o z)
    BY PrefixIs
  <2>7. IsPrefix(x, x \o (y \o z))
    BY <2>5, PrefixIs
  <2> QED
    BY <1>3, <2>3, <2>4, <2>6, <2>7
<1> QED
  BY <1>4, <1>5, <1>6

LEMMA ScanKept ==
    ASSUME ScanInv, UNCHANGED <<input, got, getopt>>
    PROVE  ScanInv'
<1>1. words' = words /\ meanings' = meanings /\ asked' = asked
  BY DEF words, meanings, asked
<1>2. /\ UNCHANGED <<argv, optind, place, nonopt_start, nonopt_end>>
      /\ UNCHANGED <<optarg, optchar, posixly_correct>>
  BY DEF getopt, scan
<1>3. Pending' = Pending /\ PassedOver' = PassedOver /\ Token' = Token
  BY <1>1, <1>2 DEF Pending, PassedOver, Token
<1>4. Ahead' = Ahead
  BY <1>1, <1>2, <1>3 DEF Ahead
<1>5. ScanTypes' = ScanTypes
  BY <1>1, <1>2 DEF ScanTypes
<1>6. WordsKept' = WordsKept
  BY <1>1, <1>2 DEF WordsKept
<1>7. MidWord' = MidWord
  BY <1>1, <1>2, <1>3 DEF MidWord
<1>8. BlocksInOrder' = BlocksInOrder
  BY <1>1, <1>2 DEF BlocksInOrder
<1>9. Complete' = Complete
  BY <1>1, <1>3, <1>4 DEF Complete
<1> QED
  BY <1>1, <1>2, <1>3, <1>5, <1>6, <1>7, <1>8, <1>9 DEF ScanInv, InScan

LEMMA OptionUsed ==
    ASSUME ScanInv, optchar \notin {"call", "end", "bad"}, UNCHANGED input,
           got' = Append(got, <<optchar, optarg>>), CallAgain
    PROVE  ScanInv'
<1>1. words' = words /\ meanings' = meanings /\ asked' = asked
  BY DEF words, meanings, asked
<1>2. /\ UNCHANGED <<argv, optind, place, nonopt_start, nonopt_end, posixly_correct>>
      /\ optchar' = "call" /\ optarg' = NULL
  BY DEF CallAgain, scan
<1>3. ScanTypes /\ InScan
  BY DEF ScanInv
<1>4. PassedOver' = PassedOver /\ Token' = Token
  BY <1>1, <1>2 DEF PassedOver, Token
<1>5. Ahead' = Ahead
  BY <1>1, <1>2, <1>4 DEF Ahead
<1>6. got' = got \o Pending /\ got' \in Seq(Asks)
  BY <1>3, PendingIs
<1>7. got' \o Pending' = got'
  <2>1. Pending' = <<>>
    BY <1>2 DEF Pending
  <2> QED
    BY <1>6, <2>1, ConcatEmptySeq
<1>8. ScanTypes'
  BY <1>1, <1>2, <1>3, <1>6, NullIs DEF ScanTypes
<1>9. WordsKept'
  BY <1>1, <1>2, <1>3 DEF WordsKept, InScan
<1>10. MidWord'
  BY <1>1, <1>2, <1>3, <1>4 DEF MidWord, InScan
<1>11. BlocksInOrder'
  BY <1>2, <1>3 DEF BlocksInOrder, InScan
<1>12. Complete'
  BY <1>1, <1>3, <1>4, <1>5, <1>6, <1>7 DEF Complete, InScan
<1> QED
  BY <1>2, <1>8, <1>9, <1>10, <1>11, <1>12 DEF ScanInv, InScan

LEMMA InitParse == Init => ParseInv
<1> SUFFICES ASSUME Init PROVE ParseInv
  OBVIOUS
<1>1. words \in Seq(Text) /\ Len(words) \in Nat /\ asked = meanings[1]
  BY WordsAre DEF Init
<1>2. /\ input \in Inputs /\ argv = words /\ optind = 1 /\ place = EMSG
      /\ nonopt_start = -1 /\ nonopt_end = -1 /\ optarg = NULL /\ optchar = "call"
      /\ posixly_correct = input.posix
      /\ pc = "config" /\ got = <<>>
  BY DEF Init, GetoptInit, words
<1>3. ScanTypes
  <2>1. got \in Seq(Asks)
    BY <1>2
  <2> QED
    BY <1>1, <1>2, <2>1, NullIs DEF ScanTypes
<1>4. meanings[1] \in Meanings
  BY <1>1, <1>2, WordsAre
<1>5. Complete
  <2>1. Ahead = meanings[1] /\ PassedOver = <<>> /\ Pending = <<>>
    BY <1>2 DEF Ahead, PassedOver, Pending
  <2>2. PICK x \in Seq(Asks), y \in Seq(Text) : x = meanings[1].opts /\ y = meanings[1].rest
    BY <1>4 DEF Meanings
  <2>3. <<>> \o x = x /\ <<>> \o y = y
    BY ConcatEmptySeq
  <2>4. got \o Pending = <<>>
    BY <1>2, <1>3, <2>1, PendingIs
  <2> QED
    BY <1>1, <2>1, <2>2, <2>3, <2>4 DEF Complete
<1>6. WordsKept /\ MidWord /\ BlocksInOrder
  BY <1>2 DEF WordsKept, MidWord, BlocksInOrder
<1> QED
  BY <1>2, <1>3, <1>5, <1>6 DEF ParseInv, ScanInv, InScan

LEMMA NextParse ==
    ASSUME ParseInv, [Next]_vars
    PROVE  ParseInv'
<1>1. CASE ReadConfig
  <2>1. ScanInv /\ UNCHANGED <<input, got, getopt>> /\ pc' = "getopt"
    BY <1>1 DEF ReadConfig, ParseInv
  <2>2. ScanInv'
    BY <2>1, ScanKept
  <2> QED
    BY <2>1, <2>2 DEF ParseInv, ScanInv
<1>2. CASE ScanWord
  <2>1. ScanInv /\ getopt_long /\ UNCHANGED <<input, got>> /\ pc' = "getopt"
    BY <1>2 DEF ScanWord, ParseInv, history
  <2>2. ScanInv'
    BY <2>1, Scanned
  <2> QED
    BY <2>1, <2>2 DEF ParseInv, ScanInv
<1>3. CASE UseOption
  <2>1. /\ ScanInv /\ optchar \notin {"call", "end", "bad"} /\ UNCHANGED input
        /\ got' = Append(got, <<optchar, optarg>>) /\ CallAgain /\ pc' = "getopt"
    BY <1>3 DEF UseOption, ParseInv, Exits
  <2>2. ScanInv'
    BY <2>1, OptionUsed
  <2> QED
    BY <2>1, <2>2 DEF ParseInv, ScanInv
<1>4. CASE ExitOption
  <2>1. /\ ScanInv /\ optchar \notin {"call", "end"} /\ UNCHANGED <<input, getopt>>
        /\ got' = Append(got, <<optchar, optarg>>) /\ pc' = "exit"
    BY <1>4 DEF ExitOption, ParseInv, Exits
  <2>2. ScanTypes
    BY <2>1 DEF ScanInv
  <2>3. got' = got \o Pending /\ got' \in Seq(Asks)
    BY <2>1, <2>2, PendingIs
  <2>4. IsPrefix(got', asked.opts) /\ asked' = asked /\ words' = words
    BY <2>1, <2>3, GotIsPrefix DEF asked, words
  <2>5. ScanTypes'
    BY <2>1, <2>2, <2>3, <2>4 DEF ScanTypes, getopt, scan
  <2> QED
    BY <2>1, <2>4, <2>5 DEF ParseInv
<1>5. CASE EndOfOptions
  <2>1. /\ ScanInv /\ optchar = "end" /\ UNCHANGED <<input, got, getopt>> /\ pc' = "checks"
    BY <1>5 DEF EndOfOptions, ParseInv, history
  <2>2. ScanInv' /\ optchar' = "end"
    BY <2>1, ScanKept DEF getopt
  <2> QED
    BY <2>1, <2>2 DEF ParseInv, ScanInv
<1>6. CASE pc \in {"checks", "play"} /\ pc' \in {"play", "done", "exit"} /\ UNCHANGED <<input, got, getopt>>
  <2>1. ScanTypes /\ optchar = "end" /\ got = asked.opts
    BY <1>6 DEF ParseInv
  <2>2. asked' = asked /\ words' = words
    BY <1>6 DEF asked, words
  <2>3. ScanTypes' /\ optchar' = "end" /\ got' = asked'.opts
    BY <1>6, <2>1, <2>2 DEF ScanTypes, getopt, scan
  <2>4. IsPrefix(got', asked'.opts)
    BY <2>3, PrefixIs DEF ScanTypes
  <2> QED
    BY <1>6, <2>3, <2>4 DEF ParseInv
<1>7. CASE PlayModule
  <2>1. /\ pc = "play" /\ pc' = "play" /\ optind < nargc /\ optind' = optind + 1
        /\ UNCHANGED <<input, got, argv, place, optarg, optchar, posixly_correct>>
    BY <1>7 DEF PlayModule, PlayWith
  <2>2. ScanTypes /\ optchar = "end" /\ got = asked.opts
    BY <2>1 DEF ParseInv
  <2>3. asked' = asked /\ words' = words
    BY <2>1 DEF asked, words
  <2>4. optind' \in 1 .. Len(words) + 1
    BY <2>1, <2>2, WordsAre DEF ScanTypes, nargc
  <2>5. ScanTypes'
    BY <2>1, <2>2, <2>3, <2>4 DEF ScanTypes
  <2> QED
    BY <2>1, <2>2, <2>3, <2>5 DEF ParseInv
<1>8. CASE UNCHANGED vars
  <2>1. UNCHANGED <<input, pc, got, getopt>>
    BY <1>8 DEF vars, history
  <2>2. asked' = asked /\ words' = words
    BY <2>1 DEF asked, words
  <2>3. ScanTypes'
    BY <2>1, <2>2 DEF ParseInv, ScanTypes, getopt, scan
  <2>4. ScanInv => ScanInv'
    BY <2>1, ScanKept
  <2>5. UNCHANGED optchar
    BY <2>1 DEF getopt
  <2> QED
    BY <2>1, <2>2, <2>3, <2>4, <2>5 DEF ParseInv
<1>9. Refuse \/ SelectDriver \/ EndOfList =>
          pc \in {"checks", "play"} /\ pc' \in {"play", "done", "exit"} /\ UNCHANGED <<input, got, getopt>>
  BY DEF Refuse, SelectDriver, EndOfList, history
<1> QED
  BY <1>1, <1>2, <1>3, <1>4, <1>5, <1>6, <1>7, <1>8, <1>9 DEF Next

\* Along every run of the program what getopt_long has returned, what it is in
\* the middle of and what it has not looked at are together what the command
\* line says (getopt_internal, permute_args, get_options).
THEOREM ParseIsWhole == Spec => []ParseInv
<1>1. Init => ParseInv
  BY InitParse
<1>2. ParseInv /\ [Next]_vars => ParseInv'
  BY NextParse
<1> QED
  BY <1>1, <1>2, PTL DEF Spec

\* However options and operands are mixed, the options are handed over in the
\* order in which they were written, and the operands are left behind optind in
\* theirs (getopt_internal's bookkeeping of the two blocks and permute_args).
THEOREM OptionsParsedAsWritten == Spec => []ParsedAsWritten
<1>1. ParseInv => ParsedAsWritten
  <2> SUFFICES ASSUME ParseInv PROVE ParsedAsWritten
    OBVIOUS
  <2>1. IsPrefix(got, asked.opts)
    <3>1. CASE pc \in {"config", "getopt", "checks"}
      BY <3>1, GotIsPrefix DEF ParseInv
    <3>2. CASE pc = "exit"
      BY <3>2 DEF ParseInv
    <3>3. CASE pc \in {"play", "done"}
      BY <3>3, PrefixIs DEF ParseInv, ScanTypes
    <3> QED
      BY <3>1, <3>2, <3>3 DEF ParseInv
  <2>2. nargc - 1 = Len(argv)
    BY WordsAre DEF ParseInv, ScanTypes, nargc
  <2>3. optchar = "end" /\ pc = "checks" =>
            got = asked.opts /\ SubSeq(argv, optind, Len(argv)) = asked.rest
    BY DEF ParseInv, ScanInv
  <2> QED
    BY <2>1, <2>2, <2>3 DEF ParsedAsWritten
<1> QED
  BY <1>1, ParseIsWhole, PTL
-----------------------------------------------------------------------------
(* What a line, or an option, does to the settings Precedence is about *)

\* Where struct options keeps a setting.
Field == [amp |-> "amplify", voices |-> "numvoices", mix |-> "mix", rate |-> "rate",
          defpan |-> "defpan"]

Setting(o, f) == o[Field[f]]

Known(o) == {"amplify", "numvoices", "mix", "rate", "defpan", "norc"} \subseteq DOMAIN o

\* The settings of r, and whether it has asked for no files.
Has(r, amp, voices, mix, rate, defpan, norc) ==
    /\ Known(r)
    /\ r.amplify = amp /\ r.numvoices = voices /\ r.mix = mix
    /\ r.rate = rate /\ r.defpan = defpan /\ r.norc = norc

LEMMA CommonLineIs ==
    ASSUME NEW o, Known(o), NEW l
    PROVE  Has(CommonLine(o, l),
               IF l.var = "amplify" THEN Number(l.val) ELSE o.amplify,
               IF l.var = "mixer_voices" THEN Number(l.val) ELSE o.numvoices,
               IF l.var = "mix" THEN Number(l.val) ELSE o.mix,
               o.rate, o.defpan, o.norc)
BY DEF CommonLine, Known, Has

LEMMA ToDriverIs ==
    ASSUME NEW o, Known(o), NEW a
    PROVE  Has(ToDriver(o, a), o.amplify, o.numvoices, o.mix, o.rate, o.defpan, o.norc)
BY DEF ToDriver, Known, Has

LEMMA ConfLineIs ==
    ASSUME NEW o, Known(o), NEW l
    PROVE  Has(ConfLine(o, l),
               IF l.var = "amplify" THEN Number(l.val) ELSE o.amplify,
               IF l.var = "mixer_voices" THEN Number(l.val) ELSE o.numvoices,
               IF l.var = "mix" THEN Number(l.val) ELSE o.mix,
               IF l.var = "srate" THEN Number(l.val) ELSE o.rate,
               IF l.var = "default_pan" THEN Number(l.val) ELSE o.defpan,
               o.norc)
<1> DEFINE common == CommonLine(o, l)
<1>1. CASE l.var \in Common
  <2>1. ConfLine(o, l) = CommonLine(o, l)
    BY <1>1 DEF ConfLine, Common
  <2>2. l.var # "srate" /\ l.var # "default_pan"
    BY <1>1 DEF Common
  <2> QED
    BY <2>1, <2>2, CommonLineIs
<1>2. CASE l.var \in {"8bit", "mono", "default_pan", "srate", "amiga", "driver", "bits", "instrument_path"}
  <2>1. CASE l.var = "8bit"
    BY <2>1 DEF ConfLine, Common, Known, Has
  <2>2. CASE l.var = "mono"
    BY <2>2 DEF ConfLine, Common, Known, Has
  <2>3. CASE l.var = "default_pan"
    BY <2>3 DEF ConfLine, Common, Known, Has
  <2>4. CASE l.var = "srate"
    BY <2>4 DEF ConfLine, Common, Known, Has
  <2>5. CASE l.var = "amiga"
    BY <2>5 DEF ConfLine, Common, Known, Has
  <2>6. CASE l.var = "driver"
    BY <2>6 DEF ConfLine, Common, Known, Has
  <2>7. CASE l.var = "bits"
    BY <2>7 DEF ConfLine, Common, Known, Has
  <2>8. CASE l.var = "instrument_path"
    BY <2>8 DEF ConfLine, Common, Known, Has
  <2> QED
    BY <1>2, <2>1, <2>2, <2>3, <2>4, <2>5, <2>6, <2>7, <2>8
<1>3. CASE l.var \notin Common \cup {"8bit", "mono", "default_pan", "srate", "amiga", "driver", "bits",
                                     "instrument_path"}
  <2>1. ConfLine(o, l) = ToDriver(common, <<l.var, "=">> \o l.val)
    BY <1>3 DEF ConfLine
  <2>2. Has(common,
            IF l.var = "amplify" THEN Number(l.val) ELSE o.amplify,
            IF l.var = "mixer_voices" THEN Number(l.val) ELSE o.numvoices,
            IF l.var = "mix" THEN Number(l.val) ELSE o.mix,
            o.rate, o.defpan, o.norc)
    BY CommonLineIs
  <2> HIDE DEF common
  <2>3. Has(ConfLine(o, l), common.amplify, common.numvoices, common.mix, common.rate,
            common.defpan, common.norc)
    BY <2>1, <2>2, ToDriverIs DEF Has
  <2>4. l.var # "srate" /\ l.var # "default_pan"
    BY <1>3
  <2> QED
    BY <2>2, <2>3, <2>4 DEF Has
<1> QED
  BY <1>1, <1>2, <1>3

LEMMA AppliedIs ==
    ASSUME NEW o, Known(o), NEW c \in Accepted, NEW a
    PROVE  Has(Applied(o, c, a),
               IF c = "a" THEN Number(a) ELSE o.amplify,
               IF c = "NUMVOICES" THEN Number(a) ELSE o.numvoices,
               IF c = "P" THEN Between(Number(a), 0, 100) ELSE o.mix,
               IF c = "f" THEN Number(a) ELSE o.rate,
               IF c = "p" THEN Between(Number(a), 0, 100) ELSE o.defpan,
               IF c = "NORC" THEN 1 ELSE o.norc)
<1>1. CASE c = "D"
  <2>1. Applied(o, c, a) = ToDriver(o, a)
    BY <1>1 DEF Applied
  <2> QED
    BY <1>1, <2>1, ToDriverIs
<1>2. CASE c \in {"a", "NUMVOICES", "P", "f", "p", "NORC"}
  BY ZenonT(40), <1>2 DEF Applied, Known, Has
<1>3. CASE c \in {"A", "C", "c", "d", "e", "F"}
  BY <1>3 DEF Applied, Known, Has
<1>4. CASE c = "b"
  BY <1>4 DEF Applied, Bits, Known, Has
<1>5. CASE c \in {"FIXLOOP", "I", "i", "LOADONLY", "l", "LOOPALL", "m"}
  BY ZenonT(40), <1>5 DEF Applied, Known, Has
<1>6. CASE c \in {"N", "NOCMD", "o", "PROBEONLY", "q", "R"}
  BY ZenonT(40), <1>6 DEF Applied, Known, Has
<1>7. CASE c \in {"r", "s", "u", "VBLANK", "v", "Z", "z"}
  BY ZenonT(40), <1>7 DEF Applied, Known, Has
<1>10. CASE c \in {"t", "U"}
  <2>1. PICK n : n = Number(a) * 1000
    OBVIOUS
  <2>2. Applied(o, c, a) \in {[o EXCEPT !.max_time = n], [o EXCEPT !.loop_time = n]}
    BY <1>10, <2>1 DEF Applied
  <2> QED
    BY <1>10, <2>2 DEF Known, Has
<1>8. CASE c = "M"
  <2>1. PICK m : Applied(o, c, a) = [o EXCEPT !.mute = m]
    BY <1>8 DEF Applied
  <2> QED
    BY <1>8, <2>1 DEF Known, Has
<1>9. CASE c = "S"
  <2>1. PICK m : Applied(o, c, a) = [o EXCEPT !.mute = m]
    BY <1>9 DEF Applied
  <2> QED
    BY <1>9, <2>1 DEF Known, Has
<1> QED
  BY <1>1, <1>2, <1>3, <1>4, <1>5, <1>6, <1>7, <1>8, <1>9, <1>10 DEF Accepted

LEMMA NamesAre == DOMAIN Default = {"amp", "voices", "mix", "rate", "defpan"}
BY DEF Default

\* The same for a setting by its name.
LEMMA ConfLineSays ==
    ASSUME NEW o, Known(o), NEW l
    PROVE  /\ Known(ConfLine(o, l)) /\ ConfLine(o, l).norc = o.norc
           /\ \A f \in DOMAIN Default :
                 Setting(ConfLine(o, l), f) =
                     IF l.var = Variable[f] THEN Number(l.val) ELSE Setting(o, f)
<1>1. PICK r : r = ConfLine(o, l)
  OBVIOUS
<1>2. Has(r, IF l.var = "amplify" THEN Number(l.val) ELSE o.amplify,
             IF l.var = "mixer_voices" THEN Number(l.val) ELSE o.numvoices,
             IF l.var = "mix" THEN Number(l.val) ELSE o.mix,
             IF l.var = "srate" THEN Number(l.val) ELSE o.rate,
             IF l.var = "default_pan" THEN Number(l.val) ELSE o.defpan,
             o.norc)
  BY <1>1, ConfLineIs
<1>3. \A f \in DOMAIN Default : Setting(r, f) = IF l.var = Variable[f] THEN Number(l.val) ELSE Setting(o, f)
  BY <1>2, NamesAre DEF Setting, Field, Variable, Has
<1> QED
  BY <1>1, <1>2, <1>3 DEF Has

LEMMA AppliedSays ==
    ASSUME NEW o, Known(o), NEW c \in Accepted, NEW a
    PROVE  /\ Known(Applied(o, c, a))
           /\ \A f \in DOMAIN Default :
                 Setting(Applied(o, c, a), f) =
                     IF c = Option[f]
                     THEN IF f \in {"mix", "defpan"} THEN Between(Number(a), 0, 100) ELSE Number(a)
                     ELSE Setting(o, f)
<1>1. PICK r : r = Applied(o, c, a)
  OBVIOUS
<1>2. Has(r, IF c = "a" THEN Number(a) ELSE o.amplify,
             IF c = "NUMVOICES" THEN Number(a) ELSE o.numvoices,
             IF c = "P" THEN Between(Number(a), 0, 100) ELSE o.mix,
             IF c = "f" THEN Number(a) ELSE o.rate,
             IF c = "p" THEN Between(Number(a), 0, 100) ELSE o.defpan,
             IF c = "NORC" THEN 1 ELSE o.norc)
  BY <1>1, AppliedIs
<1>3. /\ Setting(r, "amp") = r.amplify /\ Setting(o, "amp") = o.amplify /\ Option["amp"] = "a"
      /\ Setting(r, "voices") = r.numvoices /\ Setting(o, "voices") = o.numvoices
      /\ Option["voices"] = "NUMVOICES"
      /\ Setting(r, "mix") = r.mix /\ Setting(o, "mix") = o.mix /\ Option["mix"] = "P"
      /\ Setting(r, "rate") = r.rate /\ Setting(o, "rate") = o.rate /\ Option["rate"] = "f"
      /\ Setting(r, "defpan") = r.defpan /\ Setting(o, "defpan") = o.defpan /\ Option["defpan"] = "p"
  BY DEF Setting, Field, Option
<1>4. \A f \in DOMAIN Default :
          Setting(r, f) = IF c = Option[f]
                          THEN IF f \in {"mix", "defpan"} THEN Between(Number(a), 0, 100) ELSE Number(a)
                          ELSE Setting(o, f)
  BY <1>2, <1>3, NamesAre DEF Has
<1> QED
  BY <1>1, <1>2, <1>4 DEF Has

\* The states parse_modconf goes through.
Parses(s) == {"o", "active", "mono"} \subseteq DOMAIN s /\ Known(s.o)

\* What a line of modules.conf that is in the module's section does.
LEMMA SectionLineIs ==
    ASSUME NEW module, NEW s, Parses(s), s.active, NEW l, l.var # "["
    PROVE  LET r == ModLine(module, s, l) IN
           /\ Parses(r)
           /\ r.active = s.active
           /\ r.mono = IF l.var = "mono" THEN get_yesno(l.val) ELSE s.mono
           /\ Has(r.o,
                  IF l.var = "amplify" THEN Number(l.val) ELSE s.o.amplify,
                  IF l.var = "mixer_voices" THEN Number(l.val) ELSE s.o.numvoices,
                  IF l.var = "mix" THEN Number(l.val) ELSE s.o.mix,
                  s.o.rate, s.o.defpan, s.o.norc)
<1> DEFINE Effect(x) ==
        Has(x, IF l.var = "amplify" THEN Number(l.val) ELSE s.o.amplify,
               IF l.var = "mixer_voices" THEN Number(l.val) ELSE s.o.numvoices,
               IF l.var = "mix" THEN Number(l.val) ELSE s.o.mix,
               s.o.rate, s.o.defpan, s.o.norc)
<1>1. CASE l.var = "mono"
  <2>1. PICK yes : yes = get_yesno(l.val)
    OBVIOUS
  <2>2. ModLine(module, s, l) = [s EXCEPT !.mono = yes]
    BY <1>1, <2>1 DEF ModLine
  <2> QED
    BY <1>1, <2>1, <2>2 DEF Parses, Has
<1>2. ASSUME l.var # "mono", NEW x, ModLine(module, s, l) = [s EXCEPT !.o = x], Effect(x)
      PROVE  LET r == ModLine(module, s, l) IN
             /\ Parses(r) /\ r.active = s.active /\ r.mono = s.mono /\ Effect(r.o)
  BY <1>2 DEF Parses, Has
<1>3. CASE l.var \in {"fixloop", "fx9bug", "vblank", "amiga"}
  <2>1. PICK n : n = Tristate(get_yesno(l.val))
    OBVIOUS
  <2>2. \E x : x \in {[s.o EXCEPT !.fixloop = n], [s.o EXCEPT !.fx9bug = n], [s.o EXCEPT !.vblank = n],
                       [s.o EXCEPT !.amiga_mixer = n]} /\ ModLine(module, s, l) = [s EXCEPT !.o = x]
    BY <1>3, <2>1 DEF ModLine
  <2>3. \A x \in {[s.o EXCEPT !.fixloop = n], [s.o EXCEPT !.fx9bug = n], [s.o EXCEPT !.vblank = n],
                  [s.o EXCEPT !.amiga_mixer = n]} : Effect(x)
    BY <1>3 DEF Parses, Has, Known
  <2>4. l.var # "mono"
    BY <1>3
  <2> HIDE DEF Effect
  <2> QED
    BY <1>2, <2>2, <2>3, <2>4 DEF Effect
<1>4. CASE l.var = "mode" /\ OneOf(l.val, Modes)
  <2>1. PICK x : x = [s.o EXCEPT !.player_mode = l.val[1]]
    OBVIOUS
  <2>2. ModLine(module, s, l) = [s EXCEPT !.o = x]
    BY <1>4, <2>1 DEF ModLine
  <2>3. Effect(x)
    BY <1>4, <2>1 DEF Parses, Has, Known
  <2> QED
    BY <1>2, <1>4, <2>2, <2>3
<1>5. CASE /\ l.var \notin {"mono", "fixloop", "fx9bug", "vblank", "amiga"}
           /\ ~(l.var = "mode" /\ OneOf(l.val, Modes))
  <2>1. ModLine(module, s, l) = [s EXCEPT !.o = CommonLine(s.o, l)]
    BY <1>5 DEF ModLine
  <2>2. Effect(CommonLine(s.o, l))
    BY CommonLineIs DEF Parses
  <2> QED
    BY <1>2, <1>5, <2>1, <2>2
<1> QED
  BY <1>1, <1>3, <1>4, <1>5

\* The line l of modules.conf takes the state s to r.
LineEffect(module, l, s, r) ==
    /\ Parses(r) /\ r.o.norc = s.o.norc
    /\ r.active = IF l.var = "[" THEN l.val = module ELSE s.active
    /\ l.var = "[" \/ ~s.active =>
           r.mono = s.mono /\ \A f \in DOMAIN Default : Setting(r.o, f) = Setting(s.o, f)
    /\ l.var # "[" /\ s.active =>
           /\ r.mono = IF l.var = "mono" THEN get_yesno(l.val) ELSE s.mono
           /\ \A f \in DOMAIN Default :
                 Setting(r.o, f) = IF l.var = Variable[f] /\ f \notin {"rate", "defpan"}
                                   THEN Number(l.val) ELSE Setting(s.o, f)

LEMMA ModLineSays ==
    ASSUME NEW module, NEW s, Parses(s), NEW l
    PROVE  LineEffect(module, l, s, ModLine(module, s, l))
<1>1. CASE l.var = "["
  <2>1. PICK b : b = (l.val = module)
    OBVIOUS
  <2>2. ModLine(module, s, l) = [s EXCEPT !.active = b]
    BY <1>1, <2>1 DEF ModLine
  <2> QED
    BY <1>1, <2>1, <2>2 DEF Parses, LineEffect
<1>2. CASE l.var # "[" /\ ~s.active
  <2>1. ModLine(module, s, l) = s
    BY <1>2 DEF ModLine
  <2> QED
    BY <1>2, <2>1 DEF LineEffect
<1>3. CASE l.var # "[" /\ s.active
  <2>1. PICK r : r = ModLine(module, s, l)
    OBVIOUS
  <2>2. /\ Parses(r) /\ r.active = s.active
        /\ r.mono = IF l.var = "mono" THEN get_yesno(l.val) ELSE s.mono
        /\ Has(r.o,
               IF l.var = "amplify" THEN Number(l.val) ELSE s.o.amplify,
               IF l.var = "mixer_voices" THEN Number(l.val) ELSE s.o.numvoices,
               IF l.var = "mix" THEN Number(l.val) ELSE s.o.mix,
               s.o.rate, s.o.defpan, s.o.norc)
    BY ZenonT(40), <1>3, <2>1, SectionLineIs
  <2>3. \A f \in DOMAIN Default :
            Setting(r.o, f) = IF l.var = Variable[f] /\ f \notin {"rate", "defpan"}
                              THEN Number(l.val) ELSE Setting(s.o, f)
    BY <2>2, NamesAre DEF Setting, Field, Variable, Has
  <2> QED
    BY <1>3, <2>1, <2>2, <2>3 DEF Has, LineEffect
<1> QED
  BY <1>1, <1>2, <1>3

-----------------------------------------------------------------------------
(* What is said last *)

\* The last of the numbers in P up to n, or 0.
LastIn(P, n) == IF P \cap (1 .. n) = {} THEN 0 ELSE Max(P \cap (1 .. n))

LEMMA LastStep ==
    ASSUME NEW P, NEW n \in Nat
    PROVE  /\ LastIn(P, 0) = 0
           /\ LastIn(P, n + 1) = IF n + 1 \in P THEN n + 1 ELSE LastIn(P, n)
           /\ P \cap (1 .. n) # {} => LastIn(P, n) \in P \cap (1 .. n)
<1>1. LastIn(P, 0) = 0
  BY DEF LastIn
<1>2. ASSUME n + 1 \in P PROVE LastIn(P, n + 1) = n + 1
  <2> DEFINE T == P \cap (1 .. n + 1)
  <2>1. T \subseteq Nat /\ n + 1 \in T /\ \A y \in T : y <= n + 1
    BY <1>2
  <2>2. Max(T) = n + 1
    <3>1. PICK x \in T : x = n + 1 /\ \A y \in T : y <= x
      BY <2>1
    <3> HIDE DEF T
    <3>2. Max(T) = x
      BY <2>1, <3>1, MaxOf
    <3> QED
      BY <3>1, <3>2
  <2>3. LastIn(P, n + 1) = IF T = {} THEN 0 ELSE Max(T)
    BY DEF LastIn
  <2>4. T # {}
    BY <2>1
  <2> HIDE DEF T
  <2> QED
    BY <2>2, <2>3, <2>4
<1>3. ASSUME n + 1 \notin P PROVE LastIn(P, n + 1) = LastIn(P, n)
  <2>1. P \cap (1 .. n + 1) = P \cap (1 .. n)
    BY <1>3
  <2> QED
    BY <1>3, <2>1 DEF LastIn
<1>4. ASSUME P \cap (1 .. n) # {} PROVE LastIn(P, n) \in P \cap (1 .. n)
  <2> DEFINE T == {j \in Nat : n - j \in P \cap (1 .. n)}
  <2>1. T \subseteq Nat /\ T # {}
    <3>1. PICK k \in P \cap (1 .. n) : TRUE
      BY <1>4
    <3>2. n - k \in Nat /\ n - (n - k) = k
      BY <3>1
    <3> QED
      BY <3>1, <3>2
  <2>2. PICK m \in T : \A y \in T : m <= y
    <3> HIDE DEF T
    <3> QED
      BY <2>1, LeastElement
  <2>3. PICK x \in P \cap (1 .. n) : x = n - m
    BY <2>2
  <2>4. \A y \in P \cap (1 .. n) : y <= x
    <3> TAKE y \in P \cap (1 .. n)
    <3>1. n - y \in T
      <4>1. n - y \in Nat /\ n - (n - y) = y
        OBVIOUS
      <4> QED
        BY <4>1
    <3>2. m <= n - y /\ m \in Nat /\ y \in Nat
      BY <2>2, <3>1
    <3> QED
      BY <2>3, <3>2
  <2>5. P \cap (1 .. n) \subseteq Nat
    OBVIOUS
  <2>6. PICK U : U = P \cap (1 .. n)
    OBVIOUS
  <2>7. Max(U) = x
    BY <2>3, <2>4, <2>5, <2>6, MaxOf
  <2> QED
    BY <1>4, <2>3, <2>6, <2>7 DEF LastIn
<1> QED
  BY <1>1, <1>2, <1>3, <1>4

\* What the lines in P say last up to line n.
LinesSay(ls, P, n, otherwise) ==
    IF LastIn(P, n) = 0 THEN otherwise ELSE Number(ls[LastIn(P, n)].val)

LEMMA LinesNone == ASSUME NEW ls, NEW P, NEW x PROVE LinesSay(ls, P, 0, x) = x
<1>1. LastIn(P, 0) = 0
  <2>1. P \cap (1 .. 0) = {}
    OBVIOUS
  <2> QED
    BY <2>1 DEF LastIn
<1> QED
  BY <1>1 DEF LinesSay

LEMMA LinesStep ==
    ASSUME NEW ls, NEW P, NEW n \in Nat, NEW x
    PROVE  LinesSay(ls, P, n + 1, x) =
               IF n + 1 \in P THEN Number(ls[n + 1].val) ELSE LinesSay(ls, P, n, x)
<1>1. n + 1 # 0
  OBVIOUS
<1> QED
  BY <1>1, LastStep DEF LinesSay

-----------------------------------------------------------------------------
(* xmp.conf *)

LEMMA LinesAre ==
    ASSUME NEW f, f \in File
    PROVE  Lines(f) \in Seq([var : STRING, val : Seq(STRING)]) /\ Len(Lines(f)) \in Nat
           /\ DOMAIN Lines(f) = 1 .. Len(Lines(f))
<1> DEFINE Line == [var : STRING, val : Seq(STRING)]
<1>1. f.lines \in Seq(Line)
  BY DEF File
<1> HIDE DEF Line
<1>2. CASE f.ended \/ f.lines = <<>>
  BY <1>1, <1>2 DEF Lines, Line
<1>3. CASE ~(f.ended \/ f.lines = <<>>)
  <2>1. Lines(f) = SubSeq(f.lines, 1, Len(f.lines) - 1)
    BY <1>3 DEF Lines, Front
  <2>2. Len(f.lines) - 1 \in 0 .. Len(f.lines)
    BY <1>1, <1>3
  <2>3. Lines(f) \in Seq(Line)
    BY <1>1, <2>1, <2>2, PartIs
  <2> QED
    BY <2>3 DEF Line
<1> QED
  BY <1>2, <1>3

\* The settings after each line.
ConfRead(o, i, after) ==
    /\ after[0] = o
    /\ \A n \in 0 .. Len(Lines(ConfFile(i))) - 1 :
          after[n + 1] = ConfLine(after[n], Lines(ConfFile(i))[n + 1])
    /\ read_config(o, i) = after[Len(Lines(ConfFile(i)))]

\* The loop over the lines is well defined.
LEMMA ConfSteps ==
    ASSUME NEW o, NEW i, Len(Lines(ConfFile(i))) \in Nat
    PROVE  \E after : ConfRead(o, i, after)
<1> DEFINE ls == Lines(ConfFile(i))
           N == Len(Lines(ConfFile(i)))
           E(n, w) == ConfLine(w, Lines(ConfFile(i))[n])
           Solves(h, n) == h = [k \in 0 .. n |-> IF k = 0 THEN o ELSE E(k, h[k - 1])]
           T == {n \in Nat : \E h : Solves(h, n)}
<1> HIDE DEF E, N
<1>1. 0 \in T
  <2> DEFINE h == [k \in 0 .. 0 |-> o]
  <2>1. Solves(h, 0)
    OBVIOUS
  <2> QED
    BY <2>1
<1>2. ASSUME NEW n \in Nat, n \in T PROVE n + 1 \in T
  <2>1. PICK h : Solves(h, n)
    BY <1>2
  <2> DEFINE f == [k \in 0 .. n + 1 |-> IF k = n + 1 THEN E(n + 1, h[n]) ELSE h[k]]
  <2>2. \A k \in 0 .. n + 1 : f[k] = IF k = 0 THEN o ELSE E(k, f[k - 1])
    <3> TAKE k \in 0 .. n + 1
    <3>1. CASE k = n + 1
      BY <3>1
    <3>2. CASE k # n + 1
      <4>1. h[k] = IF k = 0 THEN o ELSE E(k, h[k - 1])
        BY <2>1, <3>2
      <4> QED
        BY <3>2, <4>1
    <3> QED
      BY <3>1, <3>2
  <2>3. Solves(f, n + 1)
    <3>1. f = [k \in 0 .. n + 1 |-> f[k]]
      OBVIOUS
    <3> HIDE DEF f
    <3> QED
      BY <2>2, <3>1
  <2>4. \E g : Solves(g, n + 1)
    <3> HIDE DEF f, Solves
    <3> QED
      BY <2>3
  <2> QED
    BY <2>4
<1>3. \A n \in Nat : n \in T
  <2> HIDE DEF T
  <2> QED
    BY <1>1, <1>2, InductionOn
<1>4. N \in Nat
  BY DEF N
<1>5. \E h : Solves(h, N)
  BY <1>3, <1>4
<1> DEFINE after == CHOOSE h : Solves(h, N)
<1>6. Solves(after, N)
  BY <1>5
<1>7. read_config(o, i) = after[N]
  BY DEF read_config, N, E
<1> HIDE DEF after
<1>8. after[0] = o
  BY <1>4, <1>6
<1>9. \A n \in 0 .. N - 1 : after[n + 1] = ConfLine(after[n], ls[n + 1])
  <2> TAKE n \in 0 .. N - 1
  <2>1. after[n + 1] = E(n + 1, after[n])
    BY <1>4, <1>6
  <2> QED
    BY <2>1 DEF E
<1> QED
  BY <1>7, <1>8, <1>9 DEF N, ConfRead

\* The lines of xmp.conf about the setting f.
ConfAbout(i, f) == {j \in DOMAIN Lines(ConfFile(i)) : Lines(ConfFile(i))[j].var = Variable[f]}

LEMMA ReadConfigIs ==
    ASSUME NEW o, Known(o), NEW i, ConfFile(i) \in File
    PROVE  /\ Known(read_config(o, i)) /\ read_config(o, i).norc = o.norc
           /\ \A f \in DOMAIN Default :
                 Setting(read_config(o, i), f) =
                     LinesSay(Lines(ConfFile(i)), ConfAbout(i, f), Len(Lines(ConfFile(i))), Setting(o, f))
<1>0. Len(Lines(ConfFile(i))) \in Nat /\ DOMAIN Lines(ConfFile(i)) = 1 .. Len(Lines(ConfFile(i)))
  BY LinesAre
<1>a. PICK N \in Nat : N = Len(Lines(ConfFile(i)))
  BY <1>0
<1>1. PICK ls : ls = Lines(ConfFile(i)) /\ N = Len(Lines(ConfFile(i))) /\ DOMAIN ls = 1 .. N
  BY <1>0, <1>a
<1>2. PICK after : ConfRead(o, i, after)
  BY <1>1, ConfSteps
<1> DEFINE Good(s, n) == /\ Known(s) /\ s.norc = o.norc
                         /\ \A f \in DOMAIN Default :
                               Setting(s, f) = LinesSay(ls, ConfAbout(i, f), n, Setting(o, f))
           T == {n \in Nat : Good(after[n], n)}
<1>3. 0 \in T
  <2>1. after[0] = o
    BY <1>2 DEF ConfRead
  <2>2. \A f : LinesSay(ls, ConfAbout(i, f), 0, Setting(o, f)) = Setting(o, f)
    BY LinesNone
  <2> QED
    BY <2>1, <2>2
<1>4. ASSUME NEW n \in 0 .. N - 1, n \in T PROVE n + 1 \in T
  <2>1. PICK l : l = ls[n + 1] /\ after[n + 1] = ConfLine(after[n], l)
    BY <1>1, <1>2, <1>4 DEF ConfRead
  <2>2. n \in Nat /\ n + 1 \in Nat /\ n + 1 \in 1 .. N
    BY <1>1
  <2>3. Good(after[n], n)
    BY <1>4
  <2>4. /\ Known(after[n + 1]) /\ after[n + 1].norc = o.norc
        /\ \A f \in DOMAIN Default :
              Setting(after[n + 1], f) =
                  IF l.var = Variable[f] THEN Number(l.val) ELSE Setting(after[n], f)
    <3>1. PICK s : s = after[n] /\ Known(s) /\ s.norc = o.norc
      BY <2>3
    <3>2. /\ Known(ConfLine(s, l)) /\ ConfLine(s, l).norc = s.norc
          /\ \A f \in DOMAIN Default :
                Setting(ConfLine(s, l), f) = IF l.var = Variable[f] THEN Number(l.val) ELSE Setting(s, f)
      BY ZenonT(40), <3>1, ConfLineSays
    <3> QED
      BY <2>1, <3>1, <3>2
  <2>5. ASSUME NEW f \in DOMAIN Default
        PROVE  Setting(after[n + 1], f) = LinesSay(ls, ConfAbout(i, f), n + 1, Setting(o, f))
    <3>1. n + 1 \in ConfAbout(i, f) <=> l.var = Variable[f]
      BY <1>1, <2>1, <2>2 DEF ConfAbout
    <3>2. LinesSay(ls, ConfAbout(i, f), n + 1, Setting(o, f)) =
              IF n + 1 \in ConfAbout(i, f) THEN Number(l.val)
              ELSE LinesSay(ls, ConfAbout(i, f), n, Setting(o, f))
      <4>1. PICK P, x : P = ConfAbout(i, f) /\ x = Setting(o, f)
        OBVIOUS
      <4>2. \A m \in Nat : LinesSay(ls, P, m + 1, x) =
                IF m + 1 \in P THEN Number(ls[m + 1].val) ELSE LinesSay(ls, P, m, x)
        BY LinesStep
      <4>3. LinesSay(ls, P, n + 1, x) =
                IF n + 1 \in P THEN Number(ls[n + 1].val) ELSE LinesSay(ls, P, n, x)
        BY <2>2, <4>2
      <4> QED
        BY <2>1, <4>1, <4>3
    <3> QED
      BY <2>3, <2>4, <3>1, <3>2
  <2>6. Good(after[n + 1], n + 1)
    BY <2>4, <2>5
  <2> HIDE DEF Good
  <2> QED
    BY <2>2, <2>6
<1>5. N \in T
  <2>1. \A n \in 0 .. N : n \in T
    <3> HIDE DEF T
    <3> QED
      BY <1>1, <1>3, <1>4, InductionUpTo
  <2> QED
    BY <1>1, <2>1
<1>6. read_config(o, i) = after[N]
  BY <1>1, <1>2 DEF ConfRead
<1> QED
  BY <1>1, <1>5, <1>6

-----------------------------------------------------------------------------
(* modules.conf *)

\* The last section before line n + 1 is the module's.
Active(ls, n, module) ==
    \E i \in 1 .. n : /\ ls[i].var = "["
                     /\ ls[i].val = module
                     /\ \A k \in i + 1 .. n : ls[k].var # "["

LEMMA ActiveStep ==
    ASSUME NEW ls, NEW n \in Nat, NEW module
    PROVE  /\ ls[n + 1].var = "[" => (Active(ls, n + 1, module) <=> ls[n + 1].val = module)
           /\ ls[n + 1].var # "[" => (Active(ls, n + 1, module) <=> Active(ls, n, module))
           /\ ls[n + 1].var # "[" => (InSection(ls, n + 1, module) <=> Active(ls, n, module))
<1>1. ASSUME ls[n + 1].var = "[", Active(ls, n + 1, module) PROVE ls[n + 1].val = module
  <2>1. PICK i \in 1 .. n + 1 : /\ ls[i].var = "[" /\ ls[i].val = module
                                /\ \A k \in i + 1 .. n + 1 : ls[k].var # "["
    BY <1>1 DEF Active
  <2>2. CASE i = n + 1
    BY <2>1, <2>2
  <2>3. CASE i # n + 1
    <3>1. n + 1 \in i + 1 .. n + 1
      BY <2>3
    <3> QED
      BY <1>1, <2>1, <3>1
  <2> QED
    BY <2>2, <2>3
<1>2. ASSUME ls[n + 1].var = "[", ls[n + 1].val = module PROVE Active(ls, n + 1, module)
  <2>1. n + 1 \in 1 .. n + 1 /\ \A k \in (n + 1) + 1 .. n + 1 : ls[k].var # "["
    OBVIOUS
  <2> QED
    BY <1>2, <2>1 DEF Active
<1>3. ASSUME ls[n + 1].var # "[", Active(ls, n + 1, module) PROVE Active(ls, n, module)
  <2>1. PICK i \in 1 .. n + 1 : /\ ls[i].var = "[" /\ ls[i].val = module
                                /\ \A k \in i + 1 .. n + 1 : ls[k].var # "["
    BY <1>3 DEF Active
  <2>2. i \in 1 .. n /\ \A k \in i + 1 .. n : ls[k].var # "["
    BY <1>3, <2>1
  <2> QED
    BY <2>1, <2>2 DEF Active
<1>4. ASSUME ls[n + 1].var # "[", Active(ls, n, module)
      PROVE  Active(ls, n + 1, module) /\ InSection(ls, n + 1, module)
  <2>1. PICK i \in 1 .. n : /\ ls[i].var = "[" /\ ls[i].val = module
                            /\ \A k \in i + 1 .. n : ls[k].var # "["
    BY <1>4 DEF Active
  <2>2. i \in 1 .. n + 1 /\ i \in 1 .. (n + 1) - 1
    OBVIOUS
  <2>3. \A k \in i + 1 .. n + 1 : ls[k].var # "["
    <3> TAKE k \in i + 1 .. n + 1
    <3>1. CASE k = n + 1
      BY <1>4, <3>1
    <3>2. CASE k # n + 1
      <4>1. k \in i + 1 .. n
        BY <3>2
      <4> QED
        BY <2>1, <4>1
    <3> QED
      BY <3>1, <3>2
  <2> QED
    BY <2>1, <2>2, <2>3 DEF Active, InSection
<1>5. ASSUME InSection(ls, n + 1, module) PROVE Active(ls, n, module)
  <2>1. PICK i \in 1 .. (n + 1) - 1 : /\ ls[i].var = "[" /\ ls[i].val = module
                                      /\ \A k \in i + 1 .. n + 1 : ls[k].var # "["
    BY <1>5 DEF InSection
  <2>2. i \in 1 .. n /\ \A k \in i + 1 .. n : ls[k].var # "["
    BY <2>1
  <2> QED
    BY <2>1, <2>2 DEF Active
<1> QED
  BY <1>1, <1>2, <1>3, <1>4, <1>5

\* What the lines in P say last of "mono".
MonoSaid(ls, P, n) == LastIn(P, n) # 0 /\ get_yesno(ls[LastIn(P, n)].val)

LEMMA MonoNone == ASSUME NEW ls, NEW P PROVE ~MonoSaid(ls, P, 0)
<1>1. LastIn(P, 0) = 0
  <2>1. P \cap (1 .. 0) = {}
    OBVIOUS
  <2> QED
    BY <2>1 DEF LastIn
<1> QED
  BY <1>1 DEF MonoSaid

LEMMA MonoStep ==
    ASSUME NEW ls, NEW P, NEW n \in Nat
    PROVE  /\ n + 1 \in P => (MonoSaid(ls, P, n + 1) <=> get_yesno(ls[n + 1].val))
           /\ n + 1 \notin P => (MonoSaid(ls, P, n + 1) <=> MonoSaid(ls, P, n))
<1>1. n + 1 # 0
  OBVIOUS
<1> QED
  BY <1>1, LastStep DEF MonoSaid

\* The states after each line.
ModParsed(o, file, module, after) ==
    /\ after[0] = [o |-> o, active |-> FALSE, mono |-> FALSE]
    /\ \A n \in 0 .. Len(Lines(file)) - 1 :
          after[n + 1] = ModLine(module, after[n], Lines(file)[n + 1])
    /\ LET end == after[Len(Lines(file))] IN
       parse_modconf(o, file, module) = IF end.mono THEN [end.o EXCEPT !.mix = 0] ELSE end.o

\* The loop over the lines is well defined.
LEMMA ModSteps ==
    ASSUME NEW o, NEW file, NEW module, Len(Lines(file)) \in Nat
    PROVE  \E after : ModParsed(o, file, module, after)
<1> DEFINE N == Len(Lines(file))
           base == [o |-> o, active |-> FALSE, mono |-> FALSE]
           E(n, w) == ModLine(module, w, Lines(file)[n])
           Solves(h, n) == h = [k \in 0 .. n |-> IF k = 0 THEN base ELSE E(k, h[k - 1])]
           T == {n \in Nat : \E h : Solves(h, n)}
<1> HIDE DEF E, N, base
<1>1. 0 \in T
  <2> DEFINE h == [k \in 0 .. 0 |-> base]
  <2>1. Solves(h, 0)
    OBVIOUS
  <2> QED
    BY <2>1
<1>2. ASSUME NEW n \in Nat, n \in T PROVE n + 1 \in T
  <2>1. PICK h : Solves(h, n)
    BY <1>2
  <2> DEFINE f == [k \in 0 .. n + 1 |-> IF k = n + 1 THEN E(n + 1, h[n]) ELSE h[k]]
  <2>2. \A k \in 0 .. n + 1 : f[k] = IF k = 0 THEN base ELSE E(k, f[k - 1])
    <3> TAKE k \in 0 .. n + 1
    <3>1. CASE k = n + 1
      BY <3>1
    <3>2. CASE k # n + 1
      <4>1. h[k] = IF k = 0 THEN base ELSE E(k, h[k - 1])
        BY <2>1, <3>2
      <4> QED
        BY <3>2, <4>1
    <3> QED
      BY <3>1, <3>2
  <2>3. Solves(f, n + 1)
    <3>1. f = [k \in 0 .. n + 1 |-> f[k]]
      OBVIOUS
    <3> HIDE DEF f
    <3> QED
      BY <2>2, <3>1
  <2>4. \E g : Solves(g, n + 1)
    <3> HIDE DEF f, Solves
    <3> QED
      BY <2>3
  <2> QED
    BY <2>4
<1>3. \A n \in Nat : n \in T
  <2> HIDE DEF T
  <2> QED
    BY <1>1, <1>2, InductionOn
<1>4. N \in Nat
  BY DEF N
<1>5. \E h : Solves(h, N)
  BY <1>3, <1>4
<1> DEFINE after == CHOOSE h : Solves(h, N)
<1>6. Solves(after, N)
  BY <1>5
<1>7. parse_modconf(o, file, module) =
          IF after[N].mono THEN [after[N].o EXCEPT !.mix = 0] ELSE after[N].o
  BY DEF parse_modconf, N, E, base
<1> HIDE DEF after
<1>8. after[0] = base
  BY <1>4, <1>6
<1>9. \A n \in 0 .. N - 1 : after[n + 1] = E(n + 1, after[n])
  BY <1>4, <1>6
<1> QED
  BY <1>7, <1>8, <1>9 DEF N, E, base, ModParsed

\* The lines about the variable v in the module's sections.
ModAbout(file, module, v) ==
    {j \in DOMAIN Lines(file) : Lines(file)[j].var = v /\ InSection(Lines(file), j, module)}

\* What the first n lines make of the settings x.
ModSays(file, module, f, n, x) ==
    IF f \in {"rate", "defpan"} THEN x
    ELSE LinesSay(Lines(file), ModAbout(file, module, Variable[f]), n, x)

\* The state s after n lines, from the options o.
ModGood(o, file, module, s, n) ==
    /\ Parses(s) /\ s.o.norc = o.norc
    /\ s.active <=> Active(Lines(file), n, module)
    /\ s.mono <=> MonoSaid(Lines(file), ModAbout(file, module, "mono"), n)
    /\ \A f \in DOMAIN Default : Setting(s.o, f) = ModSays(file, module, f, n, Setting(o, f))

LEMMA ModGoodInit ==
    ASSUME NEW o, Known(o), NEW file, NEW module
    PROVE  ModGood(o, file, module, [o |-> o, active |-> FALSE, mono |-> FALSE], 0)
<1>1. ~Active(Lines(file), 0, module)
  BY DEF Active
<1>2. ~MonoSaid(Lines(file), ModAbout(file, module, "mono"), 0)
  BY MonoNone
<1>3. \A f : ModSays(file, module, f, 0, Setting(o, f)) = Setting(o, f)
  BY LinesNone DEF ModSays
<1>4. PICK s : s = [o |-> o, active |-> FALSE, mono |-> FALSE]
  OBVIOUS
<1>5. Parses(s) /\ s.o = o /\ ~s.active /\ ~s.mono
  BY <1>4 DEF Parses
<1>6. ModGood(o, file, module, s, 0)
  BY <1>1, <1>2, <1>3, <1>5 DEF ModGood
<1> QED
  BY <1>4, <1>6

LEMMA ModGoodStep ==
    ASSUME NEW o, NEW file, NEW module, NEW s, NEW n \in Nat, n + 1 \in DOMAIN Lines(file),
           ModGood(o, file, module, s, n)
    PROVE  ModGood(o, file, module, ModLine(module, s, Lines(file)[n + 1]), n + 1)
<1> DEFINE ls == Lines(file)
           About(v) == ModAbout(file, module, v)
<1>1. PICK l : l = ls[n + 1]
  OBVIOUS
<1>2. PICK r : r = ModLine(module, s, l)
  OBVIOUS
<1>3. /\ Parses(r) /\ r.o.norc = s.o.norc
      /\ r.active = IF l.var = "[" THEN l.val = module ELSE s.active
      /\ l.var = "[" \/ ~s.active =>
             r.mono = s.mono /\ \A f \in DOMAIN Default : Setting(r.o, f) = Setting(s.o, f)
      /\ l.var # "[" /\ s.active =>
             /\ r.mono = IF l.var = "mono" THEN get_yesno(l.val) ELSE s.mono
             /\ \A f \in DOMAIN Default :
                   Setting(r.o, f) =
                       IF l.var = Variable[f] /\ f \notin {"rate", "defpan"}
                       THEN Number(l.val) ELSE Setting(s.o, f)
  <2>1. Parses(s)
    BY DEF ModGood
  <2>2. LineEffect(module, l, s, ModLine(module, s, l))
    BY <2>1, ModLineSays
  <2> QED
    BY <1>2, <2>2 DEF LineEffect
<1>4. /\ l.var = "[" => (Active(ls, n + 1, module) <=> l.val = module)
      /\ l.var # "[" => (Active(ls, n + 1, module) <=> Active(ls, n, module))
      /\ l.var # "[" => (InSection(ls, n + 1, module) <=> Active(ls, n, module))
  BY <1>1, ActiveStep
<1>5. \A v : v # "[" => (n + 1 \in About(v) <=> l.var = v /\ l.var # "[" /\ s.active)
  BY <1>1, <1>4 DEF ModAbout, ModGood
<1>6. r.active <=> Active(ls, n + 1, module)
  BY <1>3, <1>4 DEF ModGood
<1>7. \A v : /\ n + 1 \in About(v) => (MonoSaid(ls, About(v), n + 1) <=> get_yesno(l.val))
             /\ n + 1 \notin About(v) => (MonoSaid(ls, About(v), n + 1) <=> MonoSaid(ls, About(v), n))
  BY <1>1, MonoStep
<1>8. r.mono <=> MonoSaid(ls, About("mono"), n + 1)
  <2>1. n + 1 \in About("mono") <=> l.var = "mono" /\ l.var # "[" /\ s.active
    BY <1>5
  <2>2. s.mono <=> MonoSaid(ls, About("mono"), n)
    BY DEF ModGood
  <2>3. /\ n + 1 \in About("mono") => (MonoSaid(ls, About("mono"), n + 1) <=> get_yesno(l.val))
        /\ n + 1 \notin About("mono") =>
               (MonoSaid(ls, About("mono"), n + 1) <=> MonoSaid(ls, About("mono"), n))
    BY <1>7
  <2> HIDE DEF ls, About
  <2>4. CASE l.var = "[" \/ ~s.active
    BY <1>3, <2>1, <2>2, <2>3, <2>4
  <2>5. CASE l.var # "[" /\ s.active /\ l.var = "mono"
    BY <1>3, <2>1, <2>3, <2>5
  <2>6. CASE l.var # "[" /\ s.active /\ l.var # "mono"
    BY <1>3, <2>1, <2>2, <2>3, <2>6
  <2> QED
    BY <2>4, <2>5, <2>6
<1>9. ASSUME NEW f \in DOMAIN Default
      PROVE  Setting(r.o, f) = ModSays(file, module, f, n + 1, Setting(o, f))
  <2>1. Setting(s.o, f) = ModSays(file, module, f, n, Setting(o, f))
    BY DEF ModGood
  <2>2. Setting(r.o, f) = IF l.var # "[" /\ s.active /\ l.var = Variable[f] /\ f \notin {"rate", "defpan"}
                          THEN Number(l.val) ELSE Setting(s.o, f)
    BY <1>3
  <2>3. CASE f \in {"rate", "defpan"}
    BY <2>1, <2>2, <2>3 DEF ModSays
  <2>4. CASE f \notin {"rate", "defpan"}
    <3>1. Variable[f] # "["
      BY NamesAre DEF Variable
    <3>2. PICK P, x : P = About(Variable[f]) /\ x = Setting(o, f)
      OBVIOUS
    <3>3. n + 1 \in P <=> l.var # "[" /\ s.active /\ l.var = Variable[f]
      BY <1>5, <3>1, <3>2
    <3>4. \A m \in Nat : LinesSay(ls, P, m + 1, x) =
              IF m + 1 \in P THEN Number(ls[m + 1].val) ELSE LinesSay(ls, P, m, x)
      BY LinesStep
    <3>5. LinesSay(ls, P, n + 1, x) = IF n + 1 \in P THEN Number(l.val) ELSE LinesSay(ls, P, n, x)
      BY <1>1, <3>4
    <3>6. /\ ModSays(file, module, f, n + 1, Setting(o, f)) = LinesSay(ls, P, n + 1, x)
          /\ ModSays(file, module, f, n, Setting(o, f)) = LinesSay(ls, P, n, x)
      BY <2>4, <3>2 DEF ModSays
    <3> HIDE DEF ls, About
    <3> QED
      BY <2>1, <2>2, <2>4, <3>3, <3>5, <3>6
  <2> QED
    BY <2>3, <2>4
<1>10. r.o.norc = o.norc
  BY <1>3 DEF ModGood
<1>11. ModGood(o, file, module, r, n + 1)
  BY <1>3, <1>6, <1>8, <1>9, <1>10 DEF ModGood
<1> QED
  BY <1>1, <1>2, <1>11

\* What the whole file makes of a setting.
FileSays(file, module, f, x) ==
    IF f = "mix" /\ MonoSaid(Lines(file), ModAbout(file, module, "mono"), Len(Lines(file))) THEN 0
    ELSE ModSays(file, module, f, Len(Lines(file)), x)

LEMMA ParseModconfIs ==
    ASSUME NEW o, Known(o), NEW file \in File, NEW module
    PROVE  /\ Known(parse_modconf(o, file, module)) /\ parse_modconf(o, file, module).norc = o.norc
           /\ \A f \in DOMAIN Default :
                 Setting(parse_modconf(o, file, module), f) = FileSays(file, module, f, Setting(o, f))
<1>1. Len(Lines(file)) \in Nat /\ DOMAIN Lines(file) = 1 .. Len(Lines(file))
  BY LinesAre
<1>2. PICK N \in Nat : N = Len(Lines(file)) /\ DOMAIN Lines(file) = 1 .. N
  BY <1>1
<1>3. PICK after : ModParsed(o, file, module, after)
  BY <1>1, ModSteps
<1> DEFINE T == {n \in Nat : ModGood(o, file, module, after[n], n)}
<1>4. 0 \in T
  BY <1>3, ModGoodInit DEF ModParsed
<1>5. ASSUME NEW n \in 0 .. N - 1, n \in T PROVE n + 1 \in T
  <2>1. n \in Nat /\ n + 1 \in Nat /\ n + 1 \in DOMAIN Lines(file)
    BY <1>2
  <2>2. after[n + 1] = ModLine(module, after[n], Lines(file)[n + 1])
    BY <1>2, <1>3 DEF ModParsed
  <2>3. PICK s : s = after[n] /\ ModGood(o, file, module, s, n)
    BY <1>5
  <2>4. ModGood(o, file, module, ModLine(module, s, Lines(file)[n + 1]), n + 1)
    BY <2>1, <2>3, ModGoodStep
  <2> QED
    BY <2>1, <2>2, <2>3, <2>4
<1>6. N \in T
  <2>1. \A n \in 0 .. N : n \in T
    <3> HIDE DEF T
    <3> QED
      BY <1>2, <1>4, <1>5, InductionUpTo
  <2> QED
    BY <1>2, <2>1
<1>7. PICK end : end = after[N] /\ ModGood(o, file, module, end, N)
  BY <1>6
<1>8. PICK r : /\ r = parse_modconf(o, file, module)
               /\ r = IF end.mono THEN [end.o EXCEPT !.mix = 0] ELSE end.o
  BY <1>2, <1>3, <1>7 DEF ModParsed
<1>9. /\ Known(r) /\ r.norc = end.o.norc
      /\ \A f \in DOMAIN Default :
            Setting(r, f) = IF f = "mix" /\ end.mono THEN 0 ELSE Setting(end.o, f)
  <2>1. Known(end.o)
    BY <1>7 DEF ModGood, Parses
  <2>2. CASE end.mono
    BY <1>8, <2>1, <2>2, NamesAre DEF Known, Setting, Field
  <2>3. CASE ~end.mono
    BY <1>8, <2>1, <2>3
  <2> QED
    BY <2>2, <2>3
<1>10. /\ end.o.norc = o.norc
       /\ end.mono <=> MonoSaid(Lines(file), ModAbout(file, module, "mono"), N)
       /\ \A f \in DOMAIN Default : Setting(end.o, f) = ModSays(file, module, f, N, Setting(o, f))
  BY <1>7 DEF ModGood
<1>11. \A f \in DOMAIN Default : Setting(r, f) = FileSays(file, module, f, Setting(o, f))
  BY <1>2, <1>9, <1>10 DEF FileSays
<1> QED
  BY <1>8, <1>9, <1>10, <1>11

-----------------------------------------------------------------------------
(* main: where the settings come from *)

LEMMA LastAll ==
    ASSUME NEW n \in Nat, NEW P, P \subseteq 1 .. n
    PROVE  /\ LastIn(P, n) = 0 <=> P = {}
           /\ P # {} => LastIn(P, n) = Max(P) /\ Max(P) \in P
<1>1. P \cap (1 .. n) = P
  OBVIOUS
<1>2. CASE P = {}
  BY <1>1, <1>2 DEF LastIn
<1>3. CASE P # {}
  <2>1. LastIn(P, n) = Max(P)
    BY <1>1, <1>3 DEF LastIn
  <2>2. LastIn(P, n) \in P
    BY <1>1, <1>3, LastStep
  <2>3. LastIn(P, n) # 0
    BY <2>2
  <2> QED
    BY <1>3, <2>1, <2>2, <2>3
<1> QED
  BY <1>2, <1>3

\* What is said after n lines is what the file says.
LEMMA AllLines ==
    ASSUME NEW ls, NEW n \in Nat, NEW P, P \subseteq 1 .. n, NEW x
    PROVE  /\ LinesSay(ls, P, n, x) = IF P = {} THEN x ELSE Number(ls[Max(P)].val)
           /\ MonoSaid(ls, P, n) <=> P # {} /\ get_yesno(ls[Max(P)].val)
BY LastAll DEF LinesSay, MonoSaid

LEMMA FileSaysIs ==
    ASSUME NEW file \in File, NEW module, NEW f \in DOMAIN Default, NEW x
    PROVE  FileSays(file, module, f, x) =
               IF f \in {"rate", "defpan"} THEN x ELSE FromModconf(file, module, f, x)
<1> DEFINE ls == Lines(file)
           About(v) == ModAbout(file, module, v)
<1>1. Len(ls) \in Nat /\ DOMAIN ls = 1 .. Len(ls)
  BY LinesAre
<1>2. PICK N \in Nat : N = Len(ls) /\ DOMAIN ls = 1 .. N
  BY <1>1
<1>3. \A v : About(v) \subseteq 1 .. N
  BY <1>2 DEF ModAbout
<1>4. \A v : LinesSay(ls, About(v), N, x) = IF About(v) = {} THEN x ELSE Number(ls[Max(About(v))].val)
  BY <1>3, AllLines
<1>5. \A v : MonoSaid(ls, About(v), N) <=> About(v) # {} /\ get_yesno(ls[Max(About(v))].val)
  BY <1>3, AllLines
<1>6. FromModconf(file, module, f, x) =
          IF f = "mix" /\ About("mono") # {} /\ get_yesno(ls[Max(About("mono"))].val) THEN 0
          ELSE IF About(Variable[f]) = {} THEN x ELSE Number(ls[Max(About(Variable[f]))].val)
  BY DEF FromModconf, ModAbout
<1>7. FileSays(file, module, f, x) =
          IF f = "mix" /\ MonoSaid(ls, About("mono"), N) THEN 0
          ELSE IF f \in {"rate", "defpan"} THEN x
          ELSE LinesSay(ls, About(Variable[f]), N, x)
  BY <1>2 DEF FileSays, ModSays
<1> HIDE DEF ls, About
<1>8. CASE f \in {"rate", "defpan"}
  BY <1>7, <1>8
<1>9. CASE f \notin {"rate", "defpan"}
  BY <1>4, <1>5, <1>6, <1>7, <1>9
<1> QED
  BY <1>8, <1>9

\* What the options g say last of the setting f.
OptionsSay(g, f, otherwise) ==
    LET about == {j \in DOMAIN g : g[j][1] = Option[f]}
        last  == Number(g[Max(about)][2])
    IN IF about = {} THEN otherwise
       ELSE IF f \in {"mix", "defpan"} THEN Between(last, 0, 100) ELSE last

LEMMA OptionsSayMore ==
    ASSUME NEW g \in Seq(Asks), NEW c, NEW a, <<c, a>> \in Asks, NEW f, NEW x
    PROVE  OptionsSay(Append(g, <<c, a>>), f, x) =
               IF c = Option[f]
               THEN IF f \in {"mix", "defpan"} THEN Between(Number(a), 0, 100) ELSE Number(a)
               ELSE OptionsSay(g, f, x)
<1>1. PICK n \in Nat : n = Len(g) /\ DOMAIN g = 1 .. n
  OBVIOUS
<1>2. PICK e \in Asks : e = <<c, a>>
  OBVIOUS
<1>3. PICK h : h = Append(g, e)
  OBVIOUS
<1>4. DOMAIN h = 1 .. n + 1 /\ h[n + 1] = e /\ \A j \in 1 .. n : h[j] = g[j]
  BY <1>1, <1>3
<1>5. e[1] = c /\ e[2] = a
  BY <1>2
<1> DEFINE about == {j \in DOMAIN g : g[j][1] = Option[f]}
           after == {j \in DOMAIN h : h[j][1] = Option[f]}
           Of(u) == IF f \in {"mix", "defpan"} THEN Between(Number(u), 0, 100) ELSE Number(u)
<1>6. /\ OptionsSay(g, f, x) = IF about = {} THEN x ELSE Of(g[Max(about)][2])
      /\ OptionsSay(h, f, x) = IF after = {} THEN x ELSE Of(h[Max(after)][2])
  BY DEF OptionsSay
<1>7. CASE c = Option[f]
  <2>1. PICK k \in after : k = n + 1 /\ \A y \in after : y <= k
    BY <1>4, <1>5, <1>7
  <2>2. after \subseteq Nat
    BY <1>4
  <2> HIDE DEF after, about, Of
  <2>3. Max(after) = k
    BY <2>1, <2>2, MaxOf
  <2>4. OptionsSay(h, f, x) = Of(a)
    BY <1>4, <1>5, <1>6, <2>1, <2>3
  <2> QED
    BY <1>2, <1>3, <1>7, <2>4 DEF Of
<1>8. CASE c # Option[f]
  <2>1. after = about
    BY <1>1, <1>4, <1>5, <1>8
  <2>2. about \subseteq 1 .. n
    BY <1>1
  <2> HIDE DEF after, about, Of
  <2>3. about # {} => Max(about) \in 1 .. n
    BY <2>2, LastAll
  <2>4. about # {} => h[Max(about)] = g[Max(about)]
    BY <1>4, <2>3
  <2>5. OptionsSay(h, f, x) = OptionsSay(g, f, x)
    BY <1>6, <2>1, <2>4
  <2> QED
    BY <1>2, <1>3, <1>8, <2>5
<1> QED
  BY <1>7, <1>8

LEMMA OptionsSayNone == ASSUME NEW f, NEW x PROVE OptionsSay(<<>>, f, x) = x
<1>1. {j \in DOMAIN <<>> : <<>>[j][1] = Option[f]} = {}
  OBVIOUS
<1> QED
  BY <1>1 DEF OptionsSay

LEMMA LimitedIs ==
    ASSUME NEW o, Known(o)
    PROVE  Has(Limited(o), o.amplify, o.numvoices, o.mix, Between(o.rate, 1000, MaxRate), o.defpan, o.norc)
BY DEF Limited, Has, Known

LEMMA LimitedSays ==
    ASSUME NEW o, Known(o)
    PROVE  /\ Known(Limited(o))
           /\ \A f \in DOMAIN Default :
                 Setting(Limited(o), f) =
                     IF f = "rate" THEN Between(Setting(o, f), 1000, MaxRate) ELSE Setting(o, f)
<1>1. PICK r : r = Limited(o)
  OBVIOUS
<1>2. Has(r, o.amplify, o.numvoices, o.mix, Between(o.rate, 1000, MaxRate), o.defpan, o.norc)
  BY <1>1, LimitedIs
<1>3. Known(r) /\ \A f \in DOMAIN Default :
          Setting(r, f) = IF f = "rate" THEN Between(Setting(o, f), 1000, MaxRate) ELSE Setting(o, f)
  BY <1>2, NamesAre DEF Has, Setting, Field
<1> QED
  BY <1>1, <1>3

LEMMA SilencedSays ==
    ASSUME Known(opt)
    PROVE  Known(Silenced) /\ \A f \in DOMAIN Default : Setting(Silenced, f) = Setting(opt, f)
<1>1. PICK d : d = <<"null">>
  OBVIOUS
<1>2. PICK r : r = Silenced /\ r = IF opt.silent # 0 THEN [opt EXCEPT !.driver_id = d] ELSE opt
  BY <1>1 DEF Silenced
<1>3. Known(r) /\ \A f \in DOMAIN Default : Setting(r, f) = Setting(opt, f)
  BY <1>2, NamesAre DEF Known, Setting, Field
<1> QED
  BY <1>2, <1>3

\* Of the settings a driver's init changes the rate alone.
LEMMA SettledSays ==
    ASSUME NEW o, Known(o), NEW s \in Settled(o)
    PROVE  Known(s) /\ \A f \in DOMAIN Default : f # "rate" => Setting(s, f) = Setting(o, f)
<1>1. CASE s = o
  BY <1>1
<1>2. CASE s # o
  <2>1. PICK a :
           s = [o EXCEPT !.rate = a.rate, !.format = a.format,
                         !.format_downmix = a.format_downmix,
                         !.out_file = IF @ = NULL THEN a.out_file ELSE @]
    BY <1>2, Zenon DEF Settled
  <2>2. DOMAIN s = DOMAIN o
    BY <2>1
  <2>3. /\ s.amplify = o.amplify /\ s.numvoices = o.numvoices
        /\ s.mix = o.mix /\ s.defpan = o.defpan
    BY <2>1 DEF Known
  <2> QED
    BY <2>2, <2>3, NamesAre DEF Known, Setting, Field
<1> QED
  BY <1>1, <1>2

LEMMA DefaultsSay ==
    Known(Defaults) /\ Defaults.norc = 0 /\ \A f \in DOMAIN Default : Setting(Defaults, f) = Default[f]
<1>1. Has(Defaults, 1, 128, -1, 44100, 50, 0)
  BY DEF Defaults, Known, Has
<1>2. \A f \in DOMAIN Default : Setting(Defaults, f) = Default[f]
  BY <1>1, NamesAre DEF Has, Setting, Field, Default
<1> QED
  BY <1>1, <1>2 DEF Has

LEMMA GivenSays == \A o : \A f \in DOMAIN Default : Given(o)[f] = Setting(o, f)
BY NamesAre DEF Given, Setting, Field

\* The settings xmp.conf leaves, and those the command line then makes of them.
Configured == [f \in DOMAIN Default |-> FromConf(f, Default[f])]
Chosen == [f \in DOMAIN Default |->
              LET said == FromOptions(f, Configured[f]) IN
              IF f = "rate" THEN Between(said, 1000, MaxRate) ELSE said]

\* What a module is due, norc being as it is.
Due(norc, module, f) ==
    IF f = "rate" THEN rates.settled
    ELSE IF f = "defpan" \/ norc # 0 THEN Chosen[f]
    ELSE FromModconf(input.homemods, module, f,
                     FromModconf(input.etcmods, module, f, Chosen[f]))

Parsing == \A f \in DOMAIN Default : Setting(opt, f) = OptionsSay(got, f, Configured[f])
IsChosen(o) == \A f \in DOMAIN Default : Setting(o, f) = Chosen[f]

\* What is chosen, with the rate of the driver.
IsSettled(o) ==
    \A f \in DOMAIN Default :
        Setting(o, f) = IF f = "rate" THEN rates.settled ELSE Chosen[f]

GivenDue ==
    \A i \in DOMAIN played : \A f \in DOMAIN Default :
        played[i].given[f] = Due(save_opt.norc, played[i].file, f)

SettingsInv ==
    /\ pc = "config" => opt = Defaults /\ got = <<>>
    /\ pc = "getopt" => Known(opt) /\ Parsing
    /\ pc = "checks" => Known(opt) /\ IsChosen(opt)
    /\ pc \in {"play", "done"} =>
           /\ Known(save_opt) /\ IsSettled(save_opt) /\ opt.norc = save_opt.norc
           /\ rates.asked = Chosen["rate"]
           /\ \E S : played \in Seq(S)
           /\ GivenDue
    /\ pc \in {"config", "getopt", "checks", "exit"} => played = <<>>

LEMMA DueIs ==
    ASSUME NEW module, NEW f \in DOMAIN Default
    PROVE  IF f = "rate" THEN Chosen[f] = Between(Said(f, module), 1000, MaxRate)
           ELSE Due(opt.norc, module, f) = Said(f, module)
<1>1. PICK before : before = FromOptions(f, FromConf(f, Default[f]))
  OBVIOUS
<1>2. Chosen[f] = IF f = "rate" THEN Between(before, 1000, MaxRate) ELSE before
  BY <1>1 DEF Chosen, Configured
<1>3. Said(f, module) =
          IF f \in {"rate", "defpan"} \/ opt.norc # 0 THEN before
          ELSE FromModconf(input.homemods, module, f, FromModconf(input.etcmods, module, f, before))
  BY <1>1 DEF Said
<1>4. CASE f = "rate"
  BY <1>2, <1>3, <1>4 DEF Due
<1>5. CASE f # "rate"
  BY <1>2, <1>3, <1>5 DEF Due
<1> QED
  BY <1>4, <1>5

LEMMA InputIs ==
    ASSUME input \in Inputs
    PROVE  ConfFile(input) \in File /\ input.etcmods \in File /\ input.homemods \in File
BY SettingsAssumption DEF ConfFile

LEMMA ChosenKept ==
    ASSUME UNCHANGED input
    PROVE  Configured' = Configured /\ Chosen' = Chosen /\ asked' = asked
<1>1. asked' = asked
  BY DEF asked
<1>2. Configured' = Configured
  BY DEF Configured, FromConf
<1>3. Chosen' = Chosen
  BY <1>1, <1>2 DEF Chosen, FromOptions
<1> QED
  BY <1>1, <1>2, <1>3

LEMMA InitSettings == Init => SettingsInv
<1> SUFFICES ASSUME Init PROVE SettingsInv
  OBVIOUS
<1> QED
  BY DEF Init, SettingsInv

LEMMA ReadConfigSays ==
    ASSUME input \in Inputs, UNCHANGED <<input, got>>, opt = Defaults, got = <<>>,
           opt' = IF opt.norc = 0 THEN read_config(opt, input) ELSE opt
    PROVE  Known(opt') /\ Parsing'
<1>1. opt' = read_config(Defaults, input) /\ got' = <<>> /\ Configured' = Configured
  BY DefaultsSay, ChosenKept
<1>2. PICK r : r = read_config(Defaults, input)
  OBVIOUS
<1>4. /\ Known(r)
      /\ \A f \in DOMAIN Default :
            Setting(r, f) = LinesSay(Lines(ConfFile(input)), ConfAbout(input, f),
                                     Len(Lines(ConfFile(input))), Setting(Defaults, f))
  BY <1>2, DefaultsSay, InputIs, ReadConfigIs
<1>5. \A f \in DOMAIN Default : Setting(r, f) = Configured[f]
  <2> TAKE f \in DOMAIN Default
  <2>1. PICK P, x : P = ConfAbout(input, f) /\ x = Default[f]
    OBVIOUS
  <2>2. Len(Lines(ConfFile(input))) \in Nat /\ P \subseteq 1 .. Len(Lines(ConfFile(input)))
    BY <2>1, InputIs, LinesAre DEF ConfAbout
  <2>3. LinesSay(Lines(ConfFile(input)), P, Len(Lines(ConfFile(input))), x) =
            IF P = {} THEN x ELSE Number(Lines(ConfFile(input))[Max(P)].val)
    <3>1. PICK N \in Nat : N = Len(Lines(ConfFile(input))) /\ P \subseteq 1 .. N
      BY <2>2
    <3>2. PICK ls : ls = Lines(ConfFile(input))
      OBVIOUS
    <3>3. LinesSay(ls, P, N, x) = IF P = {} THEN x ELSE Number(ls[Max(P)].val)
      <4>1. \A m \in Nat : P \subseteq 1 .. m =>
                LinesSay(ls, P, m, x) = IF P = {} THEN x ELSE Number(ls[Max(P)].val)
        <5> SUFFICES ASSUME NEW m \in Nat, P \subseteq 1 .. m
                     PROVE  LinesSay(ls, P, m, x) = IF P = {} THEN x ELSE Number(ls[Max(P)].val)
          OBVIOUS
        <5>1. LinesSay(ls, P, m, x) = IF LastIn(P, m) = 0 THEN x ELSE Number(ls[LastIn(P, m)].val)
          BY DEF LinesSay
        <5> QED
          BY <5>1, LastAll
      <4> QED
        BY <3>1, <4>1, <2>2
    <3> QED
      BY <3>1, <3>2, <3>3
  <2>4. FromConf(f, x) = IF P = {} THEN x ELSE Number(Lines(ConfFile(input))[Max(P)].val)
    BY <2>1 DEF FromConf, ConfAbout
  <2>5. Configured[f] = FromConf(f, x)
    BY <2>1 DEF Configured
  <2>6. Setting(Defaults, f) = x
    BY <2>1, DefaultsSay
  <2> QED
    BY <1>4, <2>1, <2>3, <2>4, <2>5, <2>6
<1>6. \A f \in DOMAIN Default : Setting(opt', f) = OptionsSay(got', f, Configured'[f])
  BY <1>1, <1>2, <1>5, OptionsSayNone
<1> QED
  BY <1>1, <1>2, <1>4, <1>6 DEF Parsing

LEMMA UseOptionSays ==
    ASSUME UNCHANGED input, ScanTypes, optchar \in Accepted, Known(opt), Parsing,
           opt' = Applied(opt, optchar, optarg), got' = Append(got, <<optchar, optarg>>)
    PROVE  Known(opt') /\ Parsing'
<1>1. Configured' = Configured
  BY ChosenKept
<1>2. got \in Seq(Asks) /\ <<optchar, optarg>> \in Asks
  BY DEF ScanTypes, Asks, Codes
<1>3. PICK o, c, a, r : /\ o = opt /\ c = optchar /\ a = optarg /\ r = Applied(o, c, a)
                        /\ c \in Accepted
  OBVIOUS
<1>4. /\ Known(r)
      /\ \A f \in DOMAIN Default :
            Setting(r, f) = IF c = Option[f]
                            THEN IF f \in {"mix", "defpan"} THEN Between(Number(a), 0, 100) ELSE Number(a)
                            ELSE Setting(o, f)
  BY <1>3, AppliedSays
<1>5. ASSUME NEW f \in DOMAIN Default
      PROVE  Setting(r, f) = OptionsSay(got', f, Configured[f])
  <2>1. PICK x : x = Configured[f]
    OBVIOUS
  <2>2. OptionsSay(Append(got, <<c, a>>), f, x) =
            IF c = Option[f]
            THEN IF f \in {"mix", "defpan"} THEN Between(Number(a), 0, 100) ELSE Number(a)
            ELSE OptionsSay(got, f, x)
    BY <1>2, <1>3, OptionsSayMore
  <2>3. Setting(o, f) = OptionsSay(got, f, x)
    BY <1>3, <2>1 DEF Parsing
  <2> QED
    BY <1>3, <1>4, <2>1, <2>2, <2>3
<1> QED
  BY <1>1, <1>3, <1>4, <1>5 DEF Parsing

LEMMA EndOfOptionsSays ==
    ASSUME UNCHANGED input, got = asked.opts, Known(opt), Parsing, opt' = Limited(opt)
    PROVE  Known(opt') /\ IsChosen(opt)'
<1>1. Chosen' = Chosen
  BY ChosenKept
<1>2. PICK o, r : o = opt /\ r = Limited(o)
  OBVIOUS
<1>3. /\ Known(r)
      /\ \A f \in DOMAIN Default :
            Setting(r, f) = IF f = "rate" THEN Between(Setting(o, f), 1000, MaxRate) ELSE Setting(o, f)
  BY <1>2, LimitedSays
<1>4. \A f \in DOMAIN Default : Setting(r, f) = Chosen[f]
  <2> TAKE f \in DOMAIN Default
  <2>1. Setting(o, f) = FromOptions(f, Configured[f])
    BY <1>2 DEF Parsing, OptionsSay, FromOptions
  <2>2. Chosen[f] = IF f = "rate" THEN Between(FromOptions(f, Configured[f]), 1000, MaxRate)
                    ELSE FromOptions(f, Configured[f])
    BY DEF Chosen
  <2> QED
    BY <1>3, <2>1, <2>2
<1> QED
  BY <1>1, <1>2, <1>3, <1>4 DEF IsChosen

LEMMA ModconfSays ==
    ASSUME input \in Inputs, Known(save_opt), IsSettled(save_opt), NEW module,
           NEW o, o = IF save_opt.norc = 0 THEN read_modconf(save_opt, input, module) ELSE save_opt
    PROVE  /\ Known(o) /\ o.norc = save_opt.norc
           /\ \A f \in DOMAIN Default : Setting(o, f) = Due(save_opt.norc, module, f)
<1>1. CASE save_opt.norc # 0
  BY <1>1 DEF IsSettled, Due
<1>2. CASE save_opt.norc = 0
  <2>1. PICK s, etc, home : s = save_opt /\ etc = input.etcmods /\ home = input.homemods
    OBVIOUS
  <2>2. etc \in File /\ home \in File /\ Known(s) /\ s.norc = 0
    BY <1>2, <2>1, InputIs
  <2>3. PICK m : m = parse_modconf(s, etc, module)
    OBVIOUS
  <2>4. /\ Known(m) /\ m.norc = 0
        /\ \A f \in DOMAIN Default : Setting(m, f) = FileSays(etc, module, f, Setting(s, f))
    BY <2>2, <2>3, ParseModconfIs
  <2>5. o = parse_modconf(m, home, module)
    BY <1>2, <2>1, <2>3 DEF read_modconf
  <2>6. /\ Known(o) /\ o.norc = 0
        /\ \A f \in DOMAIN Default : Setting(o, f) = FileSays(home, module, f, Setting(m, f))
    BY <2>2, <2>4, <2>5, ParseModconfIs
  <2>7. ASSUME NEW f \in DOMAIN Default
        PROVE  Setting(o, f) = Due(save_opt.norc, module, f)
    <3>1. PICK x, y, z : x = Setting(s, f) /\ y = Setting(m, f) /\ z = Setting(o, f)
      OBVIOUS
    <3>2. x = IF f = "rate" THEN rates.settled ELSE Chosen[f]
      BY <2>1, <3>1 DEF IsSettled
    <3>3. y = IF f \in {"rate", "defpan"} THEN x ELSE FromModconf(etc, module, f, x)
      BY <2>2, <2>4, <3>1, FileSaysIs
    <3>4. z = IF f \in {"rate", "defpan"} THEN y ELSE FromModconf(home, module, f, y)
      BY <2>2, <2>6, <3>1, FileSaysIs
    <3> QED
      BY <1>2, <2>1, <3>1, <3>2, <3>3, <3>4 DEF Due
  <2> QED
    BY <1>2, <2>6, <2>7
<1> QED
  BY <1>1, <1>2

LEMMA PlayModuleSays ==
    ASSUME input \in Inputs, SettingsInv, PlayModule
    PROVE  SettingsInv'
<1>1. /\ pc = "play" /\ pc' = "play" /\ UNCHANGED <<input, save_opt, rates>>
      /\ opt' = IF save_opt.norc = 0 THEN read_modconf(save_opt, input, argv[optind]) ELSE save_opt
      /\ played' = Append(played, [file |-> argv[optind], given |-> Given(opt')])
  BY DEF PlayModule, PlayWith
<1>2. /\ Known(save_opt) /\ IsSettled(save_opt) /\ rates.asked = Chosen["rate"]
      /\ \E S : played \in Seq(S)
      /\ GivenDue
  BY <1>1 DEF SettingsInv
<1>3. PICK S : played \in Seq(S)
  BY <1>2
<1>4. PICK module, o : module = argv[optind] /\ o = opt'
  OBVIOUS
<1>5. /\ Known(o) /\ o.norc = save_opt.norc
      /\ \A f \in DOMAIN Default : Setting(o, f) = Due(save_opt.norc, module, f)
  BY <1>1, <1>2, <1>4, ModconfSays
<1>6. Chosen' = Chosen
  BY <1>1, ChosenKept
<1>7. \A n, m, f : Due(n, m, f)' = Due(n, m, f)
  BY <1>1, <1>6 DEF Due
<1>8. PICK e : e = [file |-> module, given |-> Given(o)]
  OBVIOUS
<1>9. e.file = module /\ \A f \in DOMAIN Default : e.given[f] = Due(save_opt.norc, module, f)
  BY <1>5, <1>8, GivenSays
<1>10. PICK n \in Nat : n = Len(played) /\ DOMAIN played = 1 .. n
  BY <1>3
<1>11. /\ DOMAIN played' = 1 .. n + 1 /\ played'[n + 1] = e
       /\ \A i \in 1 .. n : played'[i] = played[i]
  BY <1>1, <1>3, <1>4, <1>8, <1>10
<1>12. played' \in Seq(S \cup {e})
  <2>1. played \in Seq(S \cup {e})
    BY <1>3, SeqMonotonic
  <2> QED
    BY <1>1, <1>4, <1>8, <2>1, AppendProperties
<1>13. ASSUME NEW i \in DOMAIN played', NEW f \in DOMAIN Default
       PROVE  played'[i].given[f] = Due(save_opt.norc, played'[i].file, f)
  <2>1. CASE i = n + 1
    BY <1>9, <1>11, <2>1
  <2>2. CASE i # n + 1
    <3>1. i \in DOMAIN played /\ played'[i] = played[i]
      BY <1>10, <1>11, <2>2
    <3> QED
      BY <1>2, <3>1 DEF GivenDue
  <2> QED
    BY <2>1, <2>2
<1>14. GivenDue'
  BY <1>1, <1>7, <1>13 DEF GivenDue
<1>15. IsSettled(save_opt)' /\ Known(save_opt') /\ rates'.asked = Chosen'["rate"]
  BY <1>1, <1>2, <1>6 DEF IsSettled
<1> QED
  BY <1>1, <1>4, <1>5, <1>12, <1>14, <1>15 DEF SettingsInv

LEMMA NextSettings ==
    ASSUME ParseInv, SettingsInv, [Next]_vars
    PROVE  SettingsInv'
<1>1. ScanTypes /\ input \in Inputs
  BY DEF ParseInv, ScanTypes
<1>2. CASE ReadConfig
  <2>1. /\ pc' = "getopt" /\ opt = Defaults /\ got = <<>> /\ played' = <<>> /\ UNCHANGED <<input, got>>
        /\ opt' = IF opt.norc = 0 THEN read_config(opt, input) ELSE opt
    BY <1>2 DEF ReadConfig, SettingsInv
  <2>2. Known(opt') /\ Parsing'
    BY <1>1, <2>1, ReadConfigSays
  <2> QED
    BY <2>1, <2>2 DEF SettingsInv
<1>3. CASE ScanWord
  <2>1. pc = "getopt" /\ pc' = "getopt" /\ UNCHANGED <<input, opt, got, played>>
    BY <1>3 DEF ScanWord, settings, history
  <2>2. Configured' = Configured
    BY <2>1, ChosenKept
  <2> QED
    BY <2>1, <2>2 DEF SettingsInv, Parsing
<1>4. CASE UseOption
  <2>1. /\ pc = "getopt" /\ pc' = "getopt" /\ UNCHANGED <<input, played>>
        /\ opt' = Applied(opt, optchar, optarg) /\ got' = Append(got, <<optchar, optarg>>)
    BY <1>4 DEF UseOption
  <2>2. optchar \in Accepted
    BY <1>1, <1>4 DEF UseOption, ScanTypes, Codes, Leaving, Exits
  <2>3. Known(opt) /\ Parsing /\ played = <<>>
    BY <2>1 DEF SettingsInv
  <2>4. Known(opt') /\ Parsing'
    BY <1>1, <2>1, <2>2, <2>3, UseOptionSays
  <2> QED
    BY <2>1, <2>3, <2>4 DEF SettingsInv
<1>5. CASE ExitOption
  BY <1>5 DEF ExitOption, SettingsInv
<1>6. CASE EndOfOptions
  <2>1. /\ pc = "getopt" /\ pc' = "checks" /\ UNCHANGED <<input, got, played>>
        /\ opt' = Limited(opt) /\ optchar = "end"
    BY <1>6 DEF EndOfOptions, history
  <2>2. got = asked.opts
    BY <2>1 DEF ParseInv, ScanInv
  <2>3. Known(opt) /\ Parsing /\ played = <<>>
    BY <2>1 DEF SettingsInv
  <2>4. Known(opt') /\ IsChosen(opt)'
    BY <2>1, <2>2, <2>3, EndOfOptionsSays
  <2> QED
    BY <2>1, <2>3, <2>4 DEF SettingsInv
<1>7. CASE Refuse
  BY <1>7 DEF Refuse, SettingsInv, history
<1>8. CASE SelectDriver
  <2>1. /\ pc = "checks" /\ opt' \in Settled(Silenced) /\ UNCHANGED <<input, got, played>>
        /\ rates' = [asked |-> opt.rate, settled |-> opt'.rate]
        /\ \/ pc' = "exit"
           \/ pc' = "play" /\ save_opt' = opt'
    BY <1>8 DEF SelectDriver, history
  <2>2. Known(opt) /\ IsChosen(opt) /\ played = <<>>
    BY <2>1 DEF SettingsInv
  <2>3. Chosen' = Chosen
    BY <2>1, ChosenKept
  <2>4. Known(opt') /\ IsSettled(opt)' /\ rates'.asked = Chosen["rate"]
    <3>1. Known(Silenced) /\ \A f \in DOMAIN Default : Setting(Silenced, f) = Setting(opt, f)
      BY <2>2, SilencedSays
    <3>2. PICK s : s = opt'
      OBVIOUS
    <3>3. /\ Known(s)
          /\ \A f \in DOMAIN Default : f # "rate" => Setting(s, f) = Setting(Silenced, f)
      BY <2>1, <3>1, <3>2, SettledSays
    <3>4. \A f \in DOMAIN Default : f # "rate" => Setting(s, f) = Chosen[f]
      BY <2>2, <3>1, <3>3 DEF IsChosen
    <3>5. Setting(s, "rate") = s.rate /\ Setting(opt, "rate") = opt.rate
      BY NamesAre DEF Setting, Field
    <3>6. rates'.settled = s.rate /\ rates'.asked = opt.rate
      BY <2>1, <3>2
    <3>7. opt.rate = Chosen["rate"]
      BY <2>2, <3>5, NamesAre DEF IsChosen
    <3> QED
      BY <2>3, <3>2, <3>3, <3>4, <3>5, <3>6, <3>7 DEF IsSettled
  <2>5. CASE pc' = "exit"
    BY <2>1, <2>2, <2>5 DEF SettingsInv
  <2>6. CASE pc' = "play" /\ save_opt' = opt'
    <3>1. IsSettled(save_opt)' /\ Known(save_opt') /\ rates'.asked = Chosen'["rate"]
      BY <2>3, <2>4, <2>6 DEF IsSettled
    <3>2. played' = <<>> /\ \E S : played' \in Seq(S)
      BY <2>1, <2>2
    <3>3. GivenDue'
      BY <3>2 DEF GivenDue
    <3> QED
      BY <2>6, <3>1, <3>2, <3>3 DEF SettingsInv
  <2> QED
    BY <2>1, <2>5, <2>6
<1>9. CASE PlayModule
  BY <1>1, <1>9, PlayModuleSays
<1>10. CASE EndOfList \/ UNCHANGED vars
  <2>1. /\ \/ pc' = pc
           \/ pc = "play" /\ pc' = "done"
        /\ UNCHANGED <<input, opt, save_opt, got, rates, played>>
    BY <1>10 DEF EndOfList, vars, settings, history
  <2>2. Configured' = Configured /\ Chosen' = Chosen
    BY <2>1, ChosenKept
  <2>3. Parsing' = Parsing
    BY <2>1, <2>2 DEF Parsing
  <2>4. IsChosen(opt)' = IsChosen(opt) /\ IsSettled(save_opt)' = IsSettled(save_opt)
    BY <2>1, <2>2 DEF IsChosen, IsSettled
  <2>5. GivenDue' = GivenDue
    BY <2>1, <2>2 DEF GivenDue, Due
  <2> QED
    BY <2>1, <2>2, <2>3, <2>4, <2>5 DEF SettingsInv
<1> QED
  BY <1>2, <1>3, <1>4, <1>5, <1>6, <1>7, <1>8, <1>9, <1>10 DEF Next

\* Whatever was played before, a module is played with what its section of
\* modules.conf says, the user's file before the system's; failing that, with
\* what the command line says last; failing that, with what xmp.conf says; the
\* rate is asked of the driver, whose answer holds for every module (the order
\* of read_config, get_options, the drivers' init, the copy of save_opt and
\* read_modconf in main), for every command line and for files of every length.
THEOREM SettingsTakePrecedence == Spec => []Precedence
<1>1. Init => SettingsInv
  BY InitSettings
<1>2. ParseInv /\ SettingsInv /\ [Next]_vars => SettingsInv'
  BY NextSettings
<1>3. ParseInv /\ SettingsInv => Precedence
  <2> SUFFICES ASSUME ParseInv, SettingsInv PROVE Precedence
    OBVIOUS
  <2>1. CASE pc \in {"play", "done"}
    <3>1. GivenDue /\ opt.norc = save_opt.norc /\ rates.asked = Chosen["rate"]
      BY <2>1 DEF SettingsInv
    <3>2. ASSUME NEW i \in DOMAIN played, NEW f \in DOMAIN Default
          PROVE  IF f = "rate"
                 THEN /\ rates.asked = Between(Said(f, played[i].file), 1000, MaxRate)
                      /\ played[i].given[f] = rates.settled
                 ELSE played[i].given[f] = Said(f, played[i].file)
      <4>1. PICK module : module = played[i].file
        OBVIOUS
      <4>2. played[i].given[f] = Due(opt.norc, module, f)
        BY <3>1, <4>1 DEF GivenDue
      <4>3. CASE f = "rate"
        <5>1. Due(opt.norc, module, f) = rates.settled
          BY <4>3 DEF Due
        <5>2. Chosen[f] = Between(Said(f, module), 1000, MaxRate)
          BY <4>3, DueIs
        <5> QED
          BY <3>1, <4>1, <4>2, <4>3, <5>1, <5>2
      <4>4. CASE f # "rate"
        <5>1. Due(opt.norc, module, f) = Said(f, module)
          BY <4>4, DueIs
        <5> QED
          BY <4>1, <4>2, <4>4, <5>1
      <4> QED
        BY <4>3, <4>4
    <3>3. "rate" \in DOMAIN Default
      BY NamesAre
    <3> QED
      BY <3>2, <3>3 DEF Precedence
  <2>2. CASE pc \in {"config", "getopt", "checks", "exit"}
    <3>1. played = <<>>
      BY <2>2 DEF SettingsInv
    <3> QED
      BY <3>1 DEF Precedence
  <2> QED
    BY <2>1, <2>2 DEF ParseInv
<1> QED
  BY <1>1, <1>2, <1>3, ParseIsWhole, PTL DEF Spec
=============================================================================
