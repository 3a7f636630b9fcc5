---------------------------- MODULE NumberLemmas ----------------------------
(***************************************************************************)
(* Facts about numbers that the proofs of several modules need: induction  *)
(* over the natural numbers, powers of two, binary digits and remainders.  *)
(***************************************************************************)
EXTENDS Integers, FiniteSets, NaturalsInduction, WellFoundedInduction,
        FiniteSetTheorems, TLAPS

----------------------------------------------------------------------------
(* Induction over the natural numbers, in the form of the least element *)

(* A minimal element of a set of natural numbers is its least element. *)
LEMMA MinimalIsLeast ==
  ASSUME NEW R, \A x, y \in Nat : y < x => <<y, x>> \in R,
         NEW T, T \subseteq Nat,
         \E x \in T : \A y \in T : ~ (<<y, x>> \in R)
  PROVE  \E x \in T : \A y \in T : x <= y
<1>1. PICK x \in T : \A y \in T : ~ (<<y, x>> \in R)
  OBVIOUS
<1>2. ASSUME NEW y \in T PROVE x <= y
  <2>1. x \in Nat /\ y \in Nat
    OBVIOUS
  <2>2. ~ (<<y, x>> \in R)
    BY <1>1
  <2>3. ~ (y < x)
    BY <2>1, <2>2, Zenon
  <2> QED BY <2>1, <2>3
<1> QED BY <1>2

(* A set of natural numbers that is not empty has a least element. *)
LEMMA LeastNat ==
  ASSUME NEW T, T \subseteq Nat, T # {}
  PROVE  \E x \in T : \A y \in T : x <= y
<1> DEFINE R == OpToRel(<, Nat)
<1>1. \A x, y \in Nat : y < x => <<y, x>> \in R
  BY DEF OpToRel
<1>2. IsWellFoundedOn(R, Nat)
  BY NatLessThanWellFounded
<1> HIDE DEF R
<1>3. \E x \in T : \A y \in T : ~ (<<y, x>> \in R)
  BY <1>2, WFMin
<1> QED BY <1>1, <1>3, MinimalIsLeast

(* The form in which it is used: a first counterexample. *)
LEMMA FirstNat ==
  ASSUME NEW T, T \subseteq Nat, T # {}
  PROVE  \E x \in T : x - 1 \notin T
<1>1. PICK x \in T : \A y \in T : x <= y
  BY LeastNat
<1>2. x \in Nat /\ ~(x <= x - 1)
  OBVIOUS
<1> QED BY <1>1, <1>2

----------------------------------------------------------------------------
(* Powers of two: the provers know nothing of exponents, the library only  *)
(* that a set of n elements has 2^n subsets.                               *)

(* A power of two counts the subsets of an interval. *)
LEMMA PowerCounts ==
  ASSUME NEW n \in Nat
  PROVE  /\ IsFiniteSet(SUBSET (1 .. n))
         /\ Cardinality(SUBSET (1 .. n)) = 2^n
         /\ 2^n \in Nat
<1>1. IsFiniteSet(1 .. n) /\ Cardinality(1 .. n) = n
  BY FS_Interval
<1>2. IsFiniteSet(SUBSET (1 .. n)) /\ Cardinality(SUBSET (1 .. n)) = 2^n
  BY <1>1, FS_SUBSET
<1> QED BY <1>2, FS_CardinalityType

(* The subsets with n + 1 are as many as those without it. *)
LEMMA PowerDoubles ==
  ASSUME NEW n \in Nat
  PROVE  2^(n + 1) = 2^n + 2^n
<1> DEFINE S == SUBSET (1 .. n)
           with == {A \union {n + 1} : A \in S}
           f == [A \in S |-> A \union {n + 1}]
<1>1. n + 1 \notin 1 .. n /\ 1 .. n + 1 = (1 .. n) \union {n + 1}
  OBVIOUS
<1>2. SUBSET (1 .. n + 1) = S \union with
  <2>1. ASSUME NEW B \in SUBSET (1 .. n + 1), B \notin S PROVE B \in with
    <3>1. n + 1 \in B /\ B \ {n + 1} \in S
      BY <1>1, <2>1
    <3>2. B = (B \ {n + 1}) \union {n + 1}
      BY <3>1
    <3> QED BY <3>1, <3>2
  <2> QED BY <1>1, <2>1
<1>3. S \intersect with = {}
  BY <1>1
<1>4. ExistsBijection(S, with)
  <2>1. f \in [S -> with]
    OBVIOUS
  <2>2. ASSUME NEW A \in S, NEW B \in S, f[A] = f[B] PROVE A = B
    <3>1. A \union {n + 1} = B \union {n + 1} /\ n + 1 \notin A /\ n + 1 \notin B
      BY <1>1, <2>2
    <3> QED BY <3>1
  <2>3. \A t \in with : \E A \in S : f[A] = t
    OBVIOUS
  <2> HIDE DEF f, with, S
  <2> QED BY <2>1, <2>2, <2>3
          DEF ExistsBijection, Bijection, Injection, Surjection, IsInjective
<1>5. IsFiniteSet(S) /\ Cardinality(S) = 2^n /\ 2^n \in Nat
  BY PowerCounts
<1>6. Cardinality(SUBSET (1 .. n + 1)) = 2^(n + 1)
  BY PowerCounts
<1> HIDE DEF S, with
<1>7. IsFiniteSet(with) /\ Cardinality(with) = 2^n
  BY <1>4, <1>5, FS_Bijection
<1>8. Cardinality(S \union with) = Cardinality(S) + Cardinality(with) - Cardinality(S \intersect with)
  BY <1>5, <1>7, FS_Union
<1>9. Cardinality(S \intersect with) = 0
  BY <1>3, FS_EmptySet
<1>10. Cardinality(S \union with) = 2^(n + 1)
  BY <1>2, <1>6, Zenon
<1>11. 2^(n + 1) = 2^n + 2^n - 0
  BY <1>5, <1>7, <1>8, <1>9, <1>10, Zenon
<1> QED BY <1>5, <1>11

(* Powers of two are positive and outgrow their exponents. *)
LEMMA PowerExceeds ==
  ASSUME NEW n \in Nat
  PROVE  2^n \in Nat /\ n < 2^n
<1> DEFINE T == {m \in Nat : ~(m < 2^m)}
<1>1. ASSUME T # {} PROVE FALSE
  <2>1. PICK x \in T : x - 1 \notin T
    <3>1. T \subseteq Nat
      OBVIOUS
    <3> HIDE DEF T
    <3> QED BY <1>1, <3>1, FirstNat
  <2>2. x \in Nat /\ ~(x < 2^x) /\ 2^x \in Nat
    BY PowerCounts
  <2>3. CASE x = 0
    <3>1. {} \in SUBSET (1 .. 0) /\ IsFiniteSet(SUBSET (1 .. 0))
            /\ Cardinality(SUBSET (1 .. 0)) = 2^0 /\ 2^0 \in Nat
      BY PowerCounts
    <3>2. 2^0 # 0
      BY <3>1, FS_EmptySet
    <3> QED BY <2>2, <2>3, <3>1, <3>2
  <2>4. CASE x # 0
    <3>1. x - 1 \in Nat /\ x - 1 + 1 = x
      BY <2>2, <2>4
    <3>2. x - 1 < 2^(x - 1)
      BY <2>1, <3>1
    <3>3. 2^(x - 1 + 1) = 2^(x - 1) + 2^(x - 1) /\ 2^(x - 1) \in Nat
      BY <3>1, PowerCounts, PowerDoubles
    <3>4. 2^x = 2^(x - 1) + 2^(x - 1)
      BY <3>1, <3>3, Zenon
    <3>5. \A p \in Nat : x - 1 < p => x < p + p
      BY <3>1
    <3>6. x < 2^(x - 1) + 2^(x - 1)
      BY <3>2, <3>3, <3>5, Zenon
    <3> QED BY <2>2, <3>4, <3>6, Zenon
  <2> QED BY <2>3, <2>4
<1> QED BY <1>1, PowerCounts

(* The quotient of a division *)
LEMMA DivExact ==
  ASSUME NEW k \in Nat, NEW d \in Nat, NEW r \in Nat, r < d
  PROVE  (k * d + r) \div d = k
OBVIOUS

(* Numbers that differ by the power of their slot or not at all, from slot *)
(* to slot, are what is left of the first one when its lowest binary       *)
(* digits are dropped.                                                     *)
LEMMA BinaryDigits ==
  ASSUME NEW N \in Nat, NEW b \in [1 .. N + 1 -> Nat], b[N + 1] = 0,
         NEW p \in [1 .. N + 1 -> Nat], p[1] = 1,
         \A l \in 1 .. N : p[l + 1] = p[l] + p[l],
         \A l \in 1 .. N : b[l] = b[l + 1] \/ b[l] = b[l + 1] + p[l]
  PROVE  \A l \in 1 .. N :
           (b[1] \div p[l]) % 2 = IF b[l] = b[l + 1] THEN 0 ELSE 1
(* Upwards from slot 1: at most the digits below slot l are missing. *)
<1>1. \A l \in 1 .. N + 1 : b[l] <= b[1] /\ b[1] < b[l] + p[l]
  <2> DEFINE T == {l \in 1 .. N + 1 : ~(b[l] <= b[1] /\ b[1] < b[l] + p[l])}
  <2> SUFFICES ASSUME T # {} PROVE FALSE
    OBVIOUS
  <2>1. PICK x \in T : x - 1 \notin T
    <3>1. T \subseteq Nat
      OBVIOUS
    <3> HIDE DEF T
    <3> QED BY <3>1, FirstNat
  <2>2. x # 1
    OBVIOUS
  <2>3. x - 1 \in 1 .. N /\ x - 1 + 1 = x
    BY <2>2
  <2>4. b[x - 1] <= b[1] /\ b[1] < b[x - 1] + p[x - 1]
    BY <2>1, <2>3
  <2>5. p[x] = p[x - 1] + p[x - 1] /\ (b[x - 1] = b[x] \/ b[x - 1] = b[x] + p[x - 1])
    BY <2>3
  <2>6. p[x - 1] \in Nat /\ b[x] \in Nat /\ b[x - 1] \in Nat /\ b[1] \in Nat
    BY <2>3
  <2>7. b[x] <= b[1] /\ b[1] < b[x] + (p[x - 1] + p[x - 1])
    <3> DEFINE n == b[1]
               high == b[x - 1]
               higher == b[x]
               q == p[x - 1]
    <3>1. n \in Nat /\ high \in Nat /\ higher \in Nat /\ q \in Nat
      BY <2>6
    <3>2. high <= n /\ n < high + q /\ (high = higher \/ high = higher + q)
      BY <2>4, <2>5
    <3> HIDE DEF n, high, higher, q
    <3>3. higher <= n /\ n < higher + (q + q)
      BY <3>1, <3>2
    <3> QED BY <3>3 DEF n, high, higher, q
  <2> QED BY <2>5, <2>7
(* Downwards from the top slot: each is a multiple of its power. *)
<1>2. \A l \in 1 .. N + 1 : \E q \in Nat : b[l] = q * p[l]
  <2> DEFINE Multiple(l) == \E q \in Nat : b[l] = q * p[l]
             T == {k \in 0 .. N : ~Multiple(N + 1 - k)}
  <2>1. Multiple(N + 1)
    OBVIOUS
  <2>2. ASSUME NEW l \in 1 .. N, Multiple(l + 1) PROVE Multiple(l)
    <3>1. PICK q \in Nat : b[l + 1] = q * p[l + 1]
      BY <2>2
    <3>2. p[l] \in Nat /\ p[l + 1] = p[l] + p[l]
      OBVIOUS
    <3>3. b[l + 1] = (2 * q) * p[l]
      BY <3>1, <3>2
    <3>4. CASE b[l] = b[l + 1]
      BY <3>3, <3>4
    <3>5. CASE b[l] = b[l + 1] + p[l]
      <4>1. b[l] = (2 * q + 1) * p[l]
        BY <3>2, <3>3, <3>5
      <4> QED BY <4>1
    <3> QED BY <3>4, <3>5
  <2> HIDE DEF Multiple
  <2>3. T = {}
    <3> SUFFICES ASSUME T # {} PROVE FALSE
      OBVIOUS
    <3>1. PICK x \in T : x - 1 \notin T
      <4>1. T \subseteq Nat
        OBVIOUS
      <4> HIDE DEF T
      <4> QED BY <4>1, FirstNat
    <3>2. x # 0
      BY <2>1
    <3>3. /\ x - 1 \in 0 .. N /\ N + 1 - x \in 1 .. N
          /\ N + 1 - (x - 1) = N + 1 - x + 1
      BY <3>2
    <3>4. Multiple(N + 1 - x + 1)
      BY <3>1, <3>3
    <3>5. Multiple(N + 1 - x)
      BY <2>2, <3>3, <3>4
    <3> QED BY <3>5
  <2>4. ASSUME NEW l \in 1 .. N + 1 PROVE Multiple(l)
    <3>1. N + 1 - l \in 0 .. N /\ N + 1 - (N + 1 - l) = l
      OBVIOUS
    <3> QED BY <2>3, <3>1
  <2> QED BY <2>4 DEF Multiple
<1>3. ASSUME NEW l \in 1 .. N
      PROVE  (b[1] \div p[l]) % 2 = IF b[l] = b[l + 1] THEN 0 ELSE 1
  <2>1. PICK q \in Nat : b[l + 1] = q * p[l + 1]
    BY <1>2
  <2>2. /\ p[l] \in Nat /\ p[l + 1] = p[l] + p[l]
        /\ b[l] \in Nat /\ b[1] \in Nat /\ b[l + 1] \in Nat
    OBVIOUS
  <2>3. b[1] - b[l] \in Nat /\ b[1] - b[l] < p[l]
    <3>1. b[l] <= b[1] /\ b[1] < b[l] + p[l]
      BY <1>1
    <3>2. \A m, n, k \in Nat : m <= n /\ n < m + k => n - m \in Nat /\ n - m < k
      OBVIOUS
    <3> QED BY <2>2, <3>1, <3>2, Zenon
  <2>4. b[l + 1] = (2 * q) * p[l]
    BY <2>1, <2>2
  <2>5. ASSUME NEW k \in Nat, b[l] = k * p[l] PROVE b[1] \div p[l] = k
    <3>1. b[1] = k * p[l] + (b[1] - b[l])
      BY <2>2, <2>5
    <3>2. (k * p[l] + (b[1] - b[l])) \div p[l] = k
      BY <2>2, <2>3, DivExact
    <3> QED BY <3>1, <3>2
  <2>6. CASE b[l] = b[l + 1]
    <3>1. b[1] \div p[l] = 2 * q
      BY <2>4, <2>5, <2>6
    <3> QED BY <2>6, <3>1
  <2>7. CASE b[l] # b[l + 1]
    <3>1. b[l] = (2 * q + 1) * p[l]
      BY <2>2, <2>4, <2>7
    <3>2. b[1] \div p[l] = 2 * q + 1
      BY <2>5, <3>1
    <3> QED BY <2>7, <3>2
  <2> QED BY <2>6, <2>7
<1> QED BY <1>3

----------------------------------------------------------------------------
(* Remainders *)

(* The remainder of a division *)
LEMMA ModUnique ==
  ASSUME NEW q \in Int, NEW d \in Nat, NEW r \in Nat, r < d
  PROVE  (q * d + r) % d = r
OBVIOUS

LEMMA ModRange ==
  ASSUME NEW x \in Int, NEW d \in Nat, d > 0
  PROVE  x % d \in 0 .. d - 1
OBVIOUS

LEMMA DivMod ==
  ASSUME NEW x \in Int, NEW d \in Nat, d > 0
  PROVE  \E q \in Int, r \in 0 .. d - 1 : x = q * d + r /\ x % d = r
<1> DEFINE q == x \div d
           r == x % d
<1>1. q \in Int
  OBVIOUS
<1>2. x = d * q + r
  OBVIOUS
<1>3. r \in 0 .. d - 1
  BY ModRange
<1> HIDE DEF q, r
<1>4. x = q * d + r
  BY <1>1, <1>2, <1>3
<1>5. \E q0 \in Int, r0 \in 0 .. d - 1 : x = q0 * d + r0 /\ r = r0
  BY <1>1, <1>3, <1>4
<1> QED BY <1>5 DEF r

LEMMA Distribute ==
  ASSUME NEW a \in Int, NEW b \in Int, NEW d \in Int
  PROVE  (a + b) * d = a * d + b * d /\ (a - b) * d = a * d - b * d
OBVIOUS

(* A summand may be reduced first. *)
LEMMA ModSum ==
  ASSUME NEW x \in Int, NEW k \in Int, NEW d \in Nat, d > 0
  PROVE  ((x % d) + k) % d = (x + k) % d
<1>1. PICK q \in Int, s \in 0 .. d - 1 : x = q * d + s /\ x % d = s
  BY DivMod
<1>2. s + k \in Int
  OBVIOUS
<1>3. PICK p \in Int, r \in 0 .. d - 1 : s + k = p * d + r /\ (s + k) % d = r
  BY <1>2, DivMod
<1>4. x + k = (q + p) * d + r
  <2>1. (q + p) * d = q * d + p * d
    BY Distribute
  <2>2. q * d \in Int /\ p * d \in Int
    OBVIOUS
  <2> QED BY <1>1, <1>3, <2>1, <2>2
<1>5. ((q + p) * d + r) % d = r
  BY ModUnique
<1> QED BY <1>1, <1>3, <1>4, <1>5, Zenon

(* Reducing by a multiple first changes nothing. *)
LEMMA ModMod ==
  ASSUME NEW x \in Int, NEW d \in Nat, d > 0, NEW e \in Nat, e > 0, e % d = 0
  PROVE  (x % e) % d = x % d
<1>1. PICK q \in Int, s \in 0 .. e - 1 : x = q * e + s /\ x % e = s
  BY DivMod
<1>2. PICK m \in Int, z \in 0 .. d - 1 : e = m * d + z /\ e % d = z
  BY DivMod
<1>3. PICK p \in Int, r \in 0 .. d - 1 : s = p * d + r /\ s % d = r
  BY DivMod
<1>4. x = (q * m + p) * d + r
  <2>1. z = 0
    BY <1>2, Zenon
  <2>2. e = m * d
    BY <1>2, <2>1
  <2>3. q * (m * d) = (q * m) * d
    OBVIOUS
  <2>4. (q * m + p) * d = (q * m) * d + p * d
    BY Distribute
  <2>5. x = (q * m) * d + s
    BY <1>1, <2>2, <2>3, Zenon
  <2>6. (q * m) * d \in Int /\ p * d \in Int
    OBVIOUS
  <2> QED BY <1>3, <2>4, <2>5, <2>6
<1>5. ((q * m + p) * d + r) % d = r
  <2>1. q * m + p \in Int
    OBVIOUS
  <2> QED BY <2>1, ModUnique
<1> QED BY <1>1, <1>3, <1>4, <1>5, Zenon

(* The distance on the ring of two counters less than a turn apart *)
LEMMA ModDistance ==
  ASSUME NEW x \in Int, NEW y \in Int, NEW d \in Nat, d > 0, x <= y, y - x < d
  PROVE  ((y % d) - (x % d)) % d = y - x
<1>1. PICK q \in Int, a \in 0 .. d - 1 : x = q * d + a /\ x % d = a
  BY DivMod
<1>2. PICK p \in Int, b \in 0 .. d - 1 : y = p * d + b /\ y % d = b
  BY DivMod
<1>3. b - a = (q - p) * d + (y - x)
  <2>1. (q - p) * d = q * d - p * d
    BY Distribute
  <2>2. q * d \in Int /\ p * d \in Int
    OBVIOUS
  <2> QED BY <1>1, <1>2, <2>1, <2>2
<1>4. ((q - p) * d + (y - x)) % d = y - x
  <2>1. y - x \in Nat /\ q - p \in Int
    OBVIOUS
  <2> QED BY <2>1, ModUnique
<1>5. (b - a) % d = y - x
  BY <1>3, <1>4, Zenon
<1> QED BY <1>1, <1>2, <1>5, Zenon

(* Counters less than a turn apart have different slots. *)
LEMMA ModDistinct ==
  ASSUME NEW x \in Int, NEW y \in Int, NEW d \in Nat, d > 0, x < y, y - x < d
  PROVE  x % d # y % d
<1> SUFFICES ASSUME x % d = y % d PROVE FALSE
  OBVIOUS
<1>1. ((y % d) - (x % d)) % d = y - x
  BY ModDistance
<1>2. PICK a \in 0 .. d - 1 : y % d = a
  <2>1. y % d \in 0 .. d - 1
    BY ModRange
  <2> QED BY <2>1, Zenon
<1>3. (a - a) % d = y - x
  BY <1>1, <1>2, Zenon
<1>4. a - a = 0 /\ 0 % d = 0
  OBVIOUS
<1>5. 0 = y - x
  BY <1>3, <1>4, Zenon
<1> QED BY <1>5

(* Induction on an interval: a set that has its first number, and with a   *)
(* number the next one, has all of it.                                     *)
LEMMA IntervalInduction ==
  ASSUME NEW lo \in Nat, NEW N \in Nat, NEW G,
         lo <= N => lo \in G,
         \A n \in lo + 1 .. N : n - 1 \in G => n \in G
  PROVE  \A n \in lo .. N : n \in G
<1> DEFINE U == (lo .. N) \ G
<1>1. SUFFICES ASSUME U # {} PROVE FALSE
  OBVIOUS
<1>2. PICK x \in U : x - 1 \notin U
  <2>1. U \subseteq Nat
    OBVIOUS
  <2> HIDE DEF U
  <2> QED BY <1>1, <2>1, FirstNat
<1>3. x # lo
  OBVIOUS
<1>4. x \in lo + 1 .. N /\ x - 1 \in lo .. N
  BY <1>3
<1> QED BY <1>2, <1>4

(* A set of numbers that is not empty and has a bound has a greatest one. *)
LEMMA GreatestNat ==
  ASSUME NEW N \in Nat, NEW S, S \subseteq 0 .. N, S # {}
  PROVE  \E x \in S : \A y \in S : y <= x
<1> DEFINE T == {N - x : x \in S}
<1>1. T \subseteq Nat
  OBVIOUS
<1>2. \A y \in S : N - y \in T
  OBVIOUS
<1>0. T # {}
  BY <1>2, Zenon
<1>3. \A t \in T : \E x \in S : t = N - x
  OBVIOUS
<1> HIDE DEF T
<1>4. PICK t \in T : \A y \in T : t <= y
  BY <1>0, <1>1, LeastNat
<1>5. PICK x \in S : t = N - x
  BY <1>3
<1>6. ASSUME NEW y \in S PROVE y <= x
  <2>1. N - x <= N - y
    BY <1>2, <1>4, <1>5
  <2>2. x \in 0 .. N /\ y \in 0 .. N
    OBVIOUS
  <2> QED BY <2>1, <2>2
<1> QED BY <1>6
=============================================================================
