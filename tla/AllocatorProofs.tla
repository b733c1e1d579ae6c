-------------------------- MODULE AllocatorProofs --------------------------
(***************************************************************************)
(* Proofs about the two allocators.  The device heap's blocks tile it and  *)
(* the buckets hold exactly the free ones: a size rounded up begins a      *)
(* bucket, so that any block of a bucket at or above it will do, and what  *)
(* refuses a request refuses it for want of such a block.  A slab of the   *)
(* host pool is a list of blocks in order; splitting a block of it and     *)
(* absorbing a neighbour are one relation read both ways.                  *)
(***************************************************************************)
EXTENDS Tlsf, HostPool, FiniteSetTheorems, SequenceTheorems, WellFoundedInduction, TLAPS

-----------------------------------------------------------------------------
(***************************************************************************)
(* Numbers: least members, multiples, and powers of two.                   *)
(***************************************************************************)

LEMMA LeastNumber ==
    ASSUME NEW s \in SUBSET Nat, s # {}
    PROVE  \E x \in s : \A y \in s : x <= y
<1> DEFINE R == {ss \in Nat \X Nat : ss[1] < ss[2]}
<1>1. IsWellFoundedOn(R, Nat)
    BY NatLessThanWellFounded DEF OpToRel
<1> HIDE DEF R
<1>2. PICK x \in s : \A y \in s : ~ (<<y, x>> \in R)
    BY <1>1, WFMin
<1>3. ASSUME NEW y \in s PROVE x <= y
  <2>1. y < x => <<y, x>> \in R
      BY DEF R
  <2> QED BY <1>2, <2>1
<1> QED BY <1>3

LEMMA Times ==
    ASSUME NEW a \in Nat, NEW b \in Nat, NEW c \in Nat
    PROVE  /\ a * b \in Nat /\ a * b = b * a
           /\ (a + b) * c = a * c + b * c
           /\ a <= b => a * c <= b * c
           /\ a < b => a * c + c <= b * c
           /\ c * 1 = c /\ 1 * c = c
    OBVIOUS

LEMMA Divided ==
    ASSUME NEW a \in Nat, NEW g \in Nat \ {0}
    PROVE  /\ a \div g \in Nat /\ (a \div g) * g \in Nat
           /\ (a \div g) * g <= a /\ a < (a \div g) * g + g
    OBVIOUS

\* What quotients say of the numbers divided.
LEMMA DividedBelow ==
    ASSUME NEW a \in Nat, NEW k \in Nat, NEW g \in Nat \ {0}
    PROVE  /\ a < k * g => a \div g < k
           /\ a >= k * g => a \div g >= k
<1>1. PICK d \in Nat : d = a \div g /\ d * g <= a /\ a < d * g + g
    BY Divided
<1>2. d * g \in Nat /\ k * g \in Nat
    BY <1>1, Times
<1>3. ASSUME a < k * g, d >= k PROVE FALSE
  <2>1. k * g <= d * g
      BY <1>1, <1>3, Times
  <2> QED BY <1>1, <1>2, <1>3, <2>1
<1>4. ASSUME a >= k * g, d < k PROVE FALSE
  <2>1. d * g + g <= k * g
      BY <1>1, <1>4, Times
  <2> QED BY <1>1, <1>2, <1>4, <2>1
<1> QED BY <1>1, <1>3, <1>4

\* Rounding up gives the first multiple there is.
LEMMA RoundedUp ==
    ASSUME NEW v \in Nat, NEW a \in Nat \ {0}
    PROVE  /\ round_up(v, a) \in Nat /\ v <= round_up(v, a) /\ round_up(v, a) < v + a
           /\ round_up(v, a) % a = 0
           /\ \E k \in Nat : round_up(v, a) = k * a
           /\ \A k \in Nat : v <= k * a => round_up(v, a) <= k * a
<1>1. PICK w \in Nat : w = v + a - 1
    OBVIOUS
<1>2. PICK k \in Nat : k = w \div a /\ k * a \in Nat /\ k * a <= w /\ w < k * a + a
    BY Divided
<1>3. round_up(v, a) = k * a
    BY <1>1, <1>2 DEF round_up
<1>4. (k * a) % a = 0
    OBVIOUS
<1>5. v <= k * a /\ k * a < v + a
    BY <1>1, <1>2
<1>6. ASSUME NEW m \in Nat, v <= m * a PROVE k * a <= m * a
  <2>1. SUFFICES ASSUME m < k PROVE FALSE
    <3>1. k <= m => k * a <= m * a
        BY Times
    <3> QED BY <3>1
  <2>2. m * a + a <= k * a /\ m * a \in Nat
      BY <2>1, Times
  <2> QED BY <1>2, <1>5, <1>6, <2>2
<1> QED BY <1>2, <1>3, <1>4, <1>5, <1>6

\* The powers of two count the subsets of a set.
LEMMA PowerNext ==
    ASSUME NEW n \in Nat
    PROVE  2 ^ n \in Nat \ {0} /\ 2 ^ (n + 1) = 2 * 2 ^ n
<1> DEFINE S == SUBSET (1 .. n)
           T == {s \cup {n + 1} : s \in S}
           f == [s \in S |-> s \cup {n + 1}]
<1>1. /\ IsFiniteSet(1 .. n) /\ Cardinality(1 .. n) = n /\ IsFiniteSet(1 .. n + 1)
      /\ Cardinality(1 .. n + 1) = n + 1
  <2>1. n \in Int /\ n + 1 \in Int /\ 1 \in Int
      OBVIOUS
  <2> QED BY <2>1, FS_Interval
<1>2. IsFiniteSet(S) /\ Cardinality(S) = 2 ^ n
    BY <1>1, FS_SUBSET
<1>3. Cardinality(SUBSET (1 .. n + 1)) = 2 ^ (n + 1)
    BY <1>1, FS_SUBSET
<1>4. SUBSET (1 .. n + 1) = S \cup T
  <2>1. ASSUME NEW s \in SUBSET (1 .. n + 1) PROVE s \in S \cup T
    <3>1. CASE n + 1 \in s
      <4>1. s \ {n + 1} \in S /\ s = (s \ {n + 1}) \cup {n + 1}
          BY <3>1
      <4> QED BY <4>1
    <3>2. CASE n + 1 \notin s
        BY <3>2
    <3> QED BY <3>1, <3>2
  <2>2. ASSUME NEW s \in S \cup T PROVE s \in SUBSET (1 .. n + 1)
      OBVIOUS
  <2> QED BY <2>1, <2>2
<1>5. S \cap T = {}
  <2>1. ASSUME NEW s \in S PROVE n + 1 \notin s
      OBVIOUS
  <2> QED BY <2>1
<1>6. f \in Bijection(S, T)
  <2>1. f \in [S -> T]
      OBVIOUS
  <2>2. ASSUME NEW a \in S, NEW b \in S, f[a] = f[b] PROVE a = b
    <3>1. a \cup {n + 1} = b \cup {n + 1}
        BY <2>2
    <3>2. n + 1 \notin a /\ n + 1 \notin b
        OBVIOUS
    <3> QED BY <3>1, <3>2
  <2>3. \A t \in T : \E s \in S : f[s] = t
      OBVIOUS
  <2> QED BY <2>1, <2>2, <2>3 DEF Bijection, Injection, Surjection, IsInjective
<1>7. IsFiniteSet(T) /\ Cardinality(T) = Cardinality(S)
    BY <1>2, <1>6, FS_Bijection DEF ExistsBijection
<1>8. Cardinality(S \cup T) = Cardinality(S) + Cardinality(T) - Cardinality(S \cap T)
    BY <1>2, <1>7, FS_Union
<1>9. Cardinality(S \cap T) = 0
    BY <1>5, FS_EmptySet
<1>10. Cardinality(S) \in Nat /\ Cardinality(S) # 0
  <2>1. {} \in S
      OBVIOUS
  <2> QED BY <1>2, <2>1, FS_EmptySet, FS_CardinalityType
<1>11. PICK c \in Nat : c = Cardinality(S) /\ c # 0
    BY <1>10
<1>12. Cardinality(SUBSET (1 .. n + 1)) = c + c - 0
    BY <1>4, <1>7, <1>8, <1>9, <1>11, Zenon
<1>13. c + c - 0 = 2 * c
    OBVIOUS
<1>14. 2 ^ n = c /\ 2 ^ (n + 1) = 2 * c
    BY <1>2, <1>3, <1>11, <1>12, <1>13, Zenon
<1>15. c \in Nat \ {0}
    BY <1>11
<1> QED BY <1>14, <1>15, Zenon

LEMMA PowerZero == 2 ^ 0 = 1
<1>1. IsFiniteSet({}) /\ Cardinality({}) = 0
    BY FS_EmptySet
<1>2. Cardinality(SUBSET {}) = 2 ^ Cardinality({})
    BY <1>1, FS_SUBSET
<1>3. SUBSET {} = {{}}
    OBVIOUS
<1> QED BY <1>1, <1>2, <1>3, FS_Singleton

Pow == [n \in Nat |-> 2 ^ n]

LEMMA Powers ==
    /\ Pow \in [Nat -> Nat \ {0}] /\ Pow[0] = 1
    /\ \A n \in Nat : 2 ^ n = Pow[n] /\ Pow[n + 1] = 2 * Pow[n]
<1>1. \A n \in Nat : 2 ^ n = Pow[n]
    BY Zenon DEF Pow
<1>2. ASSUME NEW n \in Nat PROVE Pow[n] \in Nat \ {0} /\ Pow[n + 1] = 2 * Pow[n]
  <2>1. n + 1 \in Nat
      OBVIOUS
  <2>2. Pow[n] = 2 ^ n /\ Pow[n + 1] = 2 ^ (n + 1)
      BY <1>1, <2>1, Zenon
  <2>3. 2 ^ n \in Nat \ {0} /\ 2 ^ (n + 1) = 2 * 2 ^ n
      BY PowerNext, Zenon
  <2> QED BY <2>2, <2>3, Zenon
<1>3. Pow[0] = 1
  <2>1. 0 \in Nat
      OBVIOUS
  <2> QED BY <1>1, <2>1, PowerZero, Zenon
<1>4. Pow \in [Nat -> Nat \ {0}]
  <2>1. Pow = [n \in Nat |-> Pow[n]]
      BY Zenon DEF Pow
  <2> QED BY <1>2, <2>1
<1> QED BY <1>1, <1>2, <1>3, <1>4

LEMMA PowSum ==
    ASSUME NEW a \in Nat, NEW b \in Nat
    PROVE  Pow[a + b] = Pow[a] * Pow[b]
<1> DEFINE s == {n \in Nat : Pow[a + n] # Pow[a] * Pow[n]}
<1>1. SUFFICES ASSUME s # {} PROVE FALSE
    OBVIOUS
<1>2. PICK x \in s : \A y \in s : x <= y
    BY <1>1, LeastNumber
<1>3. Pow[a] \in Nat /\ Pow[0] = 1 /\ Pow[a + 0] = Pow[a]
    BY Powers
<1>4. x # 0
    BY <1>2, <1>3
<1>5. PICK n \in Nat : x = n + 1 /\ a + x = (a + n) + 1 /\ a + n \in Nat
    BY <1>4
<1>6. Pow[a + n] = Pow[a] * Pow[n]
    BY <1>2, <1>5
<1>7. Pow[a + x] = 2 * Pow[a + n] /\ Pow[x] = 2 * Pow[n] /\ Pow[n] \in Nat
    BY <1>5, Powers
<1>8. PICK p \in Nat, q \in Nat : p = Pow[a] /\ q = Pow[n]
    BY <1>3, <1>7
<1>9. 2 * (p * q) = p * (2 * q)
    OBVIOUS
<1> QED BY <1>2, <1>6, <1>7, <1>8, <1>9

LEMMA PowUp ==
    ASSUME NEW a \in Nat, NEW b \in Nat
    PROVE  /\ a <= b => Pow[a] <= Pow[b]
           /\ Pow[a] < Pow[b] => a < b
           /\ a < Pow[a]
<1>1. ASSUME NEW c \in Nat, NEW d \in Nat, c <= d PROVE Pow[c] <= Pow[d]
  <2>1. PICK n \in Nat : d = c + n
    <3>1. d - c \in Nat /\ d = c + (d - c)
        BY <1>1
    <3> QED BY <3>1
  <2>2. PICK p \in Nat \ {0}, q \in Nat \ {0} : p = Pow[c] /\ q = Pow[n]
      BY Powers
  <2>3. Pow[d] = p * q
      BY <2>1, <2>2, PowSum
  <2>4. 1 * p <= q * p /\ q * p = p * q /\ 1 * p = p
      BY Times
  <2> QED BY <2>2, <2>3, <2>4
<1>2. Pow[a] \in Nat /\ Pow[b] \in Nat
    BY Powers
<1>3. a < Pow[a]
  <2> DEFINE s == {n \in Nat : ~ (n < Pow[n])}
  <2>1. SUFFICES ASSUME s # {} PROVE FALSE
      OBVIOUS
  <2>2. PICK x \in s : \A y \in s : x <= y
      BY <2>1, LeastNumber
  <2>3. x # 0
      BY <2>2, Powers
  <2>4. PICK n \in Nat : x = n + 1
      BY <2>3
  <2>5. n < Pow[n]
    <3>1. n \notin s
        BY <2>2, <2>4
    <3> QED BY <3>1
  <2>6. Pow[x] = 2 * Pow[n] /\ Pow[n] \in Nat
      BY <2>4, Powers
  <2> QED BY <2>2, <2>4, <2>5, <2>6
<1>4. Pow[a] < Pow[b] => a < b
  <2>1. b <= a => Pow[b] <= Pow[a]
      BY <1>1
  <2> QED BY <1>2, <2>1
<1> QED BY <1>1, <1>3, <1>4

\* A number lies between the powers of its length.
LEMMA BitLength ==
    ASSUME NEW v \in Nat \ {0}
    PROVE  /\ bit_length(v) \in Nat \ {0}
           /\ Pow[bit_length(v) - 1] <= v /\ v < Pow[bit_length(v)]
<1> DEFINE s == {n \in Nat : v < Pow[n]}
<1>1. v \in s
    BY PowUp
<1>2. PICK x \in s : \A y \in s : x <= y
    BY <1>1, LeastNumber
<1>3. x # 0
    BY <1>2, Powers
<1>4. x - 1 \in Nat /\ x - 1 \notin s /\ x \in 1 .. v
    BY <1>1, <1>2, <1>3
<1>5. Pow[x - 1] <= v /\ v < Pow[x]
    BY <1>2, <1>4, Powers
<1>6. \A n \in 1 .. v : n \in Nat /\ n - 1 \in Nat /\ n # 0
    OBVIOUS
<1>7. \A n \in 1 .. v : 2 ^ (n - 1) = Pow[n - 1] /\ 2 ^ n = Pow[n]
    BY <1>6, Powers, Zenon
<1>8. 2 ^ (x - 1) <= v /\ v < 2 ^ x
    BY <1>4, <1>5, <1>7, Zenon
<1>9. bit_length(v) = CHOOSE n \in 1 .. v : 2 ^ (n - 1) <= v /\ v < 2 ^ n
  <2>1. v # 0
      OBVIOUS
  <2> QED BY <2>1, Zenon DEF bit_length
<1>10. bit_length(v) \in 1 .. v /\ 2 ^ (bit_length(v) - 1) <= v /\ v < 2 ^ bit_length(v)
    BY <1>4, <1>8, <1>9, Zenon
<1> QED BY <1>6, <1>7, <1>10, Zenon

-----------------------------------------------------------------------------
(***************************************************************************)
(* Buckets.  A bucket begins at a size that is a multiple of its granule,  *)
(* and the sizes of a later bucket are larger.                             *)
(***************************************************************************)

\* A size's place among the buckets of its length.
Slot(v) == (v - Pow[bit_length(v) - 1]) \div Granule(v)

LEMMA GranuleOf ==
    ASSUME NEW v \in Nat \ {0}
    PROVE  /\ Granule(v) \in Nat \ {0}
           /\ Granule(v) = IF bit_length(v) > LV2_BITS THEN Pow[bit_length(v) - LV2_BITS] ELSE 1
<1>1. PICK l \in Nat : l = bit_length(v)
    BY BitLength
<1>2. PICK b \in Nat : b = LV2_BITS
    BY TlsfAssumption
<1>3. CASE l > b
  <2>1. l - b \in Nat /\ l - b > 0
      BY <1>3
  <2>2. Granule(v) = 2 ^ (l - b)
      BY <1>1, <1>2, <2>1, Zenon DEF Granule
  <2>3. 2 ^ (l - b) = Pow[l - b] /\ Pow[l - b] \in Nat \ {0}
      BY <2>1, Powers, Zenon
  <2> QED BY <1>1, <1>2, <1>3, <2>2, <2>3, Zenon
<1>4. CASE ~ (l > b)
  <2>1. ~ (l - b > 0)
      BY <1>4
  <2>2. Granule(v) = 1
      BY <1>1, <1>2, <2>1, Zenon DEF Granule
  <2>3. 1 \in Nat \ {0}
      OBVIOUS
  <2> QED BY <1>1, <1>2, <1>4, <2>2, <2>3, Zenon
<1> QED BY <1>3, <1>4

LEMMA CountOf == LV2_COUNT = Pow[LV2_BITS - 1] /\ LV2_COUNT \in Nat \ {0}
<1>1. LV2_BITS - 1 \in Nat
    BY TlsfAssumption
<1>2. LV2_COUNT = 2 ^ (LV2_BITS - 1)
    BY TlsfAssumption, Zenon
<1> QED BY <1>1, <1>2, Powers, Zenon

\* The sizes of a length are as many granules as there are slots, at most.
LEMMA LengthInSlots ==
    ASSUME NEW v \in Nat \ {0}
    PROVE  LET l == bit_length(v)
           IN  /\ Pow[l] = Pow[l - 1] + Pow[l - 1]
               /\ Pow[l - 1] <= LV2_COUNT * Granule(v)
               /\ \E k \in Nat : Pow[l - 1] = k * Granule(v)
<1>1. PICK l \in Nat \ {0} : l = bit_length(v)
    BY BitLength
<1>2. PICK b \in Nat \ {0} : b = LV2_BITS
    BY TlsfAssumption
<1>3. PICK h \in Nat : h = Pow[l - 1] /\ Pow[l] = h + h
  <2>1. l - 1 \in Nat /\ (l - 1) + 1 = l
      OBVIOUS
  <2>2. Pow[l - 1] \in Nat /\ Pow[(l - 1) + 1] = 2 * Pow[l - 1]
      BY <2>1, Powers, Zenon
  <2>3. PICK h \in Nat : h = Pow[l - 1]
      BY <2>2
  <2>4. 2 * h = h + h
      OBVIOUS
  <2> QED BY <2>1, <2>2, <2>3, <2>4
<1>4. PICK c \in Nat : c = LV2_COUNT /\ c = Pow[b - 1]
    BY <1>2, CountOf
<1>5. PICK g \in Nat \ {0} : g = Granule(v) /\ g = IF l > b THEN Pow[l - b] ELSE 1
    BY <1>1, <1>2, GranuleOf
<1>6. h <= c * g /\ \E k \in Nat : h = k * g
  <2>1. CASE l > b
    <3>1. b - 1 \in Nat /\ l - b \in Nat /\ (b - 1) + (l - b) = l - 1
        BY <2>1
    <3>2. Pow[(b - 1) + (l - b)] = Pow[b - 1] * Pow[l - b]
        BY <3>1, PowSum
    <3>3. h = c * g
        BY <1>3, <1>4, <1>5, <2>1, <3>1, <3>2
    <3> QED BY <3>3
  <2>2. CASE ~ (l > b)
    <3>1. l - 1 \in Nat /\ b - 1 \in Nat /\ l - 1 <= b - 1
        BY <2>2
    <3>2. h <= c
        BY <1>3, <1>4, <3>1, PowUp
    <3>3. g = 1 /\ c * 1 = c /\ h * 1 = h
        BY <1>5, <2>2
    <3> QED BY <3>2, <3>3
  <2> QED BY <2>1, <2>2
<1> QED BY <1>1, <1>3, <1>4, <1>5, <1>6

LEMMA BucketOf ==
    ASSUME NEW v \in Nat \ {0}
    PROVE  /\ Slot(v) \in Nat /\ Slot(v) < LV2_COUNT
           /\ bucket_of(v) = bit_length(v) * LV2_COUNT + Slot(v) /\ bucket_of(v) \in Nat
<1>1. PICK l \in Nat \ {0} : l = bit_length(v)
    BY BitLength
<1>2. PICK h \in Nat : h = Pow[l - 1] /\ h <= v /\ v < h + h
  <2>1. l - 1 \in Nat
      OBVIOUS
  <2>2. Pow[l - 1] \in Nat
      BY <2>1, Powers
  <2> QED BY <1>1, <2>2, BitLength, LengthInSlots
<1>3. PICK c \in Nat : c = LV2_COUNT
    BY CountOf
<1>4. PICK g \in Nat \ {0} : g = Granule(v)
    BY GranuleOf
<1>5. h <= c * g
    BY <1>1, <1>2, <1>3, <1>4, LengthInSlots
<1>6. PICK o \in Nat : o = v - h /\ o < c * g
  <2>1. c * g \in Nat
      BY Times
  <2>2. v - h \in Nat /\ v - h < c * g
      BY <1>2, <1>5, <2>1
  <2> QED BY <2>2
<1>7. PICK q \in Nat : q = o \div g /\ q < c
    BY <1>6, Divided, DividedBelow
<1>8. Slot(v) = q
    BY <1>1, <1>2, <1>4, <1>6, <1>7 DEF Slot
<1>9. bucket_of(v) = l * c + q
  <2>1. 2 ^ (l - 1) = Pow[l - 1]
    <3>1. l - 1 \in Nat
        OBVIOUS
    <3> QED BY <3>1, Powers, Zenon
  <2>2. 2 ^ (l - 1) = h
      BY <1>2, <2>1, Zenon
  <2>3. bucket_of(v) = l * c + (v - h) \div g
      BY <1>1, <1>3, <1>4, <2>2, Zenon DEF bucket_of
  <2> QED BY <1>6, <1>7, <2>3, Zenon
<1>10. l * c \in Nat
    BY Times
<1> QED BY <1>1, <1>3, <1>7, <1>8, <1>9, <1>10

LEMMA LengthUp ==
    ASSUME NEW u \in Nat \ {0}, NEW v \in Nat \ {0}, u <= v
    PROVE  bit_length(u) <= bit_length(v)
<1>1. PICK l \in Nat \ {0} : l = bit_length(u)
    BY BitLength
<1>2. PICK m \in Nat \ {0} : m = bit_length(v)
    BY BitLength
<1>3. l - 1 \in Nat /\ Pow[l - 1] \in Nat /\ Pow[m] \in Nat
    BY Powers
<1>4. Pow[l - 1] <= u /\ v < Pow[m]
    BY <1>1, <1>2, BitLength
<1>5. Pow[l - 1] < Pow[m]
    BY <1>3, <1>4
<1>6. l - 1 < m
    BY <1>3, <1>5, PowUp
<1> QED BY <1>1, <1>2, <1>6

\* Where the lengths differ the buckets do.
LEMMA ShorterIsEarlier ==
    ASSUME NEW u \in Nat \ {0}, NEW v \in Nat \ {0}, bit_length(u) < bit_length(v)
    PROVE  bucket_of(u) < bit_length(v) * LV2_COUNT
<1>1. PICK l \in Nat, m \in Nat : l = bit_length(u) /\ m = bit_length(v) /\ l < m
    BY BitLength
<1>2. PICK c \in Nat, s \in Nat : c = LV2_COUNT /\ s = Slot(u) /\ s < c /\ bucket_of(u) = l * c + s
    BY <1>1, CountOf, BucketOf
<1>3. l * c + c <= m * c /\ l * c \in Nat /\ m * c \in Nat
    BY <1>1, Times
<1> QED BY <1>1, <1>2, <1>3

LEMMA BucketUp ==
    ASSUME NEW u \in Nat \ {0}, NEW v \in Nat \ {0}, u <= v
    PROVE  bucket_of(u) <= bucket_of(v)
<1>1. PICK l \in Nat \ {0}, m \in Nat \ {0} : l = bit_length(u) /\ m = bit_length(v)
    BY BitLength
<1>2. l <= m
    BY <1>1, LengthUp
<1>3. PICK c \in Nat, s \in Nat, t \in Nat :
        /\ c = LV2_COUNT /\ s = Slot(u) /\ t = Slot(v)
        /\ bucket_of(u) = l * c + s /\ bucket_of(v) = m * c + t
    BY <1>1, CountOf, BucketOf
<1>4. l * c \in Nat /\ m * c \in Nat
    BY Times
<1>5. CASE l < m
  <2>1. bucket_of(u) < m * c
      BY <1>1, <1>3, <1>5, ShorterIsEarlier
  <2> QED BY <1>3, <1>4, <2>1
<1>6. CASE l = m
  <2>1. PICK h \in Nat : h = Pow[l - 1] /\ h <= u
    <3>1. l - 1 \in Nat
        OBVIOUS
    <3> QED BY <1>1, <3>1, Powers, BitLength
  <2>2. PICK g \in Nat \ {0} : g = Granule(u) /\ g = Granule(v)
    <3>1. Granule(u) = Granule(v)
        BY <1>1, <1>6, GranuleOf
    <3> QED BY <3>1, GranuleOf
  <2>3. s = (u - h) \div g /\ t = (v - h) \div g
      BY <1>1, <1>3, <1>6, <2>1, <2>2 DEF Slot
  <2>4. PICK x \in Nat, y \in Nat : x = u - h /\ y = v - h /\ x <= y
    <3>1. u - h \in Nat /\ v - h \in Nat /\ u - h <= v - h
        BY <2>1
    <3> QED BY <3>1
  <2>5. s * g <= x /\ s * g \in Nat
      BY <2>2, <2>3, <2>4, Divided
  <2>6. y >= s * g
      BY <2>4, <2>5
  <2>7. t >= s
      BY <2>2, <2>3, <2>4, <2>6, DividedBelow
  <2> QED BY <1>3, <1>4, <1>6, <2>7
<1> QED BY <1>2, <1>5, <1>6

\* What is rounded up to a granule begins a bucket: smaller sizes are in
\* earlier ones.
LEMMA RoundedBegins ==
    ASSUME NEW w \in Nat \ {0}, NEW x \in Nat \ {0}, x < round_up(w, Granule(w))
    PROVE  bucket_of(x) < bucket_of(round_up(w, Granule(w)))
<1>1. PICK g \in Nat \ {0} : g = Granule(w)
    BY GranuleOf
<1>2. PICK r \in Nat \ {0} : r = round_up(w, Granule(w))
  <2>1. round_up(w, g) \in Nat /\ w <= round_up(w, g)
      BY RoundedUp
  <2> QED BY <1>1, <2>1
<1>3. w <= r /\ x < r /\ (\E k \in Nat : r = k * g) /\ \A k \in Nat : w <= k * g => r <= k * g
    BY <1>1, <1>2, RoundedUp
<1>4. PICK l \in Nat \ {0} : l = bit_length(w)
    BY BitLength
<1>5. PICK h \in Nat : h = Pow[l - 1] /\ Pow[l] = h + h /\ h <= w /\ w < h + h
  <2>1. l - 1 \in Nat
      OBVIOUS
  <2>2. Pow[l - 1] \in Nat
      BY <2>1, Powers
  <2> QED BY <1>4, <2>2, BitLength, LengthInSlots
<1>6. PICK j \in Nat : h = j * g
    BY <1>1, <1>4, <1>5, LengthInSlots
<1>7. r <= h + h
  <2>1. (j + j) * g = h + h
      BY <1>6, Times
  <2>2. j + j \in Nat /\ w <= (j + j) * g
      BY <1>5, <2>1
  <2> QED BY <1>3, <2>1, <2>2
<1>8. PICK lx \in Nat \ {0}, lr \in Nat \ {0} : lx = bit_length(x) /\ lr = bit_length(r)
    BY BitLength
<1>9. l <= lr /\ lx <= lr
    BY <1>3, <1>4, <1>8, LengthUp
<1>10. PICK c \in Nat, sx \in Nat, sr \in Nat :
        /\ c = LV2_COUNT /\ sx = Slot(x) /\ sr = Slot(r)
        /\ bucket_of(x) = lx * c + sx /\ bucket_of(r) = lr * c + sr
    BY <1>8, CountOf, BucketOf
<1>11. lx * c \in Nat /\ lr * c \in Nat
    BY Times
<1>12. CASE lx < lr
  <2>1. bucket_of(x) < lr * c
      BY <1>8, <1>10, <1>12, ShorterIsEarlier
  <2> QED BY <1>2, <1>10, <1>11, <2>1
<1>13. CASE lx = lr
  <2>1. l = lr
    <3>1. SUFFICES ASSUME l < lr PROVE FALSE
        BY <1>9
    <3>2. l <= lr - 1 /\ lr - 1 \in Nat
        BY <3>1
    <3>3. Pow[l] <= Pow[lr - 1] /\ Pow[lr - 1] \in Nat
        BY <3>2, PowUp, Powers
    <3>4. Pow[lr - 1] <= x
        BY <1>8, <1>13, BitLength
    <3> QED BY <1>3, <1>5, <1>7, <3>3, <3>4
  <2>2. Granule(x) = g /\ Granule(r) = g
      BY <1>1, <1>4, <1>8, <1>13, <2>1, GranuleOf
  <2>3. sx = (x - h) \div g /\ sr = (r - h) \div g /\ h <= x
      BY <1>5, <1>8, <1>10, <1>13, <2>1, <2>2, BitLength DEF Slot
  <2>4. PICK k \in Nat : r = k * g
      BY <1>3
  <2>5. PICK i \in Nat : k = j + i
    <3>1. ~ (k < j)
      <4>1. k < j => k * g + g <= j * g
          BY Times
      <4> QED BY <4>1, <2>4, <1>3, <1>5, <1>6
    <3>2. k - j \in Nat /\ k = j + (k - j)
        BY <3>1
    <3> QED BY <3>2
  <2>6. r = h + i * g /\ i * g \in Nat
      BY <2>4, <2>5, <1>6, Times
  <2>7. PICK o \in Nat : o = x - h /\ o < i * g
    <3>1. x - h \in Nat /\ x - h < i * g
        BY <1>3, <2>3, <2>6
    <3> QED BY <3>1
  <2>8. sx < i
      BY <2>3, <2>7, DividedBelow
  <2>9. sr >= i
    <3>1. PICK p \in Nat : p = i * g /\ r - h = p
        BY <2>6
    <3>2. p \div g >= i
        BY <3>1, DividedBelow
    <3> QED BY <2>3, <3>1, <3>2
  <2> QED BY <1>2, <1>10, <1>11, <1>13, <2>8, <2>9
<1> QED BY <1>9, <1>12, <1>13

-----------------------------------------------------------------------------
(***************************************************************************)
(* The heap's blocks, and the buckets the free ones are in.                *)
(***************************************************************************)

HeapOf(blk, bucket, used) == [blk |-> blk, bucket |-> bucket, used |-> used]

FreeIn(bucket) == UNION {{bucket[b][i] : i \in DOMAIN bucket[b]} : b \in Buckets}

Sized(blk) == DOMAIN blk \subseteq 0 .. Size - 1 /\ blk \in [DOMAIN blk -> 1 .. Size]

Tiled(blk) ==
    /\ Sized(blk) /\ 0 \in DOMAIN blk
    /\ \A s \in DOMAIN blk : s + blk[s] = Size \/ s + blk[s] \in DOMAIN blk
    /\ \A s, t \in DOMAIN blk : s < t => s + blk[s] <= t

Filed(blk, bucket) ==
    /\ bucket \in [Buckets -> Seq(DOMAIN blk)]
    /\ \A b \in Buckets : \A i, j \in DOMAIN bucket[b] :
           /\ bucket_of(blk[bucket[b][i]]) = b
           /\ bucket[b][i] = bucket[b][j] => i = j

Merged(blk, free) == \A s \in free : s + blk[s] \notin free

Bytes(blk, starts) == UNION {s .. s + blk[s] - 1 : s \in starts}

LEMMA SizesHaveBuckets ==
    ASSUME NEW n \in 1 .. Size
    PROVE  bucket_of(n) \in Buckets
<1>1. n \in Nat \ {0} /\ Size \in Nat \ {0} /\ n <= Size
    BY TlsfAssumption
<1>2. bucket_of(n) \in Nat /\ bucket_of(Size) \in Nat /\ bucket_of(n) <= bucket_of(Size)
    BY <1>1, BucketUp, BucketOf
<1> QED BY <1>2 DEF Buckets

LEMMA FreeBlock ==
    ASSUME NEW blk, NEW bucket, Filed(blk, bucket), NEW s \in FreeIn(bucket)
    PROVE  /\ s \in DOMAIN blk /\ bucket_of(blk[s]) \in Buckets
           /\ \E k \in DOMAIN bucket[bucket_of(blk[s])] : bucket[bucket_of(blk[s])][k] = s
           /\ \A b \in Buckets : \A k \in DOMAIN bucket[b] :
                  bucket[b][k] = s => b = bucket_of(blk[s])
<1>1. PICK b, i : b \in Buckets /\ i \in DOMAIN bucket[b] /\ bucket[b][i] = s
    BY DEF FreeIn
<1>2. bucket_of(blk[s]) = b
    BY <1>1 DEF Filed
<1>3. s \in DOMAIN blk
  <2>1. PICK q \in Seq(DOMAIN blk) : q = bucket[b]
      BY <1>1 DEF Filed
  <2> QED BY <1>1, <2>1
<1>4. ASSUME NEW c \in Buckets, NEW k \in DOMAIN bucket[c], bucket[c][k] = s PROVE c = b
    BY <1>2, <1>4 DEF Filed
<1> QED BY <1>1, <1>2, <1>3, <1>4

\* Two sequences joined: the places of the one, and after them the other's.
LEMMA JoinedSeqs ==
    ASSUME NEW S, NEW s \in Seq(S), NEW t \in Seq(S)
    PROVE  /\ s \o t \in Seq(S) /\ Len(s \o t) = Len(s) + Len(t)
           /\ \A i \in 1 .. Len(s) : (s \o t)[i] = s[i]
           /\ \A m \in 1 .. Len(t) : (s \o t)[Len(s) + m] = t[m]
    OBVIOUS

\* Taken out of a sequence: what is left, in its order.
LEMMA TakenOut ==
    ASSUME NEW S, NEW q \in Seq(S), NEW k \in 1 .. Len(q)
    PROVE  LET r == SubSeq(q, 1, k - 1) \o SubSeq(q, k + 1, Len(q))
           IN  /\ r \in Seq(S) /\ Len(r) = Len(q) - 1
               /\ \A i \in 1 .. Len(r) : r[i] = IF i < k THEN q[i] ELSE q[i + 1]
<1> DEFINE u == SubSeq(q, 1, k - 1)
           v == SubSeq(q, k + 1, Len(q))
<1>1. Len(q) \in Nat /\ k \in Nat
    OBVIOUS
<1>2. u \in Seq(S) /\ Len(u) = k - 1 /\ \A i \in 1 .. k - 1 : u[i] = q[i]
    BY <1>1, SubSeqProperties
<1>3. v \in Seq(S) /\ Len(v) = Len(q) - k /\ \A i \in 1 .. Len(q) - k : v[i] = q[k + i]
  <2>1. Len(v) = Len(q) - k
      BY <1>1
  <2>2. v \in Seq(S)
      BY <1>1
  <2>3. ASSUME NEW i \in 1 .. Len(q) - k PROVE v[i] = q[k + i]
      BY <1>1
  <2> QED BY <2>1, <2>2, <2>3
<1> HIDE DEF u, v
<1>4. u \o v \in Seq(S) /\ Len(u \o v) = Len(u) + Len(v)
    BY <1>2, <1>3, JoinedSeqs
<1>5. \A i \in 1 .. Len(u) + Len(v) : (u \o v)[i] = IF i <= Len(u) THEN u[i] ELSE v[i - Len(u)]
  <2>1. ASSUME NEW i \in 1 .. Len(u) + Len(v), ~ (i <= Len(u))
        PROVE  \E m \in 1 .. Len(v) : i = Len(u) + m /\ m = i - Len(u)
    <3>1. Len(u) \in Nat /\ Len(v) \in Nat
        BY <1>2, <1>3
    <3>2. PICK a \in Nat, b \in Nat : a = Len(u) /\ b = Len(v)
        BY <3>1
    <3>3. i \in 1 .. a + b /\ ~ (i <= a)
        BY <2>1, <3>2
    <3>4. i - a \in 1 .. b /\ i = a + (i - a)
        BY <3>3
    <3> QED BY <3>2, <3>4
  <2>2. \A i \in 1 .. Len(u) + Len(v) : i <= Len(u) => i \in 1 .. Len(u)
      BY <1>2
  <2> QED BY <1>2, <1>3, <2>1, <2>2, JoinedSeqs
<1>6. ASSUME NEW i \in 1 .. Len(q) - 1 PROVE (u \o v)[i] = IF i < k THEN q[i] ELSE q[i + 1]
  <2>1. i \in 1 .. Len(u) + Len(v)
      BY <1>1, <1>2, <1>3
  <2>2. CASE i < k
    <3>1. i <= Len(u) /\ i \in 1 .. k - 1
        BY <1>1, <1>2, <2>2
    <3> QED BY <1>2, <1>5, <2>1, <2>2, <3>1
  <2>3. CASE ~ (i < k)
    <3>1. ~ (i <= Len(u)) /\ i - Len(u) \in 1 .. Len(q) - k /\ k + (i - Len(u)) = i + 1
        BY <1>1, <1>2, <2>3
    <3> QED BY <1>3, <1>5, <2>1, <2>3, <3>1
  <2> QED BY <2>2, <2>3
<1>7. Len(u \o v) = Len(q) - 1
    BY <1>1, <1>2, <1>3, <1>4
<1> QED BY <1>4, <1>6, <1>7 DEF u, v

LEMMA Removed ==
    ASSUME NEW blk, NEW bucket, NEW used, Filed(blk, bucket), NEW s \in FreeIn(bucket)
    PROVE  \E left : /\ bucket_remove(HeapOf(blk, bucket, used), s) = HeapOf(blk, left, used)
                     /\ Filed(blk, left) /\ FreeIn(left) = FreeIn(bucket) \ {s}
<1>1. PICK b \in Buckets : b = bucket_of(blk[s])
    BY FreeBlock
<1>2. bucket[b] \in Seq(DOMAIN blk) /\ bucket \in [Buckets -> Seq(DOMAIN blk)]
    BY DEF Filed
<1>3. PICK q \in Seq(DOMAIN blk) : q = bucket[b]
    BY <1>2
<1>4. PICK k \in DOMAIN q : q[k] = s /\ k = CHOOSE i \in DOMAIN q : q[i] = s
    BY <1>1, <1>3, FreeBlock
<1>5. PICK r : r = SubSeq(q, 1, k - 1) \o SubSeq(q, k + 1, Len(q))
    OBVIOUS
<1>6. PICK left : left = [bucket EXCEPT ![b] = r]
    OBVIOUS
<1>7. bucket_remove(HeapOf(blk, bucket, used), s) = HeapOf(blk, left, used)
  <2>4. PICK h : h = HeapOf(blk, bucket, used)
      OBVIOUS
  <2>1. h = HeapOf(blk, bucket, used) /\ h.blk = blk /\ h.bucket = bucket
      BY <2>4 DEF HeapOf
  <2>2. bucket_remove(h, s) = [h EXCEPT !.bucket[b] = r]
    <3>1. bucket_of(h.blk[s]) = b /\ h.bucket[b] = q
        BY <1>1, <1>3, <2>1
    <3>2. bucket_remove(h, s) = [h EXCEPT !.bucket[b] = SubSeq(h.bucket[b], 1, k - 1)
                                                          \o SubSeq(h.bucket[b], k + 1,
                                                             Len(h.bucket[b]))]
        BY <1>4, <3>1 DEF bucket_remove
    <3> QED BY <1>5, <3>1, <3>2
  <2>3. [h EXCEPT !.bucket[b] = r] = HeapOf(blk, left, used)
      BY <1>6, <2>1 DEF HeapOf
  <2> QED BY <2>1, <2>2, <2>3
<1>8. /\ r \in Seq(DOMAIN blk) /\ Len(r) = Len(q) - 1
      /\ \A i \in 1 .. Len(r) : r[i] = IF i < k THEN q[i] ELSE q[i + 1]
  <2>1. k \in 1 .. Len(q)
      BY <1>4
  <2> QED BY <1>5, <2>1, TakenOut
<1>9. left \in [Buckets -> Seq(DOMAIN blk)] /\ left[b] = r
      /\ \A c \in Buckets : c # b => left[c] = bucket[c]
    BY <1>2, <1>6, <1>8
<1>10. /\ DOMAIN q = 1 .. Len(q) /\ DOMAIN r = 1 .. Len(r) /\ Len(q) \in Nat /\ k \in 1 .. Len(q)
       /\ \A i, j \in DOMAIN q : bucket_of(blk[q[i]]) = b /\ (q[i] = q[j] => i = j)
    BY <1>3, <1>4, <1>8 DEF Filed
<1>11. \A i, j \in DOMAIN r : bucket_of(blk[r[i]]) = b /\ (r[i] = r[j] => i = j)
  <2>1. ASSUME NEW i \in DOMAIN r
        PROVE  \E x \in DOMAIN q : r[i] = q[x] /\ x = IF i < k THEN i ELSE i + 1
      BY <1>8, <1>10
  <2> QED BY <1>10, <2>1
<1>12. Filed(blk, left)
  <2>1. ASSUME NEW c \in Buckets, NEW i \in DOMAIN left[c], NEW j \in DOMAIN left[c]
        PROVE  bucket_of(blk[left[c][i]]) = c /\ (left[c][i] = left[c][j] => i = j)
    <3>1. CASE c = b
        BY <1>9, <1>11, <3>1
    <3>2. CASE c # b
        BY <1>9, <3>2 DEF Filed
    <3> QED BY <3>1, <3>2
  <2> QED BY <1>9, <2>1 DEF Filed
<1>13. FreeIn(left) = FreeIn(bucket) \ {s}
  <2>1. ASSUME NEW x \in FreeIn(left) PROVE x \in FreeIn(bucket) \ {s}
    <3>1. PICK c, i : c \in Buckets /\ i \in DOMAIN left[c] /\ left[c][i] = x
        BY DEF FreeIn
    <3>2. CASE c = b
      <4>1. i \in DOMAIN r /\ r[i] = x
          BY <1>9, <3>1, <3>2
      <4>2. PICK j \in DOMAIN q : x = q[j] /\ j # k
          BY <1>8, <1>10, <4>1
      <4> QED BY <1>3, <1>4, <1>10, <4>2 DEF FreeIn
    <3>3. CASE c # b
      <4>1. i \in DOMAIN bucket[c] /\ bucket[c][i] = x
          BY <1>9, <3>1, <3>3
      <4>2. x # s
          BY <1>1, <3>1, <3>3, <4>1, FreeBlock
      <4> QED BY <3>1, <4>1, <4>2 DEF FreeIn
    <3> QED BY <3>1, <3>2, <3>3
  <2>2. ASSUME NEW x \in FreeIn(bucket), x # s PROVE x \in FreeIn(left)
    <3>1. PICK c, i : c \in Buckets /\ i \in DOMAIN bucket[c] /\ bucket[c][i] = x
        BY DEF FreeIn
    <3>2. CASE c = b
      <4>1. i \in DOMAIN q /\ q[i] = x /\ i # k
          BY <1>3, <1>4, <2>2, <3>1, <3>2
      <4>2. PICK j \in DOMAIN r : r[j] = x
        <5>1. CASE i < k
            BY <1>8, <1>10, <4>1, <5>1
        <5>2. CASE i > k
          <6>1. i - 1 \in DOMAIN r /\ ~ (i - 1 < k) /\ (i - 1) + 1 = i
              BY <1>8, <1>10, <4>1, <5>2
          <6> QED BY <1>8, <1>10, <4>1, <6>1
        <5> QED BY <1>10, <4>1, <5>1, <5>2
      <4> QED BY <1>9, <4>2 DEF FreeIn
    <3>3. CASE c # b
      <4>1. i \in DOMAIN left[c] /\ left[c][i] = x
          BY <1>9, <3>1, <3>3
      <4> QED BY <3>1, <4>1 DEF FreeIn
    <3> QED BY <3>2, <3>3
  <2> QED BY <2>1, <2>2
<1> QED BY <1>7, <1>12, <1>13

LEMMA Appended ==
    ASSUME NEW blk, NEW bucket, NEW used, Sized(blk), Filed(blk, bucket),
           NEW s \in DOMAIN blk, s \notin FreeIn(bucket)
    PROVE  \E more : /\ bucket_append(HeapOf(blk, bucket, used), s) = HeapOf(blk, more, used)
                     /\ Filed(blk, more) /\ FreeIn(more) = FreeIn(bucket) \cup {s}
<1>1. PICK b \in Buckets : b = bucket_of(blk[s])
  <2>1. blk[s] \in 1 .. Size
      BY DEF Sized
  <2> QED BY <2>1, SizesHaveBuckets
<1>2. bucket[b] \in Seq(DOMAIN blk) /\ bucket \in [Buckets -> Seq(DOMAIN blk)]
    BY DEF Filed
<1>3. PICK q \in Seq(DOMAIN blk) : q = bucket[b]
    BY <1>2
<1>4. PICK r : r = Append(q, s)
    OBVIOUS
<1>5. PICK more : more = [bucket EXCEPT ![b] = r]
    OBVIOUS
<1>6. bucket_append(HeapOf(blk, bucket, used), s) = HeapOf(blk, more, used)
  <2>4. PICK h : h = HeapOf(blk, bucket, used)
      OBVIOUS
  <2>1. h = HeapOf(blk, bucket, used) /\ h.blk = blk /\ h.bucket = bucket
      BY <2>4 DEF HeapOf
  <2>2. bucket_append(h, s) = [h EXCEPT !.bucket[b] = r]
      BY <1>1, <1>3, <1>4, <2>1 DEF bucket_append
  <2>3. [h EXCEPT !.bucket[b] = r] = HeapOf(blk, more, used)
      BY <1>5, <2>1 DEF HeapOf
  <2> QED BY <2>1, <2>2, <2>3
<1>7. /\ r \in Seq(DOMAIN blk) /\ Len(q) \in Nat /\ DOMAIN q = 1 .. Len(q)
      /\ DOMAIN r = 1 .. Len(q) + 1
      /\ r[Len(q) + 1] = s /\ \A i \in 1 .. Len(q) : r[i] = q[i]
    BY <1>3, <1>4
<1>8. more \in [Buckets -> Seq(DOMAIN blk)] /\ more[b] = r
      /\ \A c \in Buckets : c # b => more[c] = bucket[c]
    BY <1>2, <1>5, <1>7
<1>9. \A i \in DOMAIN q : bucket_of(blk[q[i]]) = b /\ q[i] # s
  <2>1. \A i \in DOMAIN q : q[i] \in FreeIn(bucket)
      BY <1>3 DEF FreeIn
  <2> QED BY <1>3, <2>1 DEF Filed
<1>10. \A i, j \in DOMAIN q : q[i] = q[j] => i = j
    BY <1>3 DEF Filed
<1>11. \A i, j \in DOMAIN r : bucket_of(blk[r[i]]) = b /\ (r[i] = r[j] => i = j)
  <2>1. ASSUME NEW i \in DOMAIN r
        PROVE  (i \in DOMAIN q /\ r[i] = q[i]) \/ (i = Len(q) + 1 /\ i \notin DOMAIN q /\ r[i] = s)
      BY <1>7
  <2> QED BY <1>1, <1>9, <1>10, <2>1
<1>12. Filed(blk, more)
  <2>1. ASSUME NEW c \in Buckets, NEW i \in DOMAIN more[c], NEW j \in DOMAIN more[c]
        PROVE  bucket_of(blk[more[c][i]]) = c /\ (more[c][i] = more[c][j] => i = j)
    <3>1. CASE c = b
        BY <1>8, <1>11, <3>1
    <3>2. CASE c # b
        BY <1>8, <3>2 DEF Filed
    <3> QED BY <3>1, <3>2
  <2> QED BY <1>8, <2>1 DEF Filed
<1>13. FreeIn(more) = FreeIn(bucket) \cup {s}
  <2>1. ASSUME NEW x \in FreeIn(more) PROVE x \in FreeIn(bucket) \cup {s}
    <3>1. PICK c, i : c \in Buckets /\ i \in DOMAIN more[c] /\ more[c][i] = x
        BY DEF FreeIn
    <3>2. CASE c = b
      <4>1. x = s \/ (i \in DOMAIN q /\ x = q[i])
          BY <1>7, <1>8, <3>1, <3>2
      <4> QED BY <1>3, <4>1 DEF FreeIn
    <3>3. CASE c # b
        BY <1>8, <3>1, <3>3 DEF FreeIn
    <3> QED BY <3>2, <3>3
  <2>2. s \in FreeIn(more)
    <3>1. Len(q) + 1 \in DOMAIN more[b] /\ more[b][Len(q) + 1] = s
        BY <1>7, <1>8
    <3> QED BY <3>1 DEF FreeIn
  <2>3. ASSUME NEW x \in FreeIn(bucket) PROVE x \in FreeIn(more)
    <3>1. PICK c, i : c \in Buckets /\ i \in DOMAIN bucket[c] /\ bucket[c][i] = x
        BY DEF FreeIn
    <3>2. i \in DOMAIN more[c] /\ more[c][i] = x
      <4>1. CASE c = b
        <5>1. i \in 1 .. Len(q) /\ q[i] = x
            BY <1>3, <1>7, <3>1, <4>1
        <5>2. i \in 1 .. Len(q) + 1 /\ r[i] = x
            BY <1>7, <5>1
        <5> QED BY <1>7, <1>8, <4>1, <5>2
      <4>2. CASE c # b
          BY <1>8, <3>1, <4>2
      <4> QED BY <4>1, <4>2
    <3> QED BY <3>1, <3>2 DEF FreeIn
  <2> QED BY <2>1, <2>2, <2>3
<1> QED BY <1>6, <1>12, <1>13

\* Buckets are as good for blocks that agree on all that is in them.
LEMMA Refiled ==
    ASSUME NEW blk, NEW bucket, Filed(blk, bucket), NEW new,
           \A s \in FreeIn(bucket) : s \in DOMAIN new /\ new[s] = blk[s]
    PROVE  Filed(new, bucket)
<1>1. \A b \in Buckets : \A i \in DOMAIN bucket[b] : bucket[b][i] \in FreeIn(bucket)
    BY DEF FreeIn
<1>2. ASSUME NEW b \in Buckets PROVE bucket[b] \in Seq(DOMAIN new)
  <2>1. bucket[b] \in Seq(DOMAIN blk)
      BY DEF Filed
  <2>2. PICK q \in Seq(DOMAIN blk) : q = bucket[b]
      BY <2>1
  <2>3. \A i \in 1 .. Len(q) : q[i] \in DOMAIN new
      BY <1>1, <2>2
  <2> QED BY <2>2, <2>3
<1>3. bucket \in [Buckets -> Seq(DOMAIN new)]
    BY <1>2 DEF Filed
<1> QED BY <1>1, <1>3 DEF Filed

\* A free block cut in two, both of them free.
Cut(blk, free, s, at, new, left) ==
    /\ Tiled(new) /\ s + at \notin DOMAIN blk /\ DOMAIN new = DOMAIN blk \cup {s + at}
    /\ new[s] = at /\ new[s + at] = blk[s] - at
    /\ \A t \in DOMAIN blk : t # s => new[t] = blk[t]
    /\ left = free \cup {s + at}

LEMMA SplitFree ==
    ASSUME NEW blk, NEW bucket, NEW used, Tiled(blk), Filed(blk, bucket),
           NEW s \in FreeIn(bucket), NEW at \in Nat \ {0}, at < blk[s]
    PROVE  \E new, filed :
               /\ split(HeapOf(blk, bucket, used), s, at) = HeapOf(new, filed, used)
               /\ Filed(new, filed) /\ Cut(blk, FreeIn(bucket), s, at, new, FreeIn(filed))
<1>1. s \in DOMAIN blk
    BY FreeBlock
<1>2. PICK n \in Nat : /\ n = blk[s] /\ n \in 1 .. Size /\ s \in 0 .. Size - 1 /\ s \in Nat
                       /\ Size \in Nat
  <2>1. blk[s] \in 1 .. Size /\ s \in 0 .. Size - 1 /\ Size \in Nat
      BY <1>1, TlsfAssumption DEF Tiled, Sized
  <2>2. blk[s] \in Nat /\ s \in Nat
      BY <2>1
  <2> QED BY <2>1, <2>2
<1>3. \A t \in DOMAIN blk : /\ t \in Nat /\ t \in 0 .. Size - 1 /\ blk[t] \in 1 .. Size
                            /\ blk[t] \in Nat
    BY <1>2 DEF Tiled, Sized
<1>4. s + n <= Size
  <2>1. s + n = Size \/ s + n \in DOMAIN blk
      BY <1>1, <1>2 DEF Tiled
  <2> QED BY <1>2, <1>3, <2>1
<1>5. PICK m \in Nat : m = s + at /\ s < m /\ m < s + n /\ m \in 0 .. Size - 1
  <2>1. s + at \in Nat /\ s < s + at /\ s + at < s + n
      BY <1>2
  <2> QED BY <1>2, <1>4, <2>1
<1>6. m \notin DOMAIN blk
  <2>1. SUFFICES ASSUME m \in DOMAIN blk PROVE FALSE
      OBVIOUS
  <2>2. s + n <= m
      BY <1>1, <1>2, <1>5, <2>1 DEF Tiled
  <2> QED BY <1>2, <1>5, <2>2
<1>7. PICK new : new = [t \in DOMAIN blk \cup {m} |->
                           CASE t = s -> at [] t = m -> n - at [] OTHER -> blk[t]]
    OBVIOUS
<1>8. /\ DOMAIN new = DOMAIN blk \cup {m} /\ new[s] = at /\ new[m] = n - at
      /\ \A t \in DOMAIN blk : t # s => new[t] = blk[t]
    BY <1>1, <1>2, <1>5, <1>6, <1>7
<1>9. at \in 1 .. Size /\ n - at \in 1 .. Size
    BY <1>2
<1>10. Tiled(new)
  <2>1. Sized(new)
    <3>1. DOMAIN new \subseteq 0 .. Size - 1
        BY <1>3, <1>5, <1>8
    <3>2. \A t \in DOMAIN new : new[t] \in 1 .. Size
        BY <1>3, <1>8, <1>9
    <3>3. new \in [DOMAIN new -> 1 .. Size]
        BY <1>7, <3>2
    <3> QED BY <3>1, <3>3 DEF Sized
  <2>2. 0 \in DOMAIN new
      BY <1>8 DEF Tiled
  <2>3. ASSUME NEW t \in DOMAIN new PROVE t + new[t] = Size \/ t + new[t] \in DOMAIN new
    <3>1. CASE t = s
        BY <1>5, <1>8, <3>1
    <3>2. CASE t = m
      <4>1. t + new[t] = s + n
          BY <1>2, <1>5, <1>8, <3>2
      <4>2. s + n = Size \/ s + n \in DOMAIN blk
          BY <1>1, <1>2 DEF Tiled
      <4> QED BY <1>8, <4>1, <4>2
    <3>3. CASE t # s /\ t # m
      <4>1. t \in DOMAIN blk /\ new[t] = blk[t]
          BY <1>8, <3>3
      <4>2. t + blk[t] = Size \/ t + blk[t] \in DOMAIN blk
          BY <4>1 DEF Tiled
      <4> QED BY <1>8, <4>1, <4>2
    <3> QED BY <3>1, <3>2, <3>3
  <2>4. ASSUME NEW t \in DOMAIN new, NEW u \in DOMAIN new, t < u PROVE t + new[t] <= u
    <3>0. \A x, y \in DOMAIN blk : x < y => x + blk[x] <= y
        BY DEF Tiled
    <3>1. CASE t = s
      <4>1. CASE u = m
          BY <1>5, <1>8, <3>1, <4>1
      <4>2. CASE u # m
        <5>1. s + n <= u /\ u \in Nat
            BY <1>1, <1>2, <1>3, <1>8, <2>4, <3>0, <3>1, <4>2
        <5> QED BY <1>2, <1>8, <3>1, <5>1
      <4> QED BY <4>1, <4>2
    <3>2. CASE t = m
      <4>1. u \in DOMAIN blk /\ u \in Nat
          BY <1>3, <1>5, <1>8, <2>4, <3>2
      <4>2. s < u
          BY <1>2, <1>5, <2>4, <3>2, <4>1
      <4>3. s + n <= u
          BY <1>1, <1>2, <3>0, <4>1, <4>2
      <4>4. m + (n - at) = s + n
          BY <1>2, <1>5
      <4> QED BY <1>8, <3>2, <4>3, <4>4
    <3>3. CASE t # s /\ t # m
      <4>1. t \in DOMAIN blk /\ new[t] = blk[t] /\ t \in Nat /\ blk[t] \in Nat
          BY <1>3, <1>8, <3>3
      <4>2. CASE u = m
        <5>1. t < s
          <6>1. SUFFICES ASSUME s < t PROVE FALSE
              BY <1>2, <3>3, <4>1
          <6>2. s + n <= t
              BY <1>1, <1>2, <3>0, <4>1, <6>1
          <6> QED BY <1>2, <1>5, <2>4, <4>1, <4>2, <6>2
        <5>2. t + blk[t] <= s
            BY <1>1, <3>0, <4>1, <5>1
        <5> QED BY <1>2, <1>5, <4>1, <4>2, <5>2
      <4>3. CASE u # m
          BY <1>8, <2>4, <3>0, <4>1, <4>3
      <4> QED BY <4>2, <4>3
    <3> QED BY <3>1, <3>2, <3>3
  <2> QED BY <2>1, <2>2, <2>3, <2>4 DEF Tiled
<1>11. PICK b1 : /\ bucket_remove(HeapOf(blk, bucket, used), s) = HeapOf(blk, b1, used)
                 /\ Filed(blk, b1) /\ FreeIn(b1) = FreeIn(bucket) \ {s}
    BY Removed
<1>12. \A t \in FreeIn(bucket) : t \in DOMAIN blk
    BY FreeBlock
<1>13. Filed(new, b1)
  <2>1. \A t \in FreeIn(b1) : t \in DOMAIN new /\ new[t] = blk[t]
      BY <1>8, <1>11, <1>12
  <2> QED BY <1>11, <2>1, Refiled
<1>14. Sized(new) /\ s \in DOMAIN new /\ s \notin FreeIn(b1) /\ m \in DOMAIN new
    BY <1>1, <1>8, <1>10, <1>11 DEF Tiled
<1>15. PICK b2 : /\ bucket_append(HeapOf(new, b1, used), s) = HeapOf(new, b2, used)
                 /\ Filed(new, b2) /\ FreeIn(b2) = FreeIn(b1) \cup {s}
    BY <1>13, <1>14, Appended
<1>16. m \notin FreeIn(b2)
    BY <1>5, <1>6, <1>11, <1>12, <1>15
<1>17. PICK b3 : /\ bucket_append(HeapOf(new, b2, used), m) = HeapOf(new, b3, used)
                 /\ Filed(new, b3) /\ FreeIn(b3) = FreeIn(b2) \cup {m}
    BY <1>14, <1>15, <1>16, Appended
<1>18. split(HeapOf(blk, bucket, used), s, at) = HeapOf(new, b3, used)
  <2>1. PICK h : h = HeapOf(blk, bucket, used)
      OBVIOUS
  <2>2. Starts(h) = DOMAIN blk /\ h.blk = blk
      BY <2>1 DEF Starts, HeapOf
  <2>3. [HeapOf(blk, b1, used) EXCEPT !.blk = new] = HeapOf(new, b1, used)
      BY DEF HeapOf
  <2>4. [bucket_remove(h, s) EXCEPT
            !.blk = [t \in Starts(h) \cup {s + at} |->
                        CASE t = s -> at
                          [] t = s + at -> h.blk[s] - at
                          [] OTHER -> h.blk[t]]] = HeapOf(new, b1, used)
      BY <1>2, <1>5, <1>7, <1>11, <2>1, <2>2, <2>3
  <2>5. split(h, s, at) = bucket_append(bucket_append(HeapOf(new, b1, used), s), s + at)
      BY <2>4 DEF split
  <2> QED BY <1>5, <1>15, <1>17, <2>1, <2>5
<1>19. FreeIn(b3) = FreeIn(bucket) \cup {m}
    BY <1>11, <1>15, <1>17
<1> QED BY <1>2, <1>5, <1>6, <1>8, <1>10, <1>17, <1>18, <1>19 DEF Cut

\* Two free neighbours made one.
Joint(blk, free, lower, upper, new, left) ==
    /\ Tiled(new) /\ DOMAIN new = DOMAIN blk \ {upper}
    /\ new[lower] = blk[lower] + blk[upper]
    /\ \A t \in DOMAIN new : t # lower => new[t] = blk[t]
    /\ left = free \ {upper}

LEMMA MergeFree ==
    ASSUME NEW blk, NEW bucket, NEW used, Tiled(blk), Filed(blk, bucket),
           NEW lower \in FreeIn(bucket), NEW upper \in FreeIn(bucket), upper = lower + blk[lower]
    PROVE  \E new, filed :
               /\ merge(HeapOf(blk, bucket, used), lower, upper) = HeapOf(new, filed, used)
               /\ Filed(new, filed)
               /\ Joint(blk, FreeIn(bucket), lower, upper, new, FreeIn(filed))
<1>1. lower \in DOMAIN blk /\ upper \in DOMAIN blk
    BY FreeBlock
<1>2. \A t \in DOMAIN blk : /\ t \in Nat /\ t \in 0 .. Size - 1 /\ blk[t] \in 1 .. Size
                            /\ blk[t] \in Nat
    BY TlsfAssumption DEF Tiled, Sized
<1>3. PICK n \in Nat, k \in Nat : n = blk[lower] /\ k = blk[upper] /\ n > 0 /\ k > 0
    BY <1>1, <1>2
<1>4. lower \in Nat /\ upper \in Nat /\ upper = lower + n /\ lower < upper
    BY <1>1, <1>2, <1>3
<1>5. \A x, y \in DOMAIN blk : x < y => x + blk[x] <= y
    BY DEF Tiled
<1>6. PICK new : new = [t \in DOMAIN blk \ {upper} |->
                           IF t = lower THEN n + k ELSE blk[t]]
    OBVIOUS
<1>7. /\ DOMAIN new = DOMAIN blk \ {upper} /\ new[lower] = n + k /\ lower \in DOMAIN new
      /\ \A t \in DOMAIN new : t # lower => new[t] = blk[t]
    BY <1>1, <1>4, <1>6
<1>8. lower + (n + k) = upper + k /\ (upper + k = Size \/ upper + k \in DOMAIN blk)
    BY <1>1, <1>3, <1>4 DEF Tiled
<1>9. Size \in Nat /\ n + k \in 1 .. Size
  <2>1. upper + k <= Size /\ Size \in Nat
      BY <1>2, <1>3, <1>4, <1>8, TlsfAssumption
  <2> QED BY <1>3, <1>4, <1>8, <2>1
<1>10. Tiled(new)
  <2>1. Sized(new)
    <3>1. \A t \in DOMAIN new : new[t] \in 1 .. Size
        BY <1>2, <1>7, <1>9
    <3>2. new \in [DOMAIN new -> 1 .. Size]
        BY <1>6, <3>1
    <3> QED BY <1>2, <1>7, <3>2 DEF Sized
  <2>2. 0 \in DOMAIN new
      BY <1>3, <1>4, <1>7 DEF Tiled
  <2>3. ASSUME NEW t \in DOMAIN new PROVE t + new[t] = Size \/ t + new[t] \in DOMAIN new
    <3>1. CASE t = lower
      <4>1. t + new[t] = upper + k
          BY <1>7, <1>8, <3>1
      <4>2. upper + k # upper
          BY <1>3, <1>4
      <4> QED BY <1>7, <1>8, <4>1, <4>2
    <3>2. CASE t # lower
      <4>1. t \in DOMAIN blk /\ t # upper /\ new[t] = blk[t] /\ t \in Nat /\ blk[t] \in Nat
          BY <1>2, <1>7, <3>2
      <4>2. t + blk[t] = Size \/ t + blk[t] \in DOMAIN blk
          BY <4>1 DEF Tiled
      <4>3. t + blk[t] # upper
        <5>1. CASE t < lower
          <6>1. t + blk[t] <= lower
              BY <1>1, <1>5, <4>1, <5>1
          <6> QED BY <1>4, <4>1, <6>1
        <5>2. CASE lower < t
          <6>1. upper <= t /\ blk[t] > 0
              BY <1>1, <1>2, <1>3, <1>4, <1>5, <4>1, <5>2
          <6> QED BY <1>4, <4>1, <6>1
        <5> QED BY <1>4, <3>2, <4>1, <5>1, <5>2
      <4> QED BY <1>7, <4>1, <4>2, <4>3
    <3> QED BY <3>1, <3>2
  <2>4. ASSUME NEW t \in DOMAIN new, NEW u \in DOMAIN new, t < u PROVE t + new[t] <= u
    <3>1. t \in DOMAIN blk /\ u \in DOMAIN blk /\ t # upper /\ u # upper /\ t \in Nat /\ u \in Nat
        BY <1>2, <1>7
    <3>2. CASE t = lower
      <4>1. upper <= u
          BY <1>1, <1>3, <1>4, <1>5, <2>4, <3>1, <3>2
      <4>2. upper + k <= u
        <5>1. upper < u
            BY <1>4, <3>1, <4>1
        <5> QED BY <1>1, <1>3, <1>5, <3>1, <5>1
      <4> QED BY <1>7, <1>8, <3>2, <4>2
    <3>3. CASE t # lower
        BY <1>5, <1>7, <2>4, <3>1, <3>3
    <3> QED BY <3>2, <3>3
  <2> QED BY <2>1, <2>2, <2>3, <2>4 DEF Tiled
<1>11. PICK b1 : /\ bucket_remove(HeapOf(blk, bucket, used), lower) = HeapOf(blk, b1, used)
                 /\ Filed(blk, b1) /\ FreeIn(b1) = FreeIn(bucket) \ {lower}
    BY Removed
<1>12. upper \in FreeIn(b1)
    BY <1>4, <1>11
<1>13. PICK b2 : /\ bucket_remove(HeapOf(blk, b1, used), upper) = HeapOf(blk, b2, used)
                 /\ Filed(blk, b2) /\ FreeIn(b2) = FreeIn(b1) \ {upper}
    BY <1>11, <1>12, Removed
<1>14. \A t \in FreeIn(bucket) : t \in DOMAIN blk
    BY FreeBlock
<1>15. Filed(new, b2)
  <2>1. \A t \in FreeIn(b2) : t \in DOMAIN new /\ new[t] = blk[t]
      BY <1>7, <1>11, <1>13, <1>14
  <2> QED BY <1>13, <2>1, Refiled
<1>16. Sized(new) /\ lower \in DOMAIN new /\ lower \notin FreeIn(b2)
    BY <1>7, <1>10, <1>11, <1>13 DEF Tiled
<1>17. PICK b3 : /\ bucket_append(HeapOf(new, b2, used), lower) = HeapOf(new, b3, used)
                 /\ Filed(new, b3) /\ FreeIn(b3) = FreeIn(b2) \cup {lower}
    BY <1>15, <1>16, Appended
<1>18. merge(HeapOf(blk, bucket, used), lower, upper) = HeapOf(new, b3, used)
  <2>1. PICK h : h = HeapOf(blk, bucket, used)
      OBVIOUS
  <2>2. Starts(h) = DOMAIN blk /\ h.blk = blk
      BY <2>1 DEF Starts, HeapOf
  <2>3. [HeapOf(blk, b2, used) EXCEPT !.blk = new] = HeapOf(new, b2, used)
      BY DEF HeapOf
  <2>4. bucket_remove(bucket_remove(h, lower), upper) = HeapOf(blk, b2, used)
      BY <1>11, <1>13, <2>1
  <2>5. [t \in Starts(h) \ {upper} |-> IF t = lower THEN h.blk[lower] + h.blk[upper] ELSE h.blk[t]]
            = new
      BY <1>3, <1>6, <2>2
  <2>6. merge(h, lower, upper) = bucket_append(HeapOf(new, b2, used), lower)
      BY <2>3, <2>4, <2>5 DEF merge
  <2> QED BY <1>17, <2>1, <2>6
<1>19. FreeIn(b3) = FreeIn(bucket) \ {upper}
    BY <1>4, <1>11, <1>13, <1>17
<1> QED BY <1>3, <1>7, <1>10, <1>17, <1>18, <1>19 DEF Joint

-----------------------------------------------------------------------------
(***************************************************************************)
(* The allocator's invariant, and its steps.  The free blocks beside the   *)
(* one in hand may wait to be merged with it; no others may.               *)
(***************************************************************************)

HeapInv ==
    \E blk, bucket, used :
        /\ heap = HeapOf(blk, bucket, used)
        /\ Tiled(blk) /\ Filed(blk, bucket) /\ Merged(blk, FreeIn(bucket))
        /\ used = Cardinality(Bytes(blk, DOMAIN blk \ FreeIn(bucket)))

\* The blocks that are out stay where they are and as they are.
SameOut(blk, free, new, left) ==
    /\ DOMAIN new \ left = DOMAIN blk \ free
    /\ \A s \in DOMAIN blk \ free : new[s] = blk[s]

\* All but one of the free blocks are merged, and that one with what is after it.
MergedBut(blk, free, s) == Merged(blk, free \ {s}) /\ s + blk[s] \notin free

LEMMA FreeInBlocks ==
    ASSUME NEW blk, NEW bucket, Filed(blk, bucket)
    PROVE  FreeIn(bucket) \subseteq DOMAIN blk
<1>1. \A s \in FreeIn(bucket) : s \in DOMAIN blk
    BY FreeBlock
<1> QED BY <1>1

LEMMA TiledNumbers ==
    ASSUME NEW blk, Tiled(blk)
    PROVE  /\ Size \in Nat
           /\ \A s \in DOMAIN blk :
                  /\ s \in Nat /\ blk[s] \in Nat /\ blk[s] > 0 /\ blk[s] \in 1 .. Size
                  /\ s \in 0 .. Size - 1 /\ s + blk[s] <= Size
                  /\ s + blk[s] = Size \/ s + blk[s] \in DOMAIN blk
           /\ \A s, t \in DOMAIN blk : s < t => s + blk[s] <= t
<1>1. Size \in Nat
    BY TlsfAssumption
<1>2. \A s \in DOMAIN blk : s \in 0 .. Size - 1 /\ blk[s] \in 1 .. Size
    BY DEF Tiled, Sized
<1>3. \A s \in DOMAIN blk : s + blk[s] = Size \/ s + blk[s] \in DOMAIN blk
    BY DEF Tiled
<1>4. ASSUME NEW s \in DOMAIN blk PROVE s + blk[s] <= Size
    BY <1>1, <1>2, <1>3
<1>5. \A s \in DOMAIN blk : s \in Nat /\ blk[s] \in Nat /\ blk[s] > 0
    BY <1>1, <1>2
<1>6. \A s, t \in DOMAIN blk : s < t => s + blk[s] <= t
    BY DEF Tiled
<1> QED BY <1>1, <1>2, <1>3, <1>4, <1>5, <1>6

\* A block that is cut has the first part, or the second, to be merged.
LEMMA CutMerged ==
    ASSUME NEW blk, NEW free, NEW s \in free, NEW at \in Nat \ {0}, NEW new, NEW left,
           Tiled(blk), free \subseteq DOMAIN blk, Cut(blk, free, s, at, new, left)
    PROVE  /\ SameOut(blk, free, new, left)
           /\ Merged(blk, free) => MergedBut(new, left, s + at)
           /\ MergedBut(blk, free, s) => Merged(new, left \ {s})
<1>1. /\ s + at \notin DOMAIN blk /\ DOMAIN new = DOMAIN blk \cup {s + at}
      /\ new[s] = at /\ new[s + at] = blk[s] - at /\ left = free \cup {s + at}
      /\ \A t \in DOMAIN blk : t # s => new[t] = blk[t]
    BY DEF Cut
<1>2. SameOut(blk, free, new, left)
    BY <1>1 DEF SameOut
<1>3. s \in Nat /\ blk[s] \in Nat /\ Size \in Nat
    BY TiledNumbers
<1>4. (s + at) + (blk[s] - at) = s + blk[s] /\ s + at # s + blk[s] /\ s + at # s
  <2>1. s + at # s + blk[s]
    <3>1. s + at \in DOMAIN new /\ new[s + at] \in Nat /\ new[s + at] > 0
      <4>1. Tiled(new)
          BY DEF Cut
      <4> QED BY <1>1, <4>1, TiledNumbers
    <3> QED BY <1>1, <1>3, <3>1
  <2> QED BY <1>3, <2>1
<1>5. ASSUME Merged(blk, free) PROVE MergedBut(new, left, s + at)
  <2>1. ASSUME NEW x \in left \ {s + at} PROVE x + new[x] \notin left \ {s + at}
    <3>1. x \in free
        BY <1>1
    <3>2. CASE x = s
        BY <1>1, <3>2
    <3>3. CASE x # s
        BY <1>1, <1>5, <3>1, <3>3 DEF Merged
    <3> QED BY <3>2, <3>3
  <2>2. s + blk[s] \notin left
      BY <1>1, <1>4, <1>5 DEF Merged
  <2> QED BY <1>1, <1>4, <2>1, <2>2 DEF MergedBut, Merged
<1>6. ASSUME MergedBut(blk, free, s) PROVE Merged(new, left \ {s})
  <2>1. ASSUME NEW x \in left \ {s} PROVE x + new[x] \notin left \ {s}
    <3>1. CASE x = s + at
        BY <1>1, <1>4, <1>6, <3>1 DEF MergedBut
    <3>2. CASE x # s + at
      <4>1. x \in free /\ x # s /\ new[x] = blk[x] /\ x \in DOMAIN blk
          BY <1>1, <3>2
      <4>2. x + blk[x] \notin free \ {s}
          BY <1>6, <4>1 DEF MergedBut, Merged
      <4>3. x + blk[x] # s + at
        <5>1. x + blk[x] = Size \/ x + blk[x] \in DOMAIN blk
            BY <4>1, TiledNumbers
        <5>2. s + at # Size
          <6>1. s + at \in DOMAIN new /\ Tiled(new)
              BY <1>1 DEF Cut
          <6>2. s + at \in 0 .. Size - 1
              BY <6>1, TiledNumbers
          <6> QED BY <1>3, <6>2
        <5> QED BY <1>1, <5>1, <5>2
      <4> QED BY <1>1, <4>1, <4>2, <4>3
    <3> QED BY <3>1, <3>2
  <2> QED BY <2>1 DEF Merged
<1> QED BY <1>2, <1>5, <1>6

\* What Trim makes of a free block: the piece asked for, its rests free again.
Trimmed(blk, free, at, size, new, left) ==
    /\ Tiled(new) /\ at \in left /\ new[at] = size
    /\ SameOut(blk, free, new, left) /\ Merged(new, left \ {at})

LEMMA TrimCuts ==
    ASSUME NEW blk, NEW bucket, NEW used, Tiled(blk), Filed(blk, bucket),
           Merged(blk, FreeIn(bucket)), NEW s \in FreeIn(bucket),
           NEW size \in Nat \ {0}, NEW align \in Nat \ {0}, size + align - 1 <= blk[s]
    PROVE  \E new, filed :
               /\ Trim(HeapOf(blk, bucket, used), s, size, align) = HeapOf(new, filed, used)
               /\ Filed(new, filed)
               /\ Trimmed(blk, FreeIn(bucket), round_up(s, align), size, new, FreeIn(filed))
<1>1. s \in DOMAIN blk /\ FreeIn(bucket) \subseteq DOMAIN blk
    BY FreeInBlocks
<1>2. PICK n \in Nat : n = blk[s] /\ s \in Nat
    BY <1>1, TiledNumbers
<1>3. PICK at \in Nat : at = round_up(s, align) /\ s <= at /\ at < s + align
    BY <1>2, RoundedUp
<1>4. PICK d \in Nat : at = s + d /\ d + size <= n
  <2>1. at - s \in Nat /\ at = s + (at - s) /\ (at - s) + size <= n
      BY <1>2, <1>3
  <2> QED BY <2>1
<1>5. PICK new1, b1 :
        /\ (IF at # s THEN split(HeapOf(blk, bucket, used), s, at - s) ELSE HeapOf(blk, bucket,
             used))
               = HeapOf(new1, b1, used)
        /\ Tiled(new1) /\ Filed(new1, b1) /\ at \in FreeIn(b1) /\ new1[at] = n - d
        /\ SameOut(blk, FreeIn(bucket), new1, FreeIn(b1)) /\ MergedBut(new1, FreeIn(b1), at)
  <2>1. CASE d = 0
    <3>1. at = s /\ n - d = n
        BY <1>2, <1>4, <2>1
    <3>2. SameOut(blk, FreeIn(bucket), blk, FreeIn(bucket)) /\ MergedBut(blk, FreeIn(bucket), s)
        BY DEF SameOut, MergedBut, Merged
    <3> QED BY <1>2, <3>1, <3>2
  <2>2. CASE d # 0
    <3>1. at # s /\ at - s = d /\ d \in Nat \ {0} /\ d < n
        BY <1>2, <1>4, <2>2
    <3>2. PICK new1, b1 :
            /\ split(HeapOf(blk, bucket, used), s, d) = HeapOf(new1, b1, used)
            /\ Filed(new1, b1) /\ Cut(blk, FreeIn(bucket), s, d, new1, FreeIn(b1))
        BY <1>2, <3>1, SplitFree
    <3>3. Tiled(new1) /\ new1[at] = n - d /\ at \in FreeIn(b1)
        BY <1>2, <1>4, <3>2 DEF Cut
    <3>4. SameOut(blk, FreeIn(bucket), new1, FreeIn(b1)) /\ MergedBut(new1, FreeIn(b1), at)
        BY <1>1, <1>4, <3>1, <3>2, CutMerged
    <3> QED BY <3>1, <3>2, <3>3, <3>4
  <2> QED BY <2>1, <2>2
<1>6. at \in DOMAIN new1 /\ FreeIn(b1) \subseteq DOMAIN new1
    BY <1>5, FreeInBlocks
<1>7. PICK new2, b2 :
        /\ (IF new1[at] > size THEN split(HeapOf(new1, b1, used), at, size) ELSE HeapOf(new1, b1,
             used))
               = HeapOf(new2, b2, used)
        /\ Filed(new2, b2) /\ Trimmed(new1, FreeIn(b1), at, size, new2, FreeIn(b2))
  <2>1. CASE new1[at] > size
    <3>1. PICK new2, b2 :
            /\ split(HeapOf(new1, b1, used), at, size) = HeapOf(new2, b2, used)
            /\ Filed(new2, b2) /\ Cut(new1, FreeIn(b1), at, size, new2, FreeIn(b2))
      <4>1. size < new1[at]
          BY <1>2, <1>4, <1>5, <2>1
      <4> QED BY <1>5, <4>1, SplitFree
    <3>2. SameOut(new1, FreeIn(b1), new2, FreeIn(b2)) /\ Merged(new2, FreeIn(b2) \ {at})
        BY <1>5, <1>6, <3>1, CutMerged
    <3>3. Tiled(new2) /\ at \in FreeIn(b2) /\ new2[at] = size
        BY <1>5, <3>1 DEF Cut
    <3> QED BY <2>1, <3>1, <3>2, <3>3 DEF Trimmed
  <2>2. CASE ~ (new1[at] > size)
    <3>1. new1[at] = size
        BY <1>2, <1>4, <1>5, <2>2
    <3>2. SameOut(new1, FreeIn(b1), new1, FreeIn(b1)) /\ Merged(new1, FreeIn(b1) \ {at})
        BY <1>5 DEF SameOut, MergedBut
    <3>3. Trimmed(new1, FreeIn(b1), at, size, new1, FreeIn(b1))
        BY <1>5, <3>1, <3>2 DEF Trimmed
    <3> QED BY <1>5, <2>2, <3>3
  <2> QED BY <2>1, <2>2
<1>8. Trim(HeapOf(blk, bucket, used), s, size, align) = HeapOf(new2, b2, used)
  <2>1. HeapOf(new1, b1, used).blk = new1
      BY DEF HeapOf
  <2>2. PICK h : h = HeapOf(new1, b1, used) /\ h.blk = new1
      BY <2>1
  <2>3. (IF round_up(s, align) # s THEN split(HeapOf(blk, bucket, used), s, round_up(s, align) - s)
         ELSE HeapOf(blk, bucket, used)) = h
      BY <1>3, <1>5, <2>2
  <2>4. Trim(HeapOf(blk, bucket, used), s, size, align)
            = IF h.blk[round_up(s, align)] > size THEN split(h, round_up(s, align), size) ELSE h
      BY <2>3 DEF Trim
  <2> QED BY <1>3, <1>7, <2>2, <2>4
<1>9. SameOut(blk, FreeIn(bucket), new2, FreeIn(b2))
    BY <1>5, <1>7 DEF Trimmed, SameOut
<1>10. Trimmed(blk, FreeIn(bucket), at, size, new2, FreeIn(b2))
    BY <1>7, <1>9 DEF Trimmed
<1> QED BY <1>3, <1>7, <1>8, <1>10

\* The blocks that are out hold as many bytes as are counted.
LEMMA BytesOut ==
    ASSUME NEW blk, Tiled(blk), NEW out \in SUBSET DOMAIN blk
    PROVE  /\ IsFiniteSet(Bytes(blk, out)) /\ Bytes(blk, out) \subseteq 0 .. Size - 1
           /\ Cardinality(Bytes(blk, out)) \in 0 .. Size
           /\ \A s \in DOMAIN blk \ out :
                  /\ Cardinality(Bytes(blk, out \cup {s})) = Cardinality(Bytes(blk, out)) + blk[s]
<1>1. Bytes(blk, out) \subseteq 0 .. Size - 1
  <2>1. ASSUME NEW s \in out, NEW x \in s .. s + blk[s] - 1 PROVE x \in 0 .. Size - 1
    <3>1. s \in Nat /\ blk[s] \in Nat /\ s + blk[s] <= Size /\ Size \in Nat
        BY TiledNumbers
    <3> QED BY <3>1
  <2> QED BY <2>1 DEF Bytes
<1>2. IsFiniteSet(0 .. Size - 1) /\ Cardinality(0 .. Size - 1) = Size
  <2>1. 0 \in Int /\ Size - 1 \in Int /\ Size \in Nat \ {0}
      BY TlsfAssumption
  <2>2. IsFiniteSet(0 .. Size - 1) /\ Cardinality(0 .. Size - 1)
                = IF 0 > Size - 1 THEN 0 ELSE (Size - 1) - 0 + 1
      BY <2>1, FS_Interval
  <2> QED BY <2>1, <2>2
<1>3. IsFiniteSet(Bytes(blk, out)) /\ Cardinality(Bytes(blk, out)) <= Size
    BY <1>1, <1>2, FS_Subset
<1>4. Cardinality(Bytes(blk, out)) \in Nat
    BY <1>3, FS_CardinalityType
<1>5. ASSUME NEW s \in DOMAIN blk \ out
      PROVE  Cardinality(Bytes(blk, out \cup {s})) = Cardinality(Bytes(blk, out)) + blk[s]
  <2>1. s \in Nat /\ blk[s] \in Nat /\ blk[s] > 0
      BY TiledNumbers
  <2>2. PICK n \in Nat : n = blk[s] /\ n > 0
      BY <2>1
  <2>3. PICK own : own = s .. s + n - 1
      OBVIOUS
  <2>4. IsFiniteSet(own) /\ Cardinality(own) = n
    <3>1. s \in Int /\ s + n - 1 \in Int /\ ~ (s > s + n - 1) /\ (s + n - 1) - s + 1 = n
        BY <2>1, <2>2
    <3> QED BY <2>3, <3>1, FS_Interval
  <2>5. Bytes(blk, out \cup {s}) = Bytes(blk, out) \cup own
      BY <2>2, <2>3 DEF Bytes
  <2>6. Bytes(blk, out) \cap own = {}
    <3>1. ASSUME NEW t \in out, NEW x \in t .. t + blk[t] - 1, x \in s .. s + n - 1 PROVE FALSE
      <4>1. t \in Nat /\ blk[t] \in Nat /\ t # s /\ t \in DOMAIN blk
          BY <1>5, TiledNumbers
      <4>2. t < s => t + blk[t] <= s
          BY <4>1, TiledNumbers
      <4>3. s < t => s + n <= t
          BY <2>2, <4>1, TiledNumbers
      <4> QED BY <2>1, <2>2, <3>1, <4>1, <4>2, <4>3
    <3> QED BY <2>3, <3>1 DEF Bytes
  <2>7. Cardinality(Bytes(blk, out) \cup own)
            = Cardinality(Bytes(blk, out)) + Cardinality(own) - Cardinality(Bytes(blk, out)
               \cap own)
      BY <1>3, <2>4, FS_Union
  <2>8. Cardinality(Bytes(blk, out) \cap own) = 0
      BY <2>6, FS_EmptySet
  <2>9. PICK c \in Nat : c = Cardinality(Bytes(blk, out))
      BY <1>4
  <2>10. Cardinality(Bytes(blk, out \cup {s})) = c + n - 0
      BY <2>4, <2>5, <2>7, <2>8, <2>9, Zenon
  <2> QED BY <2>2, <2>9, <2>10
<1>6. Cardinality(Bytes(blk, out)) \in 0 .. Size
    BY <1>3, <1>4, TlsfAssumption
<1> QED BY <1>1, <1>3, <1>5, <1>6

\* The heap, and the blocks of it that are out.
HeapIs(blk, bucket) ==
    /\ heap.blk = blk /\ heap.bucket = bucket /\ Starts(heap) = DOMAIN blk
    /\ FreeSet(heap) = FreeIn(bucket) /\ Live(heap) = DOMAIN blk \ FreeIn(bucket)
    /\ \A s : End(heap, s) = s + blk[s]

LEMMA HeapParts ==
    ASSUME NEW blk, NEW bucket, NEW used, heap = HeapOf(blk, bucket, used)
    PROVE  HeapIs(blk, bucket) /\ heap.used = used
    BY DEF HeapIs, HeapOf, Starts, FreeSet, FreeIn, Live, End

LEMMA InitHeap == HeapInit => HeapInv
<1> SUFFICES ASSUME HeapInit PROVE HeapInv
    OBVIOUS
<1>1. Size \in Nat /\ Size > 0 /\ Size \in 1 .. Size
    BY TlsfAssumption
<1>2. PICK blk : blk = [s \in {0} |-> Size]
    OBVIOUS
<1>3. PICK b \in Buckets : b = bucket_of(Size)
    BY <1>1, SizesHaveBuckets
<1>4. PICK bucket : bucket = [c \in Buckets |-> IF c = bucket_of(Size) THEN <<0>> ELSE <<>>]
    OBVIOUS
<1>5. heap = HeapOf(blk, bucket, 0)
    BY <1>2, <1>4 DEF HeapInit, HeapOf
<1>6. DOMAIN blk = {0} /\ blk[0] = Size
    BY <1>2
<1>7. Tiled(blk)
  <2>1. 0 \in 0 .. Size - 1 /\ 0 + Size = Size
      BY <1>1
  <2>2. Sized(blk)
      BY <1>1, <1>2, <1>6, <2>1 DEF Sized
  <2> QED BY <1>6, <2>1, <2>2 DEF Tiled
<1>8. \A c \in Buckets : bucket[c] = IF c = b THEN <<0>> ELSE <<>>
    BY <1>3, <1>4
<1>9. Filed(blk, bucket)
  <2>1. <<0>> \in Seq({0}) /\ <<>> \in Seq({0})
      OBVIOUS
  <2>2. bucket \in [Buckets -> Seq({0})]
      BY <1>4, <2>1
  <2>3. ASSUME NEW c \in Buckets, NEW i \in DOMAIN bucket[c], NEW j \in DOMAIN bucket[c]
        PROVE  bucket_of(blk[bucket[c][i]]) = c /\ i = j
    <3>1. c = b /\ i = 1 /\ j = 1
      <4>1. CASE c = b
          BY <1>8, <2>3, <4>1
      <4>2. CASE c # b
          BY <1>8, <2>3, <4>2
      <4> QED BY <4>1, <4>2
    <3>2. bucket[c][1] = 0
        BY <1>8, <3>1
    <3> QED BY <1>3, <1>6, <3>1, <3>2
  <2> QED BY <1>6, <2>2, <2>3 DEF Filed
<1>10. FreeIn(bucket) = {0}
  <2>1. 0 \in FreeIn(bucket)
    <3>1. 1 \in DOMAIN bucket[b] /\ bucket[b][1] = 0
        BY <1>8
    <3> QED BY <3>1 DEF FreeIn
  <2>2. FreeIn(bucket) \subseteq {0}
      BY <1>6, <1>9, FreeInBlocks
  <2> QED BY <2>1, <2>2
<1>11. Merged(blk, FreeIn(bucket))
    BY <1>1, <1>6, <1>10 DEF Merged
<1>12. 0 = Cardinality(Bytes(blk, DOMAIN blk \ FreeIn(bucket)))
  <2>1. Bytes(blk, DOMAIN blk \ FreeIn(bucket)) = {}
      BY <1>6, <1>10 DEF Bytes
  <2> QED BY <2>1, FS_EmptySet
<1> QED BY <1>5, <1>7, <1>9, <1>11, <1>12 DEF HeapInv

LEMMA Asked ==
    ASSUME NEW n \in Requests, NEW align \in Aligns
    PROVE  /\ Needed(n) \in Nat \ {0} /\ align \in Nat \ {0}
           /\ Want(n, align) \in Nat \ {0} /\ Needed(n) + align - 1 <= Want(n, align)
           /\ \A x \in Nat \ {0} :
                  x < Want(n, align) => bucket_of(x) < bucket_of(Want(n, align))
<1>1. Needed(n) \in Nat \ {0} /\ align \in Nat \ {0}
    BY TlsfAssumption DEF Needed
<1>2. PICK w \in Nat \ {0} : w = Needed(n) + align - 1
  <2>1. Needed(n) + align - 1 \in Nat \ {0}
      BY <1>1
  <2> QED BY <2>1
<1>3. Want(n, align) = round_up(w, Granule(w))
    BY <1>2 DEF Want
<1>4. Granule(w) \in Nat \ {0}
    BY GranuleOf
<1>5. round_up(w, Granule(w)) \in Nat /\ w <= round_up(w, Granule(w))
    BY <1>4, RoundedUp
<1>6. \A x \in Nat \ {0} :
          x < round_up(w, Granule(w)) => bucket_of(x) < bucket_of(round_up(w, Granule(w)))
    BY RoundedBegins
<1>7. Want(n, align) \in Nat \ {0} /\ Needed(n) + align - 1 <= Want(n, align)
    BY <1>2, <1>3, <1>5
<1> QED BY <1>1, <1>3, <1>6, <1>7

\* What an allocation does to the blocks that are out.
Handed(at, size, align) ==
    /\ at % align = 0 /\ at + size <= Size /\ at \in 0 .. Size
    /\ at \notin Live(heap) /\ Live(heap') = Live(heap) \cup {at} /\ heap'.blk[at] = size
    /\ \A s \in Live(heap) :
           /\ heap'.blk[s] = heap.blk[s]
           /\ at + size <= s \/ s + heap.blk[s] <= at

LEMMA AllocStep ==
    ASSUME HeapInv, NEW n \in Requests, NEW align \in Aligns, Alloc(n, align)
    PROVE  HeapInv' /\ \E at : Handed(at, Needed(n), align)
<1>1. PICK blk, bucket, used :
        /\ heap = HeapOf(blk, bucket, used)
        /\ Tiled(blk) /\ Filed(blk, bucket) /\ Merged(blk, FreeIn(bucket))
        /\ used = Cardinality(Bytes(blk, DOMAIN blk \ FreeIn(bucket)))
    BY DEF HeapInv
<1>2. HeapIs(blk, bucket) /\ heap.used = used
    BY <1>1, HeapParts
<1>3. PICK size \in Nat \ {0}, want \in Nat \ {0} :
        /\ size = Needed(n) /\ want = Want(n, align) /\ size + align - 1 <= want
        /\ align \in Nat \ {0}
    BY Asked
<1>4. PICK b \in Buckets :
        /\ b = Smallest(Fitting(heap, want)) /\ bucket[b] # <<>> /\ blk[Head(bucket[b])] >= want
  <2>1. Fitting(heap, want) # {} /\ Fitting(heap, want) \subseteq Buckets
      BY <1>3 DEF Alloc, Fits, Fitting
  <2>2. Fitting(heap, want) \in SUBSET Nat
      BY <2>1 DEF Buckets
  <2>3. \E x \in Fitting(heap, want) : \A y \in Fitting(heap, want) : x <= y
      BY <2>1, <2>2, LeastNumber
  <2>4. Smallest(Fitting(heap, want)) \in Fitting(heap, want)
      BY <2>3 DEF Smallest
  <2> QED BY <1>2, <2>4 DEF Fitting, HeapIs
<1>5. PICK s \in FreeIn(bucket) : s = Head(bucket[b]) /\ blk[s] >= want
  <2>1. PICK q \in Seq(DOMAIN blk) : q = bucket[b]
      BY <1>1 DEF Filed
  <2>2. Head(q) = q[1] /\ 1 \in DOMAIN q
      BY <1>4, <2>1
  <2>3. Head(bucket[b]) \in FreeIn(bucket)
      BY <2>1, <2>2 DEF FreeIn
  <2> QED BY <1>4, <2>3
<1>6. s \in DOMAIN blk /\ FreeIn(bucket) \subseteq DOMAIN blk
    BY <1>1, FreeInBlocks
<1>7. size + align - 1 <= blk[s]
    BY <1>1, <1>3, <1>5, <1>6, TiledNumbers
<1>8. PICK at : at = round_up(s, align)
    OBVIOUS
<1>9. PICK new, filed :
        /\ Trim(heap, s, size, align) = HeapOf(new, filed, used) /\ Filed(new, filed)
        /\ Trimmed(blk, FreeIn(bucket), at, size, new, FreeIn(filed))
    BY <1>1, <1>3, <1>7, <1>8, TrimCuts
<1>10. /\ Tiled(new) /\ at \in FreeIn(filed) /\ new[at] = size
       /\ DOMAIN new \ FreeIn(filed) = DOMAIN blk \ FreeIn(bucket)
       /\ \A t \in DOMAIN blk \ FreeIn(bucket) : new[t] = blk[t]
       /\ Merged(new, FreeIn(filed) \ {at})
    BY <1>9 DEF Trimmed, SameOut
<1>11. PICK left : /\ bucket_remove(HeapOf(new, filed, used), at) = HeapOf(new, left, used)
                   /\ Filed(new, left) /\ FreeIn(left) = FreeIn(filed) \ {at}
    BY <1>9, <1>10, Removed
<1>12. heap' = HeapOf(new, left, used + size)
  <2>1. [HeapOf(new, left, used) EXCEPT !.used = @ + size] = HeapOf(new, left, used + size)
      BY DEF HeapOf
  <2>2. PICK h : h = HeapOf(new, filed, used) /\ h.blk[at] = size
    <3>1. HeapOf(new, filed, used).blk = new
        BY DEF HeapOf
    <3> QED BY <1>10, <3>1
  <2>3. heap.bucket = bucket
      BY <1>2 DEF HeapIs
  <2>4. heap' = [bucket_remove(h, at) EXCEPT !.used = @ + h.blk[at]]
      BY <1>3, <1>4, <1>5, <1>8, <1>9, <2>2, <2>3 DEF Alloc
  <2> QED BY <1>11, <2>1, <2>2, <2>4
<1>13. at \in DOMAIN new /\ FreeIn(filed) \subseteq DOMAIN new
    BY <1>9, <1>10, FreeInBlocks
<1>14. PICK out \in SUBSET DOMAIN new :
        out = DOMAIN blk \ FreeIn(bucket) /\ out = DOMAIN new \ FreeIn(filed) /\ at \notin out
    BY <1>10
<1>15. DOMAIN new \ FreeIn(left) = out \cup {at}
    BY <1>10, <1>11, <1>13, <1>14
<1>16. used + size = Cardinality(Bytes(new, out \cup {at}))
  <2>1. Bytes(new, out) = Bytes(blk, out)
      BY <1>10, <1>14 DEF Bytes
  <2>2. Cardinality(Bytes(new, out \cup {at})) = Cardinality(Bytes(new, out)) + new[at]
      BY <1>10, <1>13, <1>14, BytesOut
  <2> QED BY <1>1, <1>10, <1>14, <2>1, <2>2
<1>17. HeapInv'
    BY <1>10, <1>11, <1>12, <1>15, <1>16 DEF HeapInv
<1>18. Live(heap) = out /\ heap.blk = blk
    BY <1>2, <1>14 DEF HeapIs
<1>19. Live(heap') = out \cup {at} /\ heap'.blk = new
    BY <1>12, <1>15 DEF Live, Starts, FreeSet, FreeIn, HeapOf
<1>20. at % align = 0
    BY <1>3, <1>8, <1>1, <1>6, TiledNumbers, RoundedUp
<1>21. at + size <= Size /\ at \in 0 .. Size /\ at \in Nat
  <2>1. at \in Nat /\ at + new[at] <= Size /\ Size \in Nat
      BY <1>10, <1>13, TiledNumbers
  <2> QED BY <1>10, <2>1
<1>22. ASSUME NEW t \in out PROVE at + size <= t \/ t + blk[t] <= at
  <2>1. t \in DOMAIN new /\ t # at /\ new[t] = blk[t] /\ t \in Nat
      BY <1>10, <1>14, TiledNumbers
  <2>2. at < t => at + new[at] <= t
      BY <1>10, <1>13, <2>1, TiledNumbers
  <2>3. t < at => t + new[t] <= at
      BY <1>10, <1>13, <2>1, TiledNumbers
  <2> QED BY <1>10, <1>21, <2>1, <2>2, <2>3
<1>23. Handed(at, size, align)
    BY <1>10, <1>14, <1>18, <1>19, <1>20, <1>21, <1>22 DEF Handed
<1> QED BY <1>3, <1>17, <1>23

\* What a release does to the blocks that are out.
TakenBack(s) ==
    /\ s \in Live(heap) /\ Live(heap') = Live(heap) \ {s}
    /\ \A t \in Live(heap') : heap'.blk[t] = heap.blk[t]

\* A block is joined with a free one before it, and is then merged but for
\* what is after it.
LEMMA BeforeJoined ==
    ASSUME NEW blk, NEW bucket, NEW used, Tiled(blk), Filed(blk, bucket),
           NEW s \in FreeIn(bucket), Merged(blk, FreeIn(bucket) \ {s})
    PROVE  \E new, filed, j :
               /\ MergeBefore(HeapOf(blk, bucket, used), s) = HeapOf(new, filed, used)
               /\ Joined(HeapOf(new, filed, used), s) = j
               /\ Tiled(new) /\ Filed(new, filed) /\ j \in FreeIn(filed)
               /\ SameOut(blk, FreeIn(bucket), new, FreeIn(filed))
               /\ \A x \in FreeIn(filed) : x # j => x + new[x] \notin FreeIn(filed)
<1>1. PICK h : h = HeapOf(blk, bucket, used)
    OBVIOUS
<1>2. h.blk = blk /\ Starts(h) = DOMAIN blk /\ FreeSet(h) = FreeIn(bucket) /\ \A t : End(h,
        t) = t + blk[t]
    BY <1>1 DEF HeapOf, Starts, FreeSet, FreeIn, End
<1>3. s \in DOMAIN blk /\ FreeIn(bucket)
        \subseteq DOMAIN blk /\ s \in Nat /\ blk[s] \in Nat /\ blk[s] > 0
    BY FreeInBlocks, TiledNumbers
<1>4. PICK p : p = Before(h, s) \cap FreeSet(h)
    OBVIOUS
<1>5. \A t : t \in p <=> t \in FreeIn(bucket) /\ t + blk[t] = s
    BY <1>2, <1>3, <1>4 DEF Before
\* the block s has become part of covers it, and no other does
<1>6. ASSUME NEW new, NEW filed, Tiled(new), NEW j \in DOMAIN new, j <= s, s < j + new[j]
      PROVE  Joined(HeapOf(new, filed, used), s) = j
  <2>1. PICK g : g = HeapOf(new, filed, used)
      OBVIOUS
  <2>2. Starts(g) = DOMAIN new /\ \A t : End(g, t) = t + new[t]
      BY <2>1 DEF Starts, HeapOf, End
  <2>3. ASSUME NEW t \in DOMAIN new, t <= s, s < t + new[t] PROVE t = j
    <3>1. t \in Nat /\ j \in Nat /\ new[t] \in Nat /\ new[j] \in Nat
        BY <1>6, TiledNumbers
    <3>2. t < j => t + new[t] <= j
        BY <1>6, TiledNumbers
    <3>3. j < t => j + new[j] <= t
        BY <1>6, TiledNumbers
    <3> QED BY <1>3, <1>6, <2>3, <3>1, <3>2, <3>3
  <2>4. Joined(g, s) = CHOOSE t \in DOMAIN new : t <= s /\ s < t + new[t]
      BY <2>2 DEF Joined
  <2> QED BY <1>6, <2>1, <2>3, <2>4
<1>7. CASE p = {}
  <2>1. MergeBefore(h, s) = h
      BY <1>4, <1>7 DEF MergeBefore
  <2>2. s <= s /\ s < s + blk[s]
      BY <1>3
  <2>3. Joined(HeapOf(blk, bucket, used), s) = s
      BY <1>3, <1>6, <2>2
  <2>4. ASSUME NEW x \in FreeIn(bucket), x # s PROVE x + blk[x] \notin FreeIn(bucket)
    <3>1. x + blk[x] \notin FreeIn(bucket) \ {s}
        BY <2>4 DEF Merged
    <3>2. x + blk[x] # s
        BY <1>5, <1>7
    <3> QED BY <3>1, <3>2
  <2>5. SameOut(blk, FreeIn(bucket), blk, FreeIn(bucket))
      BY DEF SameOut
  <2> QED BY <1>1, <2>1, <2>3, <2>4, <2>5
<1>8. CASE p # {}
  <2>1. PICK t \in FreeIn(bucket) : t = (CHOOSE x \in p : TRUE) /\ t + blk[t] = s
      BY <1>5, <1>8
  <2>2. t \in DOMAIN blk /\ t \in Nat /\ blk[t] \in Nat /\ blk[t] > 0 /\ t # s /\ t < s
    <3>1. t \in DOMAIN blk /\ t \in Nat /\ blk[t] \in Nat /\ blk[t] > 0
        BY <1>3, TiledNumbers
    <3>2. PICK k \in Nat : k = blk[t] /\ k > 0
        BY <3>1
    <3>3. t + k = s
        BY <2>1, <3>2
    <3>4. t # s /\ t < s
        BY <3>1, <3>2, <3>3
    <3> QED BY <3>1, <3>4
  <2>3. PICK new, filed :
          /\ merge(HeapOf(blk, bucket, used), t, s) = HeapOf(new, filed, used)
          /\ Filed(new, filed) /\ Joint(blk, FreeIn(bucket), t, s, new, FreeIn(filed))
    <3>1. t \in FreeIn(bucket) /\ s \in FreeIn(bucket) /\ s = t + blk[t]
        BY <2>1
    <3> QED BY <3>1, MergeFree, Zenon
  <2>4. MergeBefore(h, s) = HeapOf(new, filed, used)
      BY <1>1, <1>4, <1>8, <2>1, <2>3 DEF MergeBefore
  <2>5. /\ Tiled(new) /\ DOMAIN new = DOMAIN blk \ {s} /\ new[t] = blk[t] + blk[s]
        /\ FreeIn(filed) = FreeIn(bucket) \ {s} /\ \A x \in DOMAIN new : x # t => new[x] = blk[x]
      BY <2>3 DEF Joint
  <2>6. t \in DOMAIN new /\ t <= s /\ s < t + new[t] /\ t \in FreeIn(filed)
      BY <1>3, <2>1, <2>2, <2>5
  <2>7. Joined(HeapOf(new, filed, used), s) = t
      BY <1>6, <2>5, <2>6
  <2>8. SameOut(blk, FreeIn(bucket), new, FreeIn(filed))
      BY <1>3, <2>1, <2>5 DEF SameOut
  <2>9. ASSUME NEW x \in FreeIn(filed), x # t PROVE x + new[x] \notin FreeIn(filed)
    <3>1. x \in FreeIn(bucket) \ {s} /\ new[x] = blk[x]
        BY <1>3, <2>5, <2>9
    <3> QED BY <2>5, <3>1 DEF Merged
  <2> QED BY <1>1, <2>3, <2>4, <2>5, <2>6, <2>7, <2>8, <2>9
<1> QED BY <1>7, <1>8

LEMMA AfterJoined ==
    ASSUME NEW blk, NEW bucket, NEW used, Tiled(blk), Filed(blk, bucket), NEW j \in FreeIn(bucket),
           \A x \in FreeIn(bucket) : x # j => x + blk[x] \notin FreeIn(bucket)
    PROVE  \E new, filed :
               /\ MergeAfter(HeapOf(blk, bucket, used), j) = HeapOf(new, filed, used)
               /\ Tiled(new) /\ Filed(new, filed) /\ Merged(new, FreeIn(filed))
               /\ SameOut(blk, FreeIn(bucket), new, FreeIn(filed))
<1>1. PICK h : h = HeapOf(blk, bucket, used)
    OBVIOUS
<1>2. h.blk = blk /\ Starts(h) = DOMAIN blk /\ FreeSet(h) = FreeIn(bucket) /\ \A t : End(h,
        t) = t + blk[t]
    BY <1>1 DEF HeapOf, Starts, FreeSet, FreeIn, End
<1>3. j \in DOMAIN blk /\ FreeIn(bucket)
        \subseteq DOMAIN blk /\ j \in Nat /\ blk[j] \in Nat /\ blk[j] > 0
    BY FreeInBlocks, TiledNumbers
<1>4. PICK n : n = After(h, j) \cap FreeSet(h)
    OBVIOUS
<1>5. \A t : t \in n <=> t \in FreeIn(bucket) /\ t = j + blk[j]
    BY <1>2, <1>3, <1>4 DEF After
<1>6. CASE n = {}
  <2>1. MergeAfter(h, j) = h
      BY <1>4, <1>6 DEF MergeAfter
  <2>2. Merged(blk, FreeIn(bucket))
      BY <1>5, <1>6 DEF Merged
  <2>3. SameOut(blk, FreeIn(bucket), blk, FreeIn(bucket))
      BY DEF SameOut
  <2> QED BY <1>1, <2>1, <2>2, <2>3
<1>7. CASE n # {}
  <2>1. PICK t \in FreeIn(bucket) : t = (CHOOSE x \in n : TRUE) /\ t = j + blk[j]
      BY <1>5, <1>7
  <2>2. t \in DOMAIN blk /\ t # j /\ t \in Nat /\ blk[t] \in Nat
    <3>1. t \in DOMAIN blk /\ t \in Nat /\ blk[t] \in Nat
        BY <1>3, TiledNumbers
    <3>2. PICK k \in Nat : k = blk[j] /\ k > 0
        BY <1>3
    <3>3. t = j + k
        BY <2>1, <3>2
    <3>4. t # j
        BY <1>3, <3>2, <3>3
    <3> QED BY <3>1, <3>4
  <2>3. PICK new, filed :
          /\ merge(HeapOf(blk, bucket, used), j, t) = HeapOf(new, filed, used)
          /\ Filed(new, filed) /\ Joint(blk, FreeIn(bucket), j, t, new, FreeIn(filed))
      BY <2>1, MergeFree
  <2>4. MergeAfter(h, j) = HeapOf(new, filed, used)
      BY <1>1, <1>4, <1>7, <2>1, <2>3 DEF MergeAfter
  <2>5. /\ Tiled(new) /\ DOMAIN new = DOMAIN blk \ {t} /\ new[j] = blk[j] + blk[t]
        /\ FreeIn(filed) = FreeIn(bucket) \ {t} /\ \A x \in DOMAIN new : x # j => new[x] = blk[x]
      BY <2>3 DEF Joint
  <2>6. SameOut(blk, FreeIn(bucket), new, FreeIn(filed))
      BY <1>3, <2>1, <2>5 DEF SameOut
  <2>7. ASSUME NEW x \in FreeIn(filed) PROVE x + new[x] \notin FreeIn(filed)
    <3>1. CASE x = j
      <4>1. x + new[x] = t + blk[t]
        <5>1. PICK k \in Nat, m \in Nat : k = blk[j] /\ m = blk[t]
            BY <1>3, <2>2
        <5>2. new[x] = k + m /\ t = j + k
            BY <2>1, <2>5, <3>1, <5>1
        <5>3. j + (k + m) = (j + k) + m
            BY <1>3
        <5> QED BY <3>1, <5>1, <5>2, <5>3
      <4> QED BY <2>2, <2>5, <4>1
    <3>2. CASE x # j
      <4>1. x \in FreeIn(bucket) /\ new[x] = blk[x]
          BY <1>3, <2>5, <3>2
      <4> QED BY <2>5, <3>2, <4>1
    <3> QED BY <3>1, <3>2
  <2> QED BY <1>1, <2>3, <2>4, <2>5, <2>6, <2>7 DEF Merged
<1> QED BY <1>6, <1>7

LEMMA ReleaseStep ==
    ASSUME HeapInv, NEW s, Release(s)
    PROVE  HeapInv' /\ TakenBack(s)
<1>1. PICK blk, bucket, used :
        /\ heap = HeapOf(blk, bucket, used)
        /\ Tiled(blk) /\ Filed(blk, bucket) /\ Merged(blk, FreeIn(bucket))
        /\ used = Cardinality(Bytes(blk, DOMAIN blk \ FreeIn(bucket)))
    BY DEF HeapInv
<1>2. HeapIs(blk, bucket) /\ heap.used = used
    BY <1>1, HeapParts
<1>3. s \in DOMAIN blk /\ s \notin FreeIn(bucket)
    BY <1>2 DEF Release, HeapIs
<1>4. PICK u : u = used - blk[s]
    OBVIOUS
<1>5. PICK b1 : /\ bucket_append(HeapOf(blk, bucket, u), s) = HeapOf(blk, b1, u)
                /\ Filed(blk, b1) /\ FreeIn(b1) = FreeIn(bucket) \cup {s}
    BY <1>1, <1>3, Appended DEF Tiled
<1>6. Merged(blk, FreeIn(b1) \ {s})
    BY <1>1, <1>3, <1>5 DEF Merged
<1>7. PICK new, b2, j :
        /\ MergeBefore(HeapOf(blk, b1, u), s) = HeapOf(new, b2, u)
        /\ Joined(HeapOf(new, b2, u), s) = j
        /\ Tiled(new) /\ Filed(new, b2) /\ j \in FreeIn(b2)
        /\ SameOut(blk, FreeIn(b1), new, FreeIn(b2))
        /\ \A x \in FreeIn(b2) : x # j => x + new[x] \notin FreeIn(b2)
    BY <1>1, <1>5, <1>6, BeforeJoined
<1>8. PICK last, b3 :
        /\ MergeAfter(HeapOf(new, b2, u), j) = HeapOf(last, b3, u)
        /\ Tiled(last) /\ Filed(last, b3) /\ Merged(last, FreeIn(b3))
        /\ SameOut(new, FreeIn(b2), last, FreeIn(b3))
    BY <1>7, AfterJoined
<1>9. heap' = HeapOf(last, b3, u)
  <2>1. [heap EXCEPT !.used = @ - heap.blk[s]] = HeapOf(blk, bucket, u)
      BY <1>1, <1>4 DEF HeapOf
  <2>2. heap' = MergeAfter(MergeBefore(bucket_append(HeapOf(blk, bucket, u), s), s),
                    Joined(MergeBefore(bucket_append(HeapOf(blk, bucket, u), s), s), s))
      BY <2>1 DEF Release
  <2> QED BY <1>5, <1>7, <1>8, <2>2
<1>10. PICK out \in SUBSET DOMAIN blk : out = DOMAIN blk \ (FreeIn(bucket) \cup {s})
    OBVIOUS
<1>11. /\ DOMAIN last \ FreeIn(b3) = out /\ \A t \in out : last[t] = blk[t]
    BY <1>5, <1>7, <1>8, <1>10 DEF SameOut
<1>12. DOMAIN blk \ FreeIn(bucket) = out \cup {s} /\ s \notin out
    BY <1>3, <1>10
<1>13. u = Cardinality(Bytes(last, out))
  <2>1. Bytes(last, out) = Bytes(blk, out)
      BY <1>11 DEF Bytes
  <2>2. Cardinality(Bytes(blk, out \cup {s})) = Cardinality(Bytes(blk, out)) + blk[s]
      BY <1>1, <1>3, <1>12, BytesOut
  <2>3. PICK c \in Nat, n \in Nat : c = Cardinality(Bytes(blk, out)) /\ n = blk[s]
    <3>1. Cardinality(Bytes(blk, out)) \in 0 .. Size /\ blk[s] \in Nat /\ Size \in Nat
        BY <1>1, <1>3, BytesOut, TiledNumbers
    <3> QED BY <3>1
  <2>4. used = c + n
      BY <1>1, <1>12, <2>2, <2>3
  <2> QED BY <1>4, <2>1, <2>3, <2>4
<1>14. HeapInv'
    BY <1>8, <1>9, <1>11, <1>13 DEF HeapInv
<1>15. Live(heap') = out /\ heap'.blk = last
    BY <1>9, <1>11 DEF Live, Starts, FreeSet, FreeIn, HeapOf
<1>16. Live(heap) = out \cup {s} /\ heap.blk = blk
    BY <1>2, <1>12 DEF HeapIs
<1>17. TakenBack(s)
    BY <1>11, <1>12, <1>15, <1>16 DEF TakenBack
<1> QED BY <1>14, <1>17

\* Every step of the allocator gives a block, takes one back or changes nothing.
LEMMA HeapStep ==
    ASSUME HeapInv, [HeapNext]_heap
    PROVE  /\ HeapInv'
           /\ \/ \E n \in Requests, align \in Aligns : \E at : Handed(at, Needed(n), align)
              \/ \E s : TakenBack(s)
              \/ UNCHANGED heap
<1>1. CASE UNCHANGED heap
    BY <1>1 DEF HeapInv
<1>2. ASSUME NEW n \in Requests, NEW align \in Aligns, Alloc(n, align)
      PROVE  HeapInv' /\ \E at : Handed(at, Needed(n), align)
    BY <1>2, AllocStep
<1>3. ASSUME NEW s, Release(s) PROVE HeapInv' /\ TakenBack(s)
    BY <1>3, ReleaseStep
<1>4. ASSUME NEW n \in Requests, NEW align \in Aligns, Refuse(n, align) PROVE UNCHANGED heap
    BY <1>4 DEF Refuse
<1>5. ASSUME NEW s, ReleaseRefused(s) PROVE UNCHANGED heap
    BY <1>5 DEF ReleaseRefused
<1> QED BY <1>1, <1>2, <1>3, <1>4, <1>5 DEF HeapNext

-----------------------------------------------------------------------------
(***************************************************************************)
(* What the runs check of the allocator.                                   *)
(***************************************************************************)

\* The blocks tile the memory: every byte is in one.
LEMMA EveryByteInABlock ==
    ASSUME NEW blk, Tiled(blk), NEW x \in 0 .. Size - 1
    PROVE  \E t \in DOMAIN blk : t <= x /\ x < t + blk[t]
<1> DEFINE below == {x - t : t \in {u \in DOMAIN blk : u <= x}}
<1>1. x \in Nat /\ x < Size /\ Size \in Nat
    BY TlsfAssumption
<1>2. \A u \in DOMAIN blk : u \in Nat
    BY TiledNumbers
<1>3. below \in SUBSET Nat
    BY <1>1, <1>2
<1>4. below # {}
  <2>1. 0 \in DOMAIN blk /\ 0 <= x
      BY <1>1 DEF Tiled
  <2> QED BY <2>1
<1>5. PICK d \in below : \A e \in below : d <= e
    BY <1>3, <1>4, LeastNumber
<1>6. PICK t \in DOMAIN blk : t <= x /\ d = x - t
    BY <1>5
<1>7. t \in Nat /\ blk[t] \in Nat /\ blk[t] > 0
    BY TiledNumbers
<1>8. SUFFICES ASSUME t + blk[t] <= x PROVE FALSE
    BY <1>1, <1>6, <1>7
<1>9. t + blk[t] \in DOMAIN blk
    BY <1>1, <1>7, <1>8, TiledNumbers
<1>10. x - (t + blk[t]) \in below
    BY <1>8, <1>9
<1>11. d <= x - (t + blk[t])
    BY <1>5, <1>10
<1> QED BY <1>1, <1>6, <1>7, <1>11

LEMMA SoundHeap == HeapInv => HeapSound
<1> SUFFICES ASSUME HeapInv PROVE HeapSound
    OBVIOUS
<1>1. PICK blk, bucket, used :
        /\ heap = HeapOf(blk, bucket, used)
        /\ Tiled(blk) /\ Filed(blk, bucket) /\ Merged(blk, FreeIn(bucket))
        /\ used = Cardinality(Bytes(blk, DOMAIN blk \ FreeIn(bucket)))
    BY DEF HeapInv
<1>2. HeapIs(blk, bucket) /\ heap.used = used
    BY <1>1, HeapParts
<1>3. TypeOK
  <2>1. \A s \in Starts(heap) : s \in 0 .. Size - 1 /\ heap.blk[s] \in 1 .. Size
      BY <1>1, <1>2, TiledNumbers DEF HeapIs
  <2>2. \A b \in Buckets : heap.bucket[b] \in Seq(Starts(heap))
      BY <1>1, <1>2 DEF HeapIs, Filed
  <2>3. used \in 0 .. Size
    <3>1. DOMAIN blk \ FreeIn(bucket) \in SUBSET DOMAIN blk
        OBVIOUS
    <3> QED BY <1>1, <3>1, BytesOut
  <2> QED BY <1>2, <2>1, <2>2, <2>3 DEF TypeOK
<1>4. BlocksTileMemory
  <2>1. 0 \in Starts(heap)
      BY <1>1, <1>2 DEF HeapIs, Tiled
  <2>2. \A s \in Starts(heap) : End(heap, s) = Size \/ End(heap, s) \in Starts(heap)
      BY <1>1, <1>2, TiledNumbers DEF HeapIs
  <2>3. \A s, t \in Starts(heap) : s < t => End(heap, s) <= t
      BY <1>1, <1>2, TiledNumbers DEF HeapIs
  <2>4. \A b \in Buckets : \A i, j \in DOMAIN heap.bucket[b] :
           /\ bucket_of(heap.blk[heap.bucket[b][i]]) = b
           /\ heap.bucket[b][i] = heap.bucket[b][j] => i = j
      BY <1>1, <1>2 DEF HeapIs, Filed
  <2> QED BY <2>1, <2>2, <2>3, <2>4 DEF BlocksTileMemory
<1>5. UsedIsWhatIsOut
  <2>1. Bytes(blk, Live(heap)) = UNION {s .. End(heap, s) - 1 : s \in Live(heap)}
    <3>1. ASSUME NEW s \in Live(heap) PROVE s .. End(heap, s) - 1 = s .. s + blk[s] - 1
      <4>1. s \in Nat /\ blk[s] \in Nat
          BY <1>1, <1>2, TiledNumbers DEF HeapIs
      <4>2. End(heap, s) - 1 = s + blk[s] - 1
          BY <1>2, <4>1 DEF HeapIs
      <4> QED BY <4>2
    <3> QED BY <3>1 DEF Bytes
  <2> QED BY <1>1, <1>2, <2>1 DEF UsedIsWhatIsOut, HeapIs
<1>6. FreeBlocksMerged
    BY <1>1, <1>2 DEF FreeBlocksMerged, After, HeapIs, Merged
<1> QED BY <1>3, <1>4, <1>5, <1>6 DEF HeapSound

LEMMA RefusedHeap == HeapInv => RefusedOnlyWhenFull
<1> SUFFICES ASSUME HeapInv, NEW n \in Requests, NEW align \in Aligns, ~ Fits(n, align),
                    NEW lo \in 0 .. Size - Want(n, align),
                    \A s \in Live(heap) : ~ (s < lo + Want(n, align) /\ End(heap, s) > lo)
             PROVE  FALSE
    BY DEF RefusedOnlyWhenFull
<1>1. PICK blk, bucket, used :
        /\ heap = HeapOf(blk, bucket, used)
        /\ Tiled(blk) /\ Filed(blk, bucket) /\ Merged(blk, FreeIn(bucket))
    BY DEF HeapInv
<1>2. HeapIs(blk, bucket)
    BY <1>1, HeapParts
<1>3. PICK want \in Nat \ {0} :
        /\ want = Want(n, align)
        /\ \A x \in Nat \ {0} : x < want => bucket_of(x) < bucket_of(want)
    BY Asked
<1>4. Size \in Nat /\ lo \in Nat /\ lo + want <= Size /\ lo \in 0 .. Size - 1
    BY <1>3, TlsfAssumption
<1>5. PICK t \in DOMAIN blk : t <= lo /\ lo < t + blk[t]
    BY <1>1, <1>4, EveryByteInABlock
<1>6. PICK k \in Nat \ {0} : k = blk[t] /\ t \in Nat
  <2>1. t \in Nat /\ blk[t] \in Nat /\ blk[t] > 0
      BY <1>1, TiledNumbers
  <2> QED BY <2>1
<1>7. t \in FreeIn(bucket)
  <2>1. t < lo + want /\ t + blk[t] > lo
      BY <1>3, <1>4, <1>5, <1>6
  <2> QED BY <1>2, <1>3, <2>1 DEF HeapIs
<1>8. k >= want
  <2>1. SUFFICES ASSUME t + k < lo + want PROVE FALSE
      BY <1>3, <1>4, <1>5, <1>6
  <2>2. t + k \in DOMAIN blk
      BY <1>1, <1>4, <1>6, <2>1, TiledNumbers
  <2>3. PICK u \in DOMAIN blk : u = t + k /\ u \in Nat /\ blk[u] \in Nat /\ blk[u] > 0
      BY <1>1, <2>2, TiledNumbers
  <2>4. u < lo + want /\ u + blk[u] > lo
      BY <1>4, <1>5, <1>6, <2>1, <2>3
  <2>5. u \in FreeIn(bucket)
      BY <1>2, <1>3, <2>4 DEF HeapIs
  <2> QED BY <1>1, <1>6, <1>7, <2>3, <2>5 DEF Merged
<1>9. PICK b \in Buckets : b = bucket_of(k) /\ bucket_of(want) <= b
  <2>1. bucket_of(k) \in Buckets
      BY <1>1, <1>6, <1>7, FreeBlock
  <2>2. bucket_of(want) <= bucket_of(k)
      BY <1>3, <1>6, <1>8, BucketUp
  <2> QED BY <2>1, <2>2
<1>10. PICK q \in Seq(DOMAIN blk) : q = bucket[b] /\ q # <<>>
  <2>1. bucket[b] \in Seq(DOMAIN blk)
      BY <1>1 DEF Filed
  <2>2. \E i \in DOMAIN bucket[b] : bucket[b][i] = t
      BY <1>1, <1>6, <1>7, <1>9, FreeBlock
  <2>3. bucket[b] # <<>>
      BY <2>2
  <2> QED BY <2>1, <2>3
<1>11. PICK x \in DOMAIN blk : x = Head(q) /\ bucket_of(blk[x]) = b
  <2>1. 1 \in DOMAIN q /\ Head(q) = q[1] /\ q[1] \in DOMAIN blk
      BY <1>10
  <2>2. bucket_of(blk[q[1]]) = b
      BY <1>1, <1>10, <2>1 DEF Filed
  <2> QED BY <2>1, <2>2
<1>12. PICK m \in Nat \ {0} : m = blk[x]
  <2>1. blk[x] \in Nat /\ blk[x] > 0
      BY <1>1, TiledNumbers
  <2> QED BY <2>1
<1>13. m >= want
  <2>1. SUFFICES ASSUME m < want PROVE FALSE
      BY <1>3, <1>12
  <2>2. bucket_of(m) < bucket_of(want)
      BY <1>3, <2>1
  <2>3. bucket_of(want) \in Nat /\ b \in Nat
      BY <1>3, <1>9, BucketOf DEF Buckets
  <2> QED BY <1>9, <1>11, <1>12, <2>2, <2>3
<1>14. b \in Fitting(heap, want)
  <2>1. bucket_of(want) \in Nat /\ b \in Nat
      BY <1>3, <1>9, BucketOf DEF Buckets
  <2> QED BY <1>2, <1>9, <1>10, <1>11, <1>12, <1>13, <2>1 DEF Fitting, HeapIs
<1> QED BY <1>3, <1>14 DEF Fits

\* The invariant: the blocks tile the memory, the free ones are in the buckets
\* of their sizes and merged, and the bytes out are counted.
THEOREM HeapInvariant == HeapSpec => []HeapInv
<1>1. HeapInit => HeapInv
    BY InitHeap
<1>2. HeapInv /\ [HeapNext]_heap => HeapInv'
    BY HeapStep
<1> QED BY <1>1, <1>2, PTL DEF HeapSpec

\* No sequence of splits and merges loses bytes or counts them twice, files a
\* block by a size it had, or leaves two free neighbours apart.
THEOREM HeapAlwaysSound == HeapSpec => []HeapSound
<1>1. HeapInv => HeapSound
    BY SoundHeap
<1> QED BY <1>1, HeapInvariant, PTL

\* A request is refused only when no gap holds the rounded size it looks for.
THEOREM HeapRefusesOnlyWhenFull == HeapSpec => []RefusedOnlyWhenFull
<1>1. HeapInv => RefusedOnlyWhenFull
    BY RefusedHeap
<1> QED BY <1>1, HeapInvariant, PTL

\* What is out, as the abstract allocator sees it.
OutOf(h) == {[at |-> s, size |-> h.blk[s]] : s \in Live(h)}

LEMMA GivesWhatIsPromised ==
    ASSUME NEW n \in Requests, NEW align \in Aligns, NEW at, Handed(at, Needed(n), align)
    PROVE  Promised!Next
<1>1. PICK b : b = [at |-> at, size |-> Needed(n)]
    OBVIOUS
<1>2. b.at = at /\ b.size = Needed(n)
    BY <1>1
<1>3. /\ at % align = 0 /\ at + Needed(n) <= Size /\ at \in 0 .. Size
      /\ at \notin Live(heap) /\ Live(heap') = Live(heap) \cup {at} /\ heap'.blk[at] = Needed(n)
      /\ \A s \in Live(heap) :
             /\ heap'.blk[s] = heap.blk[s]
             /\ at + Needed(n) <= s \/ s + heap.blk[s] <= at
    BY DEF Handed
<1>4. \A c \in OutOf(heap) : Promised!Apart(b, c)
  <2>1. ASSUME NEW c \in OutOf(heap) PROVE Promised!Apart(b, c)
    <3>1. PICK s \in Live(heap) : c = [at |-> s, size |-> heap.blk[s]]
        BY DEF OutOf
    <3> QED BY <1>2, <1>3, <3>1 DEF Promised!Apart
  <2> QED BY <2>1
<1>5. OutOf(heap') = OutOf(heap) \cup {b}
    BY <1>1, <1>3 DEF OutOf
<1>6. Promised!Give(b, align)
    BY <1>2, <1>3, <1>4, <1>5 DEF Promised!Give, OutOf
<1> QED BY <1>1, <1>3, <1>6 DEF Promised!Next

LEMMA TakesBackWhatIsOut ==
    ASSUME NEW s, TakenBack(s)
    PROVE  Promised!Next
<1>1. PICK b : b = [at |-> s, size |-> heap.blk[s]]
    OBVIOUS
<1>2. b \in OutOf(heap)
    BY <1>1 DEF TakenBack, OutOf
<1>3. \A t : [at |-> t, size |-> heap.blk[t]] = b => t = s
    BY <1>1
<1>4. \A t \in Live(heap') : [at |-> t, size |-> heap'.blk[t]] = [at |-> t, size |-> heap.blk[t]]
    BY DEF TakenBack
<1>5. OutOf(heap') = {[at |-> t, size |-> heap.blk[t]] : t \in Live(heap')}
    BY <1>4 DEF OutOf
<1>6. OutOf(heap') = OutOf(heap) \ {b}
  <2>1. ASSUME NEW c \in OutOf(heap') PROVE c \in OutOf(heap) \ {b}
      BY <1>3, <1>5, <2>1 DEF OutOf, TakenBack
  <2>2. ASSUME NEW c \in OutOf(heap), c # b PROVE c \in OutOf(heap')
    <3>1. PICK t \in Live(heap) : c = [at |-> t, size |-> heap.blk[t]]
        BY DEF OutOf
    <3>2. t # s
        BY <1>1, <2>2, <3>1
    <3>3. t \in Live(heap')
        BY <3>1, <3>2 DEF TakenBack
    <3> QED BY <1>5, <3>1, <3>3
  <2> QED BY <2>1, <2>2
<1>7. Promised!TakeBack(b)
    BY <1>2, <1>6 DEF Promised!TakeBack, OutOf
<1> QED BY <1>2, <1>7 DEF Promised!Next, OutOf

\* The allocator implements what an allocator promises: blocks handed out are
\* apart, aligned, inside the memory and of the size asked for, and only they
\* come back.
THEOREM HeapKeepsPromises == HeapSpec => KeepsAllocatorsPromises
<1> DEFINE out == {[at |-> s, size |-> heap.blk[s]] : s \in Live(heap)}
<1>1. HeapInit => Promised!Init
  <2> SUFFICES ASSUME HeapInit PROVE Promised!Init
      OBVIOUS
  <2>1. bucket_of(Size) \in Buckets
      BY TlsfAssumption, SizesHaveBuckets
  <2>2. 1 \in DOMAIN heap.bucket[bucket_of(Size)] /\ heap.bucket[bucket_of(Size)][1] = 0
      BY <2>1 DEF HeapInit
  <2>3. 0 \in FreeSet(heap)
      BY <2>1, <2>2 DEF FreeSet
  <2>4. Starts(heap) = {0}
      BY DEF HeapInit, Starts
  <2>5. Live(heap) = {}
      BY <2>3, <2>4 DEF Live
  <2> QED BY <2>5 DEF Promised!Init
<1>2. HeapInv /\ [HeapNext]_heap => [Promised!Next]_out
  <2> SUFFICES ASSUME HeapInv, [HeapNext]_heap PROVE [Promised!Next]_out
      OBVIOUS
  <2>1. CASE \E n \in Requests, align \in Aligns : \E at : Handed(at, Needed(n), align)
      BY <2>1, GivesWhatIsPromised
  <2>2. CASE \E s : TakenBack(s)
      BY <2>2, TakesBackWhatIsOut
  <2>3. CASE UNCHANGED heap
    <3>1. Live(heap') = Live(heap) /\ heap'.blk = heap.blk
        BY <2>3
    <3> QED BY <3>1
  <2> QED BY <2>1, <2>2, <2>3, HeapStep
<1> QED BY <1>1, <1>2, HeapInvariant, PTL DEF HeapSpec, KeepsAllocatorsPromises, Promised!Spec

-----------------------------------------------------------------------------
(***************************************************************************)
(* The host pool: a slab's list of blocks.                                 *)
(***************************************************************************)

BlockSet == [off : Nat, size : Nat, used : BOOLEAN]

\* The list tiles a slab of the size, in order.
Laid(l, size) ==
    /\ l \in Seq(BlockSet) /\ Len(l) > 0
    /\ l[1].off = 0
    /\ \A i \in 1 .. Len(l) : l[i].size > 0
    /\ \A i \in 1 .. Len(l) : i < Len(l) => l[i].off + l[i].size = l[i + 1].off
    /\ l[Len(l)].off + l[Len(l)].size = size

\* No two free blocks are neighbours.
Parted(l) == \A i \in 1 .. Len(l) : i < Len(l) => l[i].used \/ l[i + 1].used

LEMMA ABlock ==
    ASSUME NEW off \in Nat, NEW size \in Nat, NEW used \in BOOLEAN
    PROVE  /\ Block(off, size, used) \in BlockSet
           /\ Block(off, size, used).off = off
           /\ Block(off, size, used).size = size
           /\ Block(off, size, used).used = used
    BY DEF Block, BlockSet

LEMMA LaidBlock ==
    ASSUME NEW l, NEW size, Laid(l, size), NEW i \in 1 .. Len(l)
    PROVE  /\ Len(l) \in Nat /\ Len(l) > 0 /\ i \in Nat
           /\ l[i] \in BlockSet /\ l[i].off \in Nat /\ l[i].size \in Nat /\ l[i].size > 0
           /\ l[i].used \in BOOLEAN
<1>1. Len(l) \in Nat /\ l[i] \in BlockSet
    BY DEF Laid
<1> QED BY <1>1 DEF BlockSet, Laid

\* What comes later in the list lies higher.
LEMMA InOrder ==
    ASSUME NEW l, NEW size, Laid(l, size),
           NEW i \in 1 .. Len(l), NEW j \in 1 .. Len(l), i < j
    PROVE  l[i].off + l[i].size <= l[j].off
<1> DEFINE below == {k \in 1 .. Len(l) : i < k /\ ~ (l[i].off + l[i].size <= l[k].off)}
<1>1. SUFFICES ASSUME j \in below PROVE FALSE
    OBVIOUS
<1>2. below \in SUBSET Nat /\ below # {}
    BY <1>1, LaidBlock
<1>3. PICK k \in below : \A m \in below : k <= m
    BY <1>2, LeastNumber
<1>4. k \in 1 .. Len(l) /\ k - 1 \in 1 .. Len(l) /\ i <= k - 1 /\ k - 1 < Len(l) /\ (k - 1) + 1 = k
    BY <1>3, LaidBlock
<1>5. l[k - 1].off + l[k - 1].size = l[k].off
    BY <1>4 DEF Laid
<1>6. l[i].off \in Nat /\ l[i].size \in Nat /\ l[k - 1].off \in Nat /\ l[k - 1].size \in Nat
    BY <1>4, LaidBlock
<1>7. CASE i = k - 1
    BY <1>3, <1>5, <1>6, <1>7
<1>8. CASE i # k - 1
  <2>1. i < k - 1 /\ k - 1 \notin below
      BY <1>3, <1>4, <1>8, LaidBlock
  <2>2. l[i].off + l[i].size <= l[k - 1].off
      BY <1>4, <2>1
  <2> QED BY <1>3, <1>5, <1>6, <2>2, SMTT(60)
<1> QED BY <1>7, <1>8

\* The pages that are out, by the place of their block in the list.
LEMMA OutAt ==
    ASSUME NEW l, NEW p
    PROVE  p \in UsedPages(l) <=> \E j \in DOMAIN l : l[j].used /\ p \in Pages(l[j])
    BY DEF UsedPages

LEMMA PageOf ==
    ASSUME NEW b \in BlockSet, NEW p
    PROVE  p \in Pages(b) <=> p \in Nat /\ b.off <= p /\ p < b.off + b.size
<1>1. b.off \in Nat /\ b.size \in Nat
    BY DEF BlockSet
<1> QED BY <1>1 DEF Pages

LEMMA NotOut ==
    ASSUME NEW l, NEW size, Laid(l, size), NEW i \in 1 .. Len(l), ~ l[i].used
    PROVE  UsedPages(l) \cap Pages(l[i]) = {}
<1> SUFFICES ASSUME NEW p \in UsedPages(l), p \in Pages(l[i]) PROVE FALSE
    OBVIOUS
<1>1. DOMAIN l = 1 .. Len(l)
    BY DEF Laid
<1>2. PICK j \in 1 .. Len(l) : l[j].used /\ p \in Pages(l[j])
    BY <1>1, OutAt
<1>3. /\ l[i] \in BlockSet /\ l[i].off \in Nat /\ l[i].size \in Nat /\ i \in Nat
      /\ l[j] \in BlockSet /\ l[j].off \in Nat /\ l[j].size \in Nat /\ j \in Nat
    BY LaidBlock
<1>4. /\ p \in Nat /\ l[i].off <= p /\ p < l[i].off + l[i].size
      /\ l[j].off <= p /\ p < l[j].off + l[j].size
    BY <1>2, <1>3, PageOf
<1>5. i # j
    BY <1>2
<1>6. CASE i < j
  <2>1. l[i].off + l[i].size <= l[j].off
      BY <1>6, InOrder
  <2> QED BY <1>3, <1>4, <2>1
<1>7. CASE j < i
  <2>1. l[j].off + l[j].size <= l[i].off
      BY <1>7, InOrder
  <2> QED BY <1>3, <1>4, <2>1
<1> QED BY <1>3, <1>5, <1>6, <1>7

\* A stretch of a list replaced.
SplicedAs(l, i, mid, n, new) ==
    /\ Len(new) = (i - 1) + Len(mid) + (Len(l) + 1 - n)
    /\ \A j \in 1 .. i - 1 : new[j] = l[j]
    /\ \A j \in 1 .. Len(mid) : new[(i - 1) + j] = mid[j]
    /\ \A j \in n .. Len(l) : new[(j - n) + i + Len(mid)] = l[j]

LEMMA Spliced ==
    ASSUME NEW S, NEW l \in Seq(S), NEW i \in 1 .. Len(l), NEW mid \in Seq(S),
           NEW n \in Nat, i < n, n <= Len(l) + 1
    PROVE  LET new == SubSeq(l, 1, i - 1) \o mid \o SubSeq(l, n, Len(l))
           IN  new \in Seq(S) /\ SplicedAs(l, i, mid, n, new)
<1>0. i - 1 \in Nat /\ Len(mid) \in Nat /\ Len(l) + 1 - n \in Nat /\ Len(l) \in Nat /\ n \in Nat
    OBVIOUS
<1>x. PICK x \in Nat : x = i - 1
    BY <1>0
<1>y. PICK y \in Nat : y = Len(mid)
    BY <1>0
<1>z. PICK z \in Nat : z = Len(l) + 1 - n
    BY <1>0
<1>1. /\ x = i - 1 /\ y = Len(mid) /\ z = Len(l) + 1 - n /\ i = x + 1 /\ n \in Nat
      /\ x \in Nat /\ y \in Nat /\ z \in Nat
      /\ Len(l) \in Nat /\ x < n /\ n + z = Len(l) + 1
    BY <1>0, <1>x, <1>y, <1>z
<1>2. PICK a : a = SubSeq(l, 1, i - 1)
    OBVIOUS
<1>3. a \in Seq(S) /\ Len(a) = x /\ \A j \in 1 .. x : a[j] = l[j]
  <2>1. 1 \in Int /\ i - 1 \in Int /\ \A j \in 1 .. i - 1 : l[j] \in S
      BY <1>1
  <2>2. /\ a \in Seq(S) /\ Len(a) = IF 1 <= i - 1 THEN (i - 1) - 1 + 1 ELSE 0
        /\ \A j \in 1 .. (i - 1) - 1 + 1 : a[j] = l[1 + j - 1]
      BY <1>2, <2>1, SubSeqProperties
  <2>3. Len(a) = x
      BY <1>1, <2>2
  <2>4. ASSUME NEW j \in 1 .. x PROVE a[j] = l[j]
    <3>1. j \in 1 .. (i - 1) - 1 + 1 /\ 1 + j - 1 = j
        BY <1>1
    <3>2. a[j] = l[1 + j - 1]
        BY <2>2, <3>1
    <3> QED BY <3>1, <3>2
  <2> QED BY <2>2, <2>3, <2>4
<1>4. PICK c : c = SubSeq(l, n, Len(l))
    OBVIOUS
<1>5. c \in Seq(S) /\ Len(c) = z /\ \A j \in 1 .. z : c[j] = l[(n + j) - 1]
  <2>1. n \in Int /\ Len(l) \in Int /\ \A j \in n .. Len(l) : l[j] \in S
      BY <1>1
  <2>2. /\ c \in Seq(S) /\ Len(c) = IF n <= Len(l) THEN Len(l) - n + 1 ELSE 0
        /\ \A j \in 1 .. Len(l) - n + 1 : c[j] = l[n + j - 1]
      BY <1>4, <2>1, SubSeqProperties
  <2>3. Len(c) = z
      BY <1>1, <2>2
  <2>4. ASSUME NEW j \in 1 .. z PROVE c[j] = l[(n + j) - 1]
    <3>1. j \in 1 .. Len(l) - n + 1 /\ n + j - 1 = (n + j) - 1
        BY <1>1
    <3>2. c[j] = l[n + j - 1]
        BY <2>2, <3>1
    <3> QED BY <3>1, <3>2
  <2> QED BY <2>2, <2>3, <2>4
<1>6. PICK f : f = a \o mid
    OBVIOUS
<1>7. /\ f \in Seq(S) /\ Len(f) = x + y
      /\ \A j \in 1 .. x + y : f[j] = IF j <= x THEN a[j] ELSE mid[j - x]
    BY <1>1, <1>3, <1>6, ConcatProperties
<1>8. PICK new : new = f \o c
    OBVIOUS
<1>9. /\ new \in Seq(S) /\ Len(new) = (x + y) + z
      /\ \A j \in 1 .. (x + y) + z : new[j] = IF j <= x + y THEN f[j] ELSE c[j - (x + y)]
  <2>1. /\ new \in Seq(S) /\ Len(new) = Len(f) + Len(c)
        /\ \A j \in 1 .. Len(f) + Len(c) :
               new[j] = IF j <= Len(f) THEN f[j] ELSE c[j - Len(f)]
      BY <1>5, <1>7, <1>8, ConcatProperties
  <2> QED BY <1>5, <1>7, <2>1, Zenon
<1>10. ASSUME NEW j \in 1 .. x PROVE new[j] = l[j]
  <2>1. j \in 1 .. x + y /\ j \in 1 .. (x + y) + z /\ j <= x /\ j <= x + y
      BY <1>1
  <2>2. new[j] = f[j] /\ f[j] = a[j] /\ a[j] = l[j]
      BY <1>3, <1>7, <1>9, <2>1
  <2> QED BY <2>2
<1>11. ASSUME NEW j \in 1 .. y PROVE new[x + j] = mid[j]
  <2>1. PICK k \in Nat : k = x + j
      BY <1>1
  <2>2. k \in 1 .. x + y /\ k \in 1 .. (x + y) + z /\ ~ (k <= x) /\ k <= x + y /\ k - x = j
      BY <1>1, <2>1
  <2>3. new[k] = f[k] /\ f[k] = mid[k - x]
      BY <1>7, <1>9, <2>2
  <2> QED BY <2>1, <2>2, <2>3
<1>12. ASSUME NEW j \in n .. Len(l) PROVE new[(j - n) + i + y] = l[j]
  <2>1. PICK m \in Nat : m = (j - n) + 1 /\ m \in 1 .. z /\ (n + m) - 1 = j
    <3>1. (j - n) + 1 \in Nat /\ (j - n) + 1 \in 1 .. z /\ (n + ((j - n) + 1)) - 1 = j
        BY <1>1
    <3> QED BY <3>1
  <2>2. PICK k \in Nat : k = (x + y) + m
    <3>1. (x + y) + m \in Nat
        BY <1>1, <2>1
    <3> QED BY <3>1
  <2>3. /\ k \in 1 .. (x + y) + z /\ ~ (k <= x + y) /\ k - (x + y) = m
        /\ (j - n) + i + y = k
      BY <1>1, <2>1, <2>2
  <2>4. new[k] = c[m] /\ c[m] = l[j]
      BY <1>5, <1>9, <2>1, <2>3
  <2> QED BY <2>3, <2>4
<1>14. Len(new) = (i - 1) + Len(mid) + (Len(l) + 1 - n)
    BY <1>1, <1>9
<1>15. SplicedAs(l, i, mid, n, new)
    BY <1>1, <1>10, <1>11, <1>12, <1>14 DEF SplicedAs
<1>16. new = SubSeq(l, 1, i - 1) \o mid \o SubSeq(l, n, Len(l))
    BY <1>2, <1>4, <1>6, <1>8
<1> QED BY <1>9, <1>15, <1>16

LEMMA OneAndTwo ==
    ASSUME NEW S, NEW b \in S, NEW c \in S, NEW q, q = <<b>> \o <<c>>
    PROVE  /\ <<b>> \in Seq(S) /\ Len(<<b>>) = 1 /\ <<b>>[1] = b
           /\ q \in Seq(S) /\ Len(q) = 2 /\ q[1] = b /\ q[2] = c
<1>1. /\ <<b>> \in Seq(S) /\ Len(<<b>>) = 1 /\ <<b>>[1] = b
      /\ <<c>> \in Seq(S) /\ Len(<<c>>) = 1 /\ <<c>>[1] = c
    OBVIOUS
<1>2. /\ q \in Seq(S) /\ Len(q) = Len(<<b>>) + Len(<<c>>)
      /\ \A i \in 1 .. Len(<<b>>) + Len(<<c>>) :
             q[i] = IF i <= Len(<<b>>) THEN <<b>>[i] ELSE <<c>>[i - Len(<<b>>)]
    BY <1>1, ConcatProperties, Zenon
<1>3. 1 + 1 = 2 /\ 1 \in 1 .. 2 /\ 2 \in 1 .. 2 /\ 1 <= 1 /\ ~ (2 <= 1) /\ 2 - 1 = 1
    OBVIOUS
<1>4. Len(<<b>>) + Len(<<c>>) = 2
    BY <1>1, <1>3, Zenon
<1>5. Len(q) = 2 /\ \A i \in 1 .. 2 : q[i] = IF i <= 1 THEN <<b>>[i] ELSE <<c>>[i - 1]
    BY <1>1, <1>2, <1>4, Zenon
<1>6. q[1] = b /\ q[2] = c
    BY <1>1, <1>3, <1>5
<1> QED BY <1>1, <1>2, <1>5, <1>6

LEMMA Front ==
    ASSUME NEW S, NEW l \in Seq(S), NEW i \in 1 .. Len(l)
    PROVE  SubSeq(l, 1, i - 1) \in Seq(S)
<1>1. 1 \in Int /\ i - 1 \in Int /\ \A j \in 1 .. i - 1 : l[j] \in S
    OBVIOUS
<1> QED BY <1>1, SubSeqProperties

OneSpliced(l, i, b, n, new) ==
    /\ Len(new) = Len(l) - (n - (i + 1)) /\ new[i] = b
    /\ \A j \in 1 .. Len(l) : j < i => new[j] = l[j]
    /\ \A j \in n .. Len(l) : new[j - (n - (i + 1))] = l[j]

TwoSpliced(l, i, b, c, new) ==
    /\ Len(new) = Len(l) + 1 /\ new[i] = b /\ new[i + 1] = c
    /\ \A j \in 1 .. Len(l) : j < i => new[j] = l[j]
    /\ \A j \in 1 .. Len(l) : j > i => new[j + 1] = l[j]

OneFor(l, i, b, n) == SubSeq(l, 1, i - 1) \o <<b>> \o SubSeq(l, n, Len(l))

LEMMA SplicedOne ==
    ASSUME NEW S, NEW l \in Seq(S), NEW i \in 1 .. Len(l), NEW b \in S,
           NEW n \in Nat, i < n, n <= Len(l) + 1, NEW new, new = OneFor(l, i, b, n)
    PROVE  new \in Seq(S) /\ OneSpliced(l, i, b, n, new)
<1>1. PICK mid : mid = <<b>>
    OBVIOUS
<1>2. mid \in Seq(S) /\ Len(mid) = 1 /\ mid[1] = b
    BY <1>1
<1>3. Len(l) \in Nat /\ i \in Nat /\ n \in Nat
    OBVIOUS
<1>4. new = SubSeq(l, 1, i - 1) \o mid \o SubSeq(l, n, Len(l))
    BY <1>1 DEF OneFor
<1>s. new \in Seq(S) /\ SplicedAs(l, i, mid, n, new)
    BY <1>2, <1>4, Spliced, Zenon
<1>5. /\ new \in Seq(S) /\ Len(new) = (i - 1) + Len(mid) + (Len(l) + 1 - n)
      /\ \A j \in 1 .. i - 1 : new[j] = l[j]
      /\ \A j \in 1 .. Len(mid) : new[(i - 1) + j] = mid[j]
      /\ \A j \in n .. Len(l) : new[(j - n) + i + Len(mid)] = l[j]
    BY <1>s DEF SplicedAs
<1>6. Len(new) = Len(l) - (n - (i + 1))
  <2>1. (i - 1) + 1 + (Len(l) + 1 - n) = Len(l) - (n - (i + 1))
      BY <1>3
  <2> QED BY <1>2, <1>5, <2>1
<1>7. new[i] = b
  <2>1. (i - 1) + 1 = i /\ 1 \in 1 .. Len(mid)
      BY <1>2, <1>3
  <2>2. new[(i - 1) + 1] = mid[1]
      BY <1>5, <2>1
  <2> QED BY <1>2, <2>1, <2>2
<1>8. ASSUME NEW j \in 1 .. Len(l), j < i PROVE new[j] = l[j]
  <2>1. j \in 1 .. i - 1
      BY <1>3, <1>8
  <2> QED BY <1>5, <2>1
<1>9. ASSUME NEW j \in n .. Len(l) PROVE new[j - (n - (i + 1))] = l[j]
  <2>1. (j - n) + i + 1 = j - (n - (i + 1))
      BY <1>3
  <2>2. new[(j - n) + i + Len(mid)] = l[j]
      BY <1>5
  <2> QED BY <1>2, <2>1, <2>2
<1> QED BY <1>5, <1>6, <1>7, <1>8, <1>9 DEF OneSpliced

LEMMA SplicedTwo ==
    ASSUME NEW S, NEW l \in Seq(S), NEW i \in 1 .. Len(l), NEW b \in S, NEW c \in S, NEW new,
           new = SubSeq(l, 1, i - 1) \o <<b>> \o <<c>> \o SubSeq(l, i + 1, Len(l))
    PROVE  new \in Seq(S) /\ TwoSpliced(l, i, b, c, new)
<1>1. PICK mid : mid = <<b>> \o <<c>>
    OBVIOUS
<1>2. mid \in Seq(S) /\ Len(mid) = 2 /\ mid[1] = b /\ mid[2] = c
    BY <1>1, OneAndTwo
<1>3. Len(l) \in Nat /\ i \in Nat /\ i + 1 \in Nat /\ i < i + 1 /\ i + 1 <= Len(l) + 1
    OBVIOUS
<1>4. new = SubSeq(l, 1, i - 1) \o mid \o SubSeq(l, i + 1, Len(l))
  <2>1. <<b>> \in Seq(S) /\ <<c>> \in Seq(S)
      OBVIOUS
  <2>2. SubSeq(l, 1, i - 1) \in Seq(S)
      BY Front
  <2>3. (SubSeq(l, 1, i - 1) \o <<b>>) \o <<c>> = SubSeq(l, 1, i - 1) \o (<<b>> \o <<c>>)
      BY <2>1, <2>2, ConcatAssociative
  <2> QED BY <1>1, <2>3, Zenon
<1>s. new \in Seq(S) /\ SplicedAs(l, i, mid, i + 1, new)
    BY <1>2, <1>3, <1>4, Spliced, ZenonT(60)
<1>5. /\ new \in Seq(S) /\ Len(new) = (i - 1) + Len(mid) + (Len(l) + 1 - (i + 1))
      /\ \A j \in 1 .. i - 1 : new[j] = l[j]
      /\ \A j \in 1 .. Len(mid) : new[(i - 1) + j] = mid[j]
      /\ \A j \in i + 1 .. Len(l) : new[(j - (i + 1)) + i + Len(mid)] = l[j]
    BY <1>s DEF SplicedAs
<1>6. Len(new) = Len(l) + 1
  <2>1. (i - 1) + 2 + (Len(l) + 1 - (i + 1)) = Len(l) + 1
      BY <1>3
  <2> QED BY <1>2, <1>5, <2>1
<1>7. new[i] = b /\ new[i + 1] = c
  <2>1. (i - 1) + 1 = i /\ (i - 1) + 2 = i + 1 /\ 1 \in 1 .. Len(mid) /\ 2 \in 1 .. Len(mid)
      BY <1>2, <1>3
  <2>2. new[(i - 1) + 1] = mid[1] /\ new[(i - 1) + 2] = mid[2]
      BY <1>5, <2>1
  <2> QED BY <1>2, <2>1, <2>2
<1>8. ASSUME NEW j \in 1 .. Len(l), j < i PROVE new[j] = l[j]
  <2>1. j \in 1 .. i - 1
      BY <1>3, <1>8
  <2> QED BY <1>5, <2>1
<1>9. ASSUME NEW j \in 1 .. Len(l), j > i PROVE new[j + 1] = l[j]
  <2>1. j \in i + 1 .. Len(l) /\ (j - (i + 1)) + i + 2 = j + 1
      BY <1>3, <1>9
  <2>2. new[(j - (i + 1)) + i + Len(mid)] = l[j]
      BY <1>5, <2>1
  <2> QED BY <1>2, <2>1, <2>2
<1> QED BY <1>5, <1>6, <1>7, <1>8, <1>9 DEF TwoSpliced

\* A list with one block marked, its bounds unchanged.
Remarked(l, new, i) ==
    /\ new \in Seq(BlockSet) /\ Len(new) = Len(l)
    /\ new[i].off = l[i].off /\ new[i].size = l[i].size
    /\ \A j \in 1 .. Len(l) : j # i => new[j] = l[j]

LEMMA RemarkedLaid ==
    ASSUME NEW l, NEW size, Laid(l, size), NEW i \in 1 .. Len(l), NEW new, Remarked(l, new, i)
    PROVE  Laid(new, size)
<1>1. Len(l) \in Nat /\ Len(l) > 0 /\ Len(new) = Len(l) /\ i \in Nat
    BY LaidBlock DEF Remarked
<1>2. \A j \in 1 .. Len(l) : new[j].off = l[j].off /\ new[j].size = l[j].size
    BY DEF Remarked
<1>3. new \in Seq(BlockSet)
    BY DEF Remarked
<1>4. new[1].off = 0 /\ new[Len(new)].off + new[Len(new)].size = size
    BY <1>1, <1>2 DEF Laid
<1>5. \A j \in 1 .. Len(new) : new[j].size > 0
    BY <1>1, <1>2 DEF Laid
<1>6. ASSUME NEW j \in 1 .. Len(new), j < Len(new)
      PROVE  new[j].off + new[j].size = new[j + 1].off
  <2>1. j \in 1 .. Len(l) /\ j + 1 \in 1 .. Len(l)
      BY <1>1, <1>6
  <2> QED BY <1>1, <1>2, <1>6, <2>1 DEF Laid
<1> QED BY <1>1, <1>3, <1>4, <1>5, <1>6 DEF Laid

\* Marking a free block as used puts its pages out.
LEMMA RemarkedOut ==
    ASSUME NEW l, NEW size, Laid(l, size), NEW i \in 1 .. Len(l), NEW new, Remarked(l, new, i),
           new[i].used, ~ l[i].used
    PROVE  UsedPages(new) = UsedPages(l) \cup Pages(l[i])
<1>1. DOMAIN l = 1 .. Len(l) /\ DOMAIN new = 1 .. Len(l)
    BY DEF Laid, Remarked
<1>2. Pages(new[i]) = Pages(l[i])
    BY DEF Pages, Remarked
<1>3. ASSUME NEW p \in UsedPages(new) PROVE p \in UsedPages(l) \cup Pages(l[i])
  <2>1. PICK j \in 1 .. Len(l) : new[j].used /\ p \in Pages(new[j])
      BY <1>1, OutAt
  <2>2. CASE j = i
      BY <1>2, <2>1, <2>2
  <2>3. CASE j # i
    <3>1. l[j].used /\ p \in Pages(l[j])
        BY <2>1, <2>3 DEF Remarked
    <3> QED BY <1>1, <3>1, OutAt
  <2> QED BY <2>2, <2>3
<1>4. ASSUME NEW p \in UsedPages(l) PROVE p \in UsedPages(new)
  <2>1. PICK j \in 1 .. Len(l) : l[j].used /\ p \in Pages(l[j])
      BY <1>1, OutAt
  <2>2. j # i
      BY <2>1
  <2>3. new[j].used /\ p \in Pages(new[j])
      BY <2>1, <2>2 DEF Remarked
  <2> QED BY <1>1, <2>3, OutAt
<1>5. ASSUME NEW p \in Pages(l[i]) PROVE p \in UsedPages(new)
    BY <1>1, <1>2, OutAt
<1> QED BY <1>3, <1>4, <1>5

\* One block of a list against the two it is made of.
Halved(l, new, i) ==
    /\ l \in Seq(BlockSet) /\ new \in Seq(BlockSet)
    /\ Len(l) > 0 /\ Len(new) = Len(l) + 1
    /\ \A j \in 1 .. Len(l) : j < i => new[j] = l[j]
    /\ \A j \in 1 .. Len(l) : j > i => new[j + 1] = l[j]
    /\ new[i].off = l[i].off /\ new[i].size + new[i + 1].size = l[i].size
    /\ new[i + 1].off = new[i].off + new[i].size
    /\ new[i].size > 0 /\ new[i + 1].size > 0

LEMMA HalvedBlocks ==
    ASSUME NEW l, NEW new, NEW i \in 1 .. Len(l), Halved(l, new, i)
    PROVE  /\ Len(l) \in Nat /\ Len(l) > 0 /\ Len(new) = Len(l) + 1 /\ i \in Nat
           /\ DOMAIN l = 1 .. Len(l) /\ DOMAIN new = 1 .. Len(l) + 1
           /\ l[i].off \in Nat /\ l[i].size \in Nat
           /\ new[i].off \in Nat /\ new[i].size \in Nat
           /\ new[i + 1].off \in Nat /\ new[i + 1].size \in Nat
           /\ l[i] \in BlockSet /\ new[i] \in BlockSet /\ new[i + 1] \in BlockSet
<1>1. Len(l) \in Nat /\ i \in 1 .. Len(new) /\ i + 1 \in 1 .. Len(new)
    BY DEF Halved
<1>2. l[i] \in BlockSet /\ new[i] \in BlockSet /\ new[i + 1] \in BlockSet
    BY <1>1 DEF Halved
<1>3. /\ l[i].off \in Nat /\ l[i].size \in Nat
      /\ new[i].off \in Nat /\ new[i].size \in Nat
      /\ new[i + 1].off \in Nat /\ new[i + 1].size \in Nat
    BY <1>2 DEF BlockSet
<1>4. Len(l) > 0 /\ Len(new) = Len(l) + 1 /\ i \in Nat
    BY <1>1 DEF Halved
<1>5. DOMAIN l = 1 .. Len(l) /\ DOMAIN new = 1 .. Len(l) + 1
    BY DEF Halved
<1> QED BY <1>1, <1>2, <1>3, <1>4, <1>5

LEMMA HalvedLaid ==
    ASSUME NEW l, NEW size, Laid(l, size), NEW i \in 1 .. Len(l), NEW new, Halved(l, new, i)
    PROVE  Laid(new, size)
<1>1. Len(l) \in Nat /\ Len(l) > 0 /\ Len(new) = Len(l) + 1 /\ i \in Nat /\ i <= Len(l)
    BY HalvedBlocks
<1>2. new[1].off = 0
    BY <1>1 DEF Halved, Laid
<1>3. ASSUME NEW j \in 1 .. Len(new) PROVE new[j].size > 0
  <2>1. CASE j < i
      BY <1>1, <2>1 DEF Halved, Laid
  <2>2. CASE j = i \/ j = i + 1
      BY <2>2 DEF Halved
  <2>3. CASE j > i + 1
    <3>1. j - 1 \in 1 .. Len(l) /\ j - 1 > i /\ (j - 1) + 1 = j
        BY <1>1, <2>3
    <3>2. new[j] = l[j - 1]
        BY <3>1 DEF Halved
    <3> QED BY <3>1, <3>2 DEF Laid
  <2> QED BY <1>1, <2>1, <2>2, <2>3
<1>4. ASSUME NEW j \in 1 .. Len(new), j < Len(new)
      PROVE  new[j].off + new[j].size = new[j + 1].off
  <2>1. CASE j < i
    <3>1. j \in 1 .. Len(l) /\ j + 1 \in 1 .. Len(l) /\ j < Len(l) /\ (j + 1 < i \/ j + 1 = i)
        BY <1>1, <2>1
    <3>2. new[j] = l[j] /\ new[j + 1].off = l[j + 1].off
        BY <2>1, <3>1 DEF Halved
    <3> QED BY <3>1, <3>2 DEF Laid
  <2>2. CASE j = i
      BY <2>2 DEF Halved
  <2>3. CASE j = i + 1
    <3>1. i + 1 \in 1 .. Len(l) /\ i < Len(l) /\ i + 1 > i /\ (i + 1) + 1 = j + 1
        BY <1>1, <1>4, <2>3
    <3>2. new[j + 1] = l[i + 1]
        BY <3>1 DEF Halved
    <3>3. l[i].off + l[i].size = l[i + 1].off
        BY <3>1 DEF Laid
    <3>4. /\ new[i].off = l[i].off /\ new[i].size + new[i + 1].size = l[i].size
          /\ new[i + 1].off = new[i].off + new[i].size
        BY DEF Halved
    <3> QED BY <2>3, <3>2, <3>3, <3>4, HalvedBlocks, SMTT(60)
  <2>4. CASE j > i + 1
    <3>1. PICK k \in 1 .. Len(l) : k = j - 1 /\ k > i /\ k < Len(l) /\ k + 1 = j
      <4>1. j - 1 \in 1 .. Len(l) /\ j - 1 > i /\ j - 1 < Len(l) /\ (j - 1) + 1 = j
          BY <1>1, <1>4, <2>4
      <4> QED BY <4>1
    <3>2. k + 1 \in 1 .. Len(l) /\ k + 1 > i /\ (k + 1) + 1 = j + 1
        BY <1>1, <3>1
    <3>3. new[j] = l[k] /\ new[j + 1] = l[k + 1]
        BY <3>1, <3>2 DEF Halved
    <3>4. l[k].off + l[k].size = l[k + 1].off
        BY <3>1 DEF Laid
    <3> QED BY <3>3, <3>4
  <2> QED BY <1>1, <2>1, <2>2, <2>3, <2>4
<1>5. new[Len(new)].off + new[Len(new)].size = size
  <2>1. CASE i = Len(l)
    <3>1. /\ new[i].off = l[i].off /\ new[i].size + new[i + 1].size = l[i].size
          /\ new[i + 1].off = new[i].off + new[i].size
        BY DEF Halved
    <3>2. l[i].off + l[i].size = size
        BY <2>1 DEF Laid
    <3> QED BY <1>1, <2>1, <3>1, <3>2, HalvedBlocks
  <2>2. CASE i # Len(l)
    <3>1. Len(l) \in 1 .. Len(l) /\ Len(l) > i
        BY <1>1, <2>2
    <3>2. new[Len(new)] = l[Len(l)]
        BY <1>1, <3>1 DEF Halved
    <3> QED BY <3>2 DEF Laid
  <2> QED BY <2>1, <2>2
<1>6. new \in Seq(BlockSet) /\ Len(new) > 0
    BY <1>1 DEF Halved
<1> QED BY <1>2, <1>3, <1>4, <1>5, <1>6 DEF Laid

LEMMA WholeLaid ==
    ASSUME NEW l, NEW new, NEW size, Laid(new, size), NEW i \in 1 .. Len(l), Halved(l, new, i)
    PROVE  Laid(l, size)
<1>1. Len(l) \in Nat /\ Len(l) > 0 /\ Len(new) = Len(l) + 1 /\ i \in Nat /\ i <= Len(l)
    BY HalvedBlocks
<1>2. l[1].off = 0
  <2>1. CASE i = 1
      BY <2>1 DEF Halved, Laid
  <2>2. CASE i # 1
      BY <1>1, <2>2 DEF Halved, Laid
  <2> QED BY <2>1, <2>2
<1>3. ASSUME NEW j \in 1 .. Len(l) PROVE l[j].size > 0
  <2>1. CASE j < i
    <3>1. l[j] = new[j] /\ j \in 1 .. Len(new)
        BY <1>1, <2>1 DEF Halved
    <3> QED BY <3>1 DEF Laid
  <2>2. CASE j = i
    <3>1. new[i].size > 0 /\ new[i + 1].size > 0 /\ new[i].size + new[i + 1].size = l[i].size
        BY DEF Halved
    <3> QED BY <2>2, <3>1, HalvedBlocks
  <2>3. CASE j > i
    <3>1. l[j] = new[j + 1] /\ j + 1 \in 1 .. Len(new)
        BY <1>1, <2>3 DEF Halved
    <3> QED BY <3>1 DEF Laid
  <2> QED BY <1>1, <2>1, <2>2, <2>3
<1>4. ASSUME NEW j \in 1 .. Len(l), j < Len(l)
      PROVE  l[j].off + l[j].size = l[j + 1].off
  <2>0. j \in Nat /\ j + 1 \in 1 .. Len(l) /\ j \in 1 .. Len(new) /\ j < Len(new)
      BY <1>1, <1>4
  <2>1. CASE j < i
    <3>1. j + 1 < i \/ j + 1 = i
        BY <1>1, <2>0, <2>1
    <3>2. new[j] = l[j] /\ new[j + 1].off = l[j + 1].off
        BY <2>0, <2>1, <3>1 DEF Halved
    <3> QED BY <2>0, <3>2 DEF Laid
  <2>2. CASE j = i
    <3>1. i + 1 \in 1 .. Len(new) /\ i + 1 < Len(new)
        BY <1>1, <2>0, <2>2, <1>4
    <3>2. new[i + 1].off + new[i + 1].size = new[(i + 1) + 1].off
        BY <3>1 DEF Laid
    <3>3. new[(i + 1) + 1] = l[i + 1]
        BY <1>1, <2>0, <2>2 DEF Halved
    <3>4. /\ new[i].off = l[i].off /\ new[i].size + new[i + 1].size = l[i].size
          /\ new[i + 1].off = new[i].off + new[i].size
        BY DEF Halved
    <3> QED BY <2>2, <3>2, <3>3, <3>4, HalvedBlocks
  <2>3. CASE j > i
    <3>1. j + 1 \in 1 .. Len(new) /\ j + 1 < Len(new) /\ j + 1 > i
        BY <1>1, <2>0, <2>3, <1>4
    <3>2. new[j + 1].off + new[j + 1].size = new[(j + 1) + 1].off
        BY <3>1 DEF Laid
    <3>3. new[j + 1] = l[j] /\ new[(j + 1) + 1] = l[j + 1]
        BY <2>0, <2>3, <3>1 DEF Halved
    <3> QED BY <3>2, <3>3
  <2> QED BY <1>1, <2>0, <2>1, <2>2, <2>3
<1>5. l[Len(l)].off + l[Len(l)].size = size
  <2>0. new[Len(l) + 1].off + new[Len(l) + 1].size = size
      BY <1>1 DEF Laid
  <2>1. CASE i = Len(l)
    <3>1. /\ new[i].off = l[i].off /\ new[i].size + new[i + 1].size = l[i].size
          /\ new[i + 1].off = new[i].off + new[i].size
        BY DEF Halved
    <3> QED BY <1>1, <2>0, <2>1, <3>1, HalvedBlocks
  <2>2. CASE i # Len(l)
    <3>1. Len(l) \in 1 .. Len(l) /\ Len(l) > i
        BY <1>1, <2>2
    <3>2. new[Len(l) + 1] = l[Len(l)]
        BY <1>1, <3>1 DEF Halved
    <3> QED BY <2>0, <3>2
  <2> QED BY <2>1, <2>2
<1>6. l \in Seq(BlockSet)
    BY DEF Halved
<1> QED BY <1>1, <1>2, <1>3, <1>4, <1>5, <1>6 DEF Laid

\* The second half being free, the pages out are the others' and the first half's.
LEMMA HalvedOut ==
    ASSUME NEW l, NEW new, NEW i \in 1 .. Len(l), Halved(l, new, i),
           ~ l[i].used, ~ new[i + 1].used
    PROVE  UsedPages(new) = UsedPages(l) \cup (IF new[i].used THEN Pages(new[i]) ELSE {})
<1>1. /\ Len(l) \in Nat /\ i \in Nat /\ i <= Len(l)
      /\ DOMAIN l = 1 .. Len(l) /\ DOMAIN new = 1 .. Len(l) + 1
    BY HalvedBlocks
<1>2. ASSUME NEW p \in UsedPages(new)
      PROVE  p \in UsedPages(l) \/ (new[i].used /\ p \in Pages(new[i]))
  <2>1. PICK j \in 1 .. Len(l) + 1 : new[j].used /\ p \in Pages(new[j])
      BY <1>1, <1>2, OutAt
  <2>2. CASE j < i
    <3>1. j \in 1 .. Len(l) /\ new[j] = l[j]
        BY <1>1, <2>2 DEF Halved
    <3> QED BY <1>1, <2>1, <3>1, OutAt
  <2>3. CASE j = i
      BY <2>1, <2>3
  <2>4. CASE j = i + 1
      BY <2>1, <2>4
  <2>5. CASE j > i + 1
    <3>1. j - 1 \in 1 .. Len(l) /\ j - 1 > i /\ (j - 1) + 1 = j
        BY <1>1, <2>5
    <3>2. new[j] = l[j - 1]
        BY <3>1 DEF Halved
    <3> QED BY <1>1, <2>1, <3>1, <3>2, OutAt
  <2> QED BY <1>1, <2>2, <2>3, <2>4, <2>5
<1>3. ASSUME NEW p \in UsedPages(l) PROVE p \in UsedPages(new)
  <2>1. PICK j \in 1 .. Len(l) : l[j].used /\ p \in Pages(l[j])
      BY <1>1, <1>3, OutAt
  <2>2. CASE j < i
    <3>1. j \in 1 .. Len(l) + 1 /\ new[j] = l[j]
        BY <1>1, <2>2 DEF Halved
    <3> QED BY <1>1, <2>1, <3>1, OutAt
  <2>3. CASE j > i
    <3>1. j + 1 \in 1 .. Len(l) + 1 /\ new[j + 1] = l[j]
        BY <1>1, <2>3 DEF Halved
    <3> QED BY <1>1, <2>1, <3>1, OutAt
  <2> QED BY <1>1, <2>1, <2>2, <2>3
<1>4. ASSUME NEW p \in Pages(new[i]), new[i].used PROVE p \in UsedPages(new)
  <2>1. i \in DOMAIN new
      BY <1>1
  <2> QED BY <1>4, <2>1, OutAt
<1> QED BY <1>2, <1>3, <1>4

LEMMA BlocksSpliced ==
    ASSUME NEW l \in Seq(BlockSet), NEW i \in 1 .. Len(l), NEW b \in BlockSet,
           NEW n \in Nat, i < n, n <= Len(l) + 1, NEW new, new = OneFor(l, i, b, n)
    PROVE  new \in Seq(BlockSet) /\ OneSpliced(l, i, b, n, new)
<1>1. PICK S : S = BlockSet
    OBVIOUS
<1>2. l \in Seq(S) /\ b \in S
    BY <1>1
<1>3. new \in Seq(S) /\ OneSpliced(l, i, b, n, new)
    BY <1>2, SplicedOne
<1> QED BY <1>1, <1>3

\* A free block is carved: what is asked for is out, what is left stays free.
LEMMA CarvedList ==
    ASSUME NEW l, NEW size, Laid(l, size), NEW i \in 1 .. Len(l), ~ l[i].used,
           NEW n \in Nat \ {0}, l[i].size >= n
    PROVE  /\ Laid(Carved(l, i, n), size)
           /\ Parted(l) => Parted(Carved(l, i, n))
           /\ UsedPages(Carved(l, i, n)) = UsedPages(l) \cup Pages(Block(l[i].off, n, TRUE))
<1>1. /\ l[i].off \in Nat /\ l[i].size \in Nat /\ Len(l) \in Nat /\ i \in Nat /\ l \in Seq(BlockSet)
      /\ i + 1 \in Nat /\ i < i + 1 /\ i + 1 <= Len(l) + 1
  <2>1. l[i].off \in Nat /\ l[i].size \in Nat /\ Len(l) \in Nat /\ i \in Nat
      BY LaidBlock
  <2>2. l \in Seq(BlockSet)
      BY DEF Laid
  <2>3. i + 1 \in Nat /\ i < i + 1 /\ i + 1 <= Len(l) + 1
      BY <2>1
  <2> QED BY <2>1, <2>2, <2>3
<1>2. PICK out \in BlockSet : /\ out = Block(l[i].off, n, TRUE)
                              /\ out.off = l[i].off /\ out.size = n /\ out.used
  <2>1. PICK off \in Nat : off = l[i].off
      BY <1>1
  <2>2. PICK used \in BOOLEAN : used = TRUE
      OBVIOUS
  <2>3. PICK out : out = Block(off, n, used)
      OBVIOUS
  <2>4. out \in BlockSet /\ out.off = off /\ out.size = n /\ out.used = used
      BY <2>3, ABlock
  <2> QED BY <2>1, <2>2, <2>3, <2>4
<1>3. CASE l[i].size > n
  <2>1. PICK m \in Nat : m = l[i].size - n /\ m > 0
    <3>1. l[i].size - n \in Nat /\ l[i].size - n > 0
        BY <1>1, <1>3
    <3> QED BY <3>1
  <2>2. PICK rest \in BlockSet :
          /\ rest = Block(l[i].off + n, l[i].size - n, FALSE)
          /\ rest.off = l[i].off + n /\ rest.size = m /\ ~ rest.used
    <3>1. l[i].off + n \in Nat /\ FALSE \in BOOLEAN
        BY <1>1
    <3>2. PICK rest : rest = Block(l[i].off + n, m, FALSE)
        OBVIOUS
    <3>3. rest \in BlockSet /\ rest.off = l[i].off + n /\ rest.size = m /\ rest.used = FALSE
        BY <3>1, <3>2, ABlock
    <3> QED BY <2>1, <3>2, <3>3
  <2>3. PICK new : new = SubSeq(l, 1, i - 1) \o <<out>> \o <<rest>> \o SubSeq(l, i + 1, Len(l))
      OBVIOUS
  <2>4. /\ new \in Seq(BlockSet) /\ Len(new) = Len(l) + 1
        /\ new[i] = out /\ new[i + 1] = rest
        /\ \A j \in 1 .. Len(l) : j < i => new[j] = l[j]
        /\ \A j \in 1 .. Len(l) : j > i => new[j + 1] = l[j]
    <3>1. new \in Seq(BlockSet) /\ TwoSpliced(l, i, out, rest, new)
        BY <1>1, <1>2, <2>2, <2>3, SplicedTwo, Zenon
    <3> QED BY <3>1 DEF TwoSpliced
  <2>5. Carved(l, i, n) = new
      BY <1>2, <1>3, <2>2, <2>3, Zenon DEF Carved
  <2>6. Len(new) = Len(l) + 1 /\ new[i] = out /\ new[i + 1] = rest
      BY <2>4
  <2>7. ASSUME NEW j \in 1 .. Len(l), j > i PROVE new[j + 1] = l[j]
      BY <2>4, <2>7
  <2>8. ASSUME NEW j \in 1 .. Len(l), j < i PROVE new[j] = l[j]
      BY <2>4, <2>8
  <2>9. Halved(l, new, i)
    <3>1. n + m = l[i].size /\ n > 0 /\ Len(l) > 0
        BY <1>1, <2>1
    <3>2. /\ new[i].off = l[i].off /\ new[i].size + new[i + 1].size = l[i].size
          /\ new[i + 1].off = new[i].off + new[i].size
          /\ new[i].size > 0 /\ new[i + 1].size > 0
        BY <1>2, <2>1, <2>2, <2>6, <3>1
    <3> QED BY <1>1, <2>4, <3>1, <3>2 DEF Halved
  <2>10. Laid(new, size)
      BY <2>9, HalvedLaid
  <2>11. UsedPages(new) = UsedPages(l) \cup Pages(out)
    <3>1. new[i].used /\ ~ new[i + 1].used /\ Pages(new[i]) = Pages(out)
        BY <1>2, <2>2, <2>6
    <3> QED BY <2>9, <3>1, HalvedOut
  <2>12. ASSUME Parted(l) PROVE Parted(new)
    <3>1. ASSUME NEW j \in 1 .. Len(new), j < Len(new) PROVE new[j].used \/ new[j + 1].used
      <4>1. CASE j + 1 < i
        <5>1. j \in 1 .. Len(l) /\ j + 1 \in 1 .. Len(l) /\ j < i /\ j < Len(l)
            BY <1>1, <4>1
        <5>2. new[j] = l[j] /\ new[j + 1] = l[j + 1]
            BY <2>8, <4>1, <5>1
        <5> QED BY <2>12, <5>1, <5>2 DEF Parted
      <4>2. CASE j + 1 = i \/ j = i
          BY <1>2, <2>6, <4>2
      <4>3. CASE j = i + 1
        <5>1. i + 1 \in 1 .. Len(l) /\ i + 1 > i /\ i < Len(l)
            BY <1>1, <2>6, <3>1, <4>3
        <5>2. new[j + 1] = l[i + 1]
            BY <2>7, <4>3, <5>1
        <5>3. l[i + 1].used
            BY <2>12, <5>1 DEF Parted
        <5> QED BY <5>2, <5>3
      <4>4. CASE j > i + 1
        <5>1. PICK k \in 1 .. Len(l) : k = j - 1
          <6>1. j - 1 \in 1 .. Len(l)
              BY <1>1, <2>6, <3>1, <4>4
          <6> QED BY <6>1
        <5>2. /\ k + 1 = j /\ k > i /\ k + 1 \in 1 .. Len(l) /\ k < Len(l) /\ k + 1 > i
              /\ (k + 1) + 1 = j + 1
            BY <1>1, <2>6, <3>1, <4>4, <5>1
        <5>3. new[j] = l[k] /\ new[j + 1] = l[k + 1]
            BY <2>7, <5>1, <5>2
        <5> QED BY <2>12, <5>2, <5>3 DEF Parted
      <4> QED BY <1>1, <2>6, <3>1, <4>1, <4>2, <4>3, <4>4
    <3> QED BY <3>1 DEF Parted
  <2> QED BY <1>2, <2>5, <2>10, <2>11, <2>12
<1>4. CASE ~ (l[i].size > n)
  <2>1. l[i].size = n
      BY <1>1, <1>4
  <2>3. PICK new : new = SubSeq(l, 1, i - 1) \o <<out>> \o SubSeq(l, i + 1, Len(l))
      OBVIOUS
  <2>4. /\ new \in Seq(BlockSet) /\ Len(new) = Len(l) - ((i + 1) - (i + 1))
        /\ new[i] = out
        /\ \A j \in 1 .. Len(l) : j < i => new[j] = l[j]
        /\ \A j \in i + 1 .. Len(l) : new[j - ((i + 1) - (i + 1))] = l[j]
    <3>1. new \in Seq(BlockSet) /\ OneSpliced(l, i, out, i + 1, new)
      <4>1. PICK k : k = i + 1
          OBVIOUS
      <4>2. l \in Seq(BlockSet) /\ k \in Nat /\ i < k /\ k <= Len(l) + 1 /\ out \in BlockSet
          BY <1>1, <1>2, <4>1
      <4>3. new = OneFor(l, i, out, k)
          BY <2>3, <4>1 DEF OneFor
      <4>4. new \in Seq(BlockSet) /\ OneSpliced(l, i, out, k, new)
          BY <4>2, <4>3, SplicedOne
      <4> QED BY <4>1, <4>4
    <3> QED BY <3>1 DEF OneSpliced
  <2>5. Carved(l, i, n) = new
    <3>1. SubSeq(l, 1, i - 1) \in Seq(BlockSet) /\ <<out>> \in Seq(BlockSet)
      <4>1. SubSeq(l, 1, i - 1) \in Seq(BlockSet)
          BY <1>1, Front
      <4>2. <<out>> \in Seq(BlockSet)
          BY <1>2, OneAndTwo
      <4> QED BY <4>1, <4>2
    <3>2. SubSeq(l, 1, i - 1) \o <<out>> \in Seq(BlockSet)
        BY <3>1, ConcatProperties
    <3>3. (SubSeq(l, 1, i - 1) \o <<out>>) \o <<>> = SubSeq(l, 1, i - 1) \o <<out>>
        BY <3>2, ConcatEmptySeq
    <3> QED BY <1>2, <1>4, <2>3, <3>3, Zenon DEF Carved
  <2>6. Len(new) = Len(l) /\ new[i] = out
      BY <1>1, <2>4
  <2>7. ASSUME NEW j \in 1 .. Len(l), j # i PROVE new[j] = l[j]
    <3>1. CASE j < i
        BY <2>4, <3>1
    <3>2. CASE j > i
      <4>1. j \in i + 1 .. Len(l) /\ j - ((i + 1) - (i + 1)) = j
          BY <1>1, <3>2
      <4>2. new[j - ((i + 1) - (i + 1))] = l[j]
          BY <2>4, <4>1
      <4> QED BY <4>1, <4>2
    <3> QED BY <1>1, <2>7, <3>1, <3>2
  <2>9. Remarked(l, new, i)
      BY <1>2, <2>1, <2>4, <2>6, <2>7 DEF Remarked
  <2>10. Laid(new, size)
      BY <2>9, RemarkedLaid
  <2>11. UsedPages(new) = UsedPages(l) \cup Pages(out)
    <3>1. new[i].used /\ Pages(l[i]) = Pages(out)
        BY <1>2, <2>1, <2>6 DEF Pages
    <3> QED BY <2>9, <3>1, RemarkedOut
  <2>12. ASSUME Parted(l) PROVE Parted(new)
    <3>1. \A j \in 1 .. Len(l) : l[j].used => new[j].used
        BY <1>2, <2>6, <2>7
    <3>2. ASSUME NEW j \in 1 .. Len(new), j < Len(new) PROVE new[j].used \/ new[j + 1].used
      <4>1. j \in 1 .. Len(l) /\ j + 1 \in 1 .. Len(l) /\ j < Len(l)
          BY <1>1, <2>6, <3>2
      <4> QED BY <2>12, <3>1, <4>1 DEF Parted
    <3> QED BY <3>2 DEF Parted
  <2> QED BY <1>2, <2>5, <2>10, <2>11, <2>12
<1> QED BY <1>3, <1>4

\* Two free neighbours become one, of the size of both.
LEMMA AbsorbedList ==
    ASSUME NEW l, NEW size, Laid(l, size), NEW i \in 1 .. Len(l), i < Len(l),
           ~ l[i].used, ~ l[i + 1].used
    PROVE  \E new : /\ new = Absorb(l, i) /\ Laid(new, size) /\ UsedPages(new) = UsedPages(l)
                    /\ Len(new) = Len(l) - 1 /\ ~ new[i].used
                    /\ \A j \in 1 .. Len(l) : j < i => new[j] = l[j]
                    /\ \A j \in 1 .. Len(l) : j > i /\ j < Len(l) => new[j] = l[j + 1]
<1>1. /\ l[i].off \in Nat /\ l[i].size \in Nat /\ Len(l) \in Nat /\ i \in Nat /\ l \in Seq(BlockSet)
      /\ i + 2 \in Nat /\ i < i + 2 /\ i + 2 <= Len(l) + 1 /\ i + 1 \in 1 .. Len(l)
    BY LaidBlock DEF Laid
<1>2. l[i + 1].size \in Nat /\ l[i + 1].size > 0 /\ l[i].size > 0 /\ l[i].used \in BOOLEAN
    BY <1>1, LaidBlock
<1>3. PICK one \in BlockSet : /\ one = Block(l[i].off, l[i].size + l[i + 1].size, l[i].used)
                              /\ one.off = l[i].off /\ one.size = l[i].size + l[i + 1].size
                              /\ ~ one.used
  <2>1. l[i].size + l[i + 1].size \in Nat
      BY <1>1, <1>2
  <2> QED BY <1>1, <1>2, <2>1, ABlock, SMTT(60)
<1>4. PICK new : new = SubSeq(l, 1, i - 1) \o <<one>> \o SubSeq(l, i + 2, Len(l))
    OBVIOUS
<1>5. /\ new \in Seq(BlockSet) /\ Len(new) = Len(l) - ((i + 2) - (i + 1))
      /\ new[i] = one
      /\ \A j \in 1 .. Len(l) : j < i => new[j] = l[j]
      /\ \A j \in i + 2 .. Len(l) : new[j - ((i + 2) - (i + 1))] = l[j]
  <2>1. new \in Seq(BlockSet) /\ OneSpliced(l, i, one, i + 2, new)
    <3>1. PICK k : k = i + 2
        OBVIOUS
    <3>2. l \in Seq(BlockSet) /\ k \in Nat /\ i < k /\ k <= Len(l) + 1 /\ one \in BlockSet
        BY <1>1, <1>3, <3>1
    <3>3. new = OneFor(l, i, one, k)
        BY <1>4, <3>1 DEF OneFor
    <3>4. new \in Seq(BlockSet) /\ OneSpliced(l, i, one, k, new)
        BY <3>2, <3>3, BlocksSpliced
    <3> QED BY <3>1, <3>4
  <2> QED BY <2>1 DEF OneSpliced
<1>6. new = Absorb(l, i)
    BY <1>3, <1>4 DEF Absorb
<1>7. Len(new) = Len(l) - 1 /\ new[i] = one
    BY <1>1, <1>5
<1>8. ASSUME NEW j \in 1 .. Len(l), j < i PROVE new[j] = l[j]
    BY <1>5, <1>8
<1>9. ASSUME NEW j \in 1 .. Len(l), j > i, j < Len(l) PROVE new[j] = l[j + 1]
  <2>1. PICK k \in i + 2 .. Len(l) : k = j + 1 /\ k - ((i + 2) - (i + 1)) = j
    <3>1. j + 1 \in i + 2 .. Len(l) /\ (j + 1) - ((i + 2) - (i + 1)) = j
        BY <1>1, <1>9
    <3> QED BY <3>1
  <2>2. new[k - ((i + 2) - (i + 1))] = l[k]
      BY <1>5
  <2> QED BY <2>1, <2>2
<1>10. i \in 1 .. Len(new) /\ Len(new) > 0 /\ Len(l) = Len(new) + 1
    BY <1>1, <1>7
<1>11. Halved(new, l, i)
  <2>1. \A j \in 1 .. Len(new) : j < i => l[j] = new[j]
      BY <1>1, <1>8, <1>10
  <2>2. \A j \in 1 .. Len(new) : j > i => l[j + 1] = new[j]
      BY <1>1, <1>9, <1>10
  <2>3. l[i + 1].off = l[i].off + l[i].size
      BY <1>1 DEF Laid
  <2>4. /\ l[i].off = new[i].off /\ l[i].size + l[i + 1].size = new[i].size
        /\ l[i].size > 0 /\ l[i + 1].size > 0
      BY <1>2, <1>3, <1>7
  <2> QED BY <1>1, <1>5, <1>10, <2>1, <2>2, <2>3, <2>4 DEF Halved
<1>12. Laid(new, size)
    BY <1>10, <1>11, WholeLaid
<1>13. UsedPages(new) = UsedPages(l)
  <2>1. ~ new[i].used
      BY <1>3, <1>7
  <2>2. UsedPages(l) = UsedPages(new) \cup (IF l[i].used THEN Pages(l[i]) ELSE {})
      BY <1>10, <1>11, <2>1, HalvedOut
  <2> QED BY <2>2
<1> QED BY <1>3, <1>6, <1>7, <1>8, <1>9, <1>12, <1>13

\* A block comes back: it is free, and merged with the free ones beside it.
Freed(l, i) == [l EXCEPT ![i].used = FALSE]

JoinedAfter(l, i) == IF i < Len(l) /\ ~l[i + 1].used THEN Absorb(l, i) ELSE l

JoinedBefore(l, i) == IF i > 1 /\ ~l[i - 1].used THEN Absorb(l, i - 1) ELSE l

\* No two free blocks are neighbours but at these places.
PartedBut(l, here) ==
    \A j \in 1 .. Len(l) : j < Len(l) /\ j \notin here => l[j].used \/ l[j + 1].used

LEMMA FreedList ==
    ASSUME NEW l, NEW size, Laid(l, size), Parted(l), NEW i \in 1 .. Len(l), l[i].used
    PROVE  \E new : /\ new = Freed(l, i) /\ Laid(new, size) /\ Len(new) = Len(l)
                    /\ ~ new[i].used /\ PartedBut(new, {i - 1, i})
                    /\ UsedPages(l) = UsedPages(new) \cup Pages(l[i])
                    /\ UsedPages(new) \cap Pages(l[i]) = {}
<1>1. /\ l[i] \in BlockSet /\ l[i].off \in Nat /\ l[i].size \in Nat /\ Len(l) \in Nat /\ i \in Nat
      /\ l \in Seq(BlockSet)
    BY LaidBlock DEF Laid
<1>2. PICK b : b = [l[i] EXCEPT !.used = FALSE]
    OBVIOUS
<1>3. b \in BlockSet /\ b.off = l[i].off /\ b.size = l[i].size /\ b.used = FALSE
    BY <1>1, <1>2 DEF BlockSet
<1>4. PICK new : new = [l EXCEPT ![i] = b]
    OBVIOUS
<1>5. new = Freed(l, i)
    BY <1>2, <1>4 DEF Freed
<1>6. /\ new \in Seq(BlockSet) /\ Len(new) = Len(l)
      /\ \A j \in 1 .. Len(l) : new[j] = IF j = i THEN b ELSE l[j]
    BY <1>1, <1>3, <1>4, ExceptSeq
<1>7. new[i] = b /\ \A j \in 1 .. Len(l) : j # i => new[j] = l[j]
    BY <1>6
<1>8. Remarked(l, new, i)
    BY <1>3, <1>6, <1>7 DEF Remarked
<1>9. Laid(new, size)
    BY <1>8, RemarkedLaid
<1>10. Remarked(new, l, i) /\ i \in 1 .. Len(new)
    BY <1>1, <1>3, <1>6, <1>7 DEF Remarked
<1>11. ~ new[i].used /\ Pages(new[i]) = Pages(l[i])
    BY <1>3, <1>7 DEF Pages
<1>12. UsedPages(l) = UsedPages(new) \cup Pages(l[i])
  <2>1. UsedPages(l) = UsedPages(new) \cup Pages(new[i])
      BY <1>9, <1>10, <1>11, RemarkedOut
  <2> QED BY <1>11, <2>1
<1>13. UsedPages(new) \cap Pages(l[i]) = {}
    BY <1>9, <1>10, <1>11, NotOut
<1>14. PartedBut(new, {i - 1, i})
  <2>1. ASSUME NEW j \in 1 .. Len(new), j < Len(new), j # i - 1, j # i
        PROVE  new[j].used \/ new[j + 1].used
    <3>1. j \in 1 .. Len(l) /\ j + 1 \in 1 .. Len(l) /\ j < Len(l) /\ j + 1 # i
        BY <1>1, <1>6, <2>1
    <3>2. new[j] = l[j] /\ new[j + 1] = l[j + 1]
        BY <1>7, <2>1, <3>1
    <3> QED BY <3>1, <3>2 DEF Parted
  <2> QED BY <2>1 DEF PartedBut
<1> QED BY <1>5, <1>6, <1>9, <1>11, <1>12, <1>13, <1>14

LEMMA JoinedAfterList ==
    ASSUME NEW l, NEW size, Laid(l, size), NEW i \in 1 .. Len(l), ~ l[i].used,
           PartedBut(l, {i - 1, i})
    PROVE  \E new : /\ new = JoinedAfter(l, i) /\ Laid(new, size) /\ i \in 1 .. Len(new)
                    /\ ~ new[i].used /\ PartedBut(new, {i - 1})
                    /\ UsedPages(new) = UsedPages(l)
<1>0. Len(l) \in Nat /\ i \in Nat
    BY LaidBlock
<1>1. CASE i < Len(l) /\ ~ l[i + 1].used
  <2>1. PICK new : /\ new = Absorb(l, i) /\ Laid(new, size) /\ UsedPages(new) = UsedPages(l)
                   /\ Len(new) = Len(l) - 1 /\ ~ new[i].used
                   /\ \A j \in 1 .. Len(l) : j < i => new[j] = l[j]
                   /\ \A j \in 1 .. Len(l) : j > i /\ j < Len(l) => new[j] = l[j + 1]
      BY <1>1, AbsorbedList
  <2>2. new = JoinedAfter(l, i)
      BY <1>1, <2>1 DEF JoinedAfter
  <2>3. i \in 1 .. Len(new)
      BY <1>0, <1>1, <2>1
  <2>4. ASSUME NEW j \in 1 .. Len(new), j < Len(new), j # i - 1
        PROVE  new[j].used \/ new[j + 1].used
    <3>1. CASE j < i
      <4>1. /\ j \in 1 .. Len(l) /\ j + 1 \in 1 .. Len(l) /\ j < Len(l) /\ j + 1 < i /\ j # i
            /\ j # i - 1
          BY <1>0, <2>1, <2>4, <3>1
      <4>2. new[j] = l[j] /\ new[j + 1] = l[j + 1]
          BY <2>1, <3>1, <4>1
      <4> QED BY <4>1, <4>2 DEF PartedBut
    <3>2. CASE j = i
      <4>1. i + 1 \in 1 .. Len(l) /\ i + 1 < Len(l) /\ i + 1 > i /\ i + 1 \notin {i - 1, i}
          BY <1>0, <2>1, <2>4, <3>2
      <4>2. new[i + 1] = l[(i + 1) + 1]
          BY <2>1, <4>1
      <4>3. l[i + 1].used \/ l[(i + 1) + 1].used
          BY <4>1 DEF PartedBut
      <4> QED BY <1>1, <3>2, <4>2, <4>3
    <3>3. CASE j > i
      <4>1. /\ j \in 1 .. Len(l) /\ j < Len(l) /\ j + 1 > i
            /\ j + 1 \in 1 .. Len(l) /\ j + 1 < Len(l) /\ j + 1 \notin {i - 1, i}
          BY <1>0, <2>1, <2>4, <3>3
      <4>2. new[j] = l[j + 1] /\ new[j + 1] = l[(j + 1) + 1]
          BY <2>1, <3>3, <4>1
      <4>3. l[j + 1].used \/ l[(j + 1) + 1].used
          BY <4>1 DEF PartedBut
      <4> QED BY <4>2, <4>3
    <3> QED BY <1>0, <2>1, <3>1, <3>2, <3>3
  <2>5. PartedBut(new, {i - 1})
      BY <2>4 DEF PartedBut
  <2> QED BY <2>1, <2>2, <2>3, <2>5
<1>2. CASE ~ (i < Len(l) /\ ~ l[i + 1].used)
  <2>1. l = JoinedAfter(l, i)
      BY <1>2 DEF JoinedAfter
  <2>2. PartedBut(l, {i - 1})
      BY <1>2 DEF PartedBut
  <2> QED BY <2>1, <2>2
<1> QED BY <1>1, <1>2

LEMMA JoinedBeforeList ==
    ASSUME NEW l, NEW size, Laid(l, size), NEW i \in 1 .. Len(l), ~ l[i].used,
           PartedBut(l, {i - 1})
    PROVE  \E new : /\ new = JoinedBefore(l, i) /\ Laid(new, size) /\ Parted(new)
                    /\ UsedPages(new) = UsedPages(l)
<1>0. Len(l) \in Nat /\ i \in Nat
    BY LaidBlock
<1>1. CASE i > 1 /\ ~ l[i - 1].used
  <2>0. PICK k \in 1 .. Len(l) : k = i - 1 /\ k < Len(l) /\ k + 1 = i
    <3>1. i - 1 \in 1 .. Len(l) /\ i - 1 < Len(l) /\ (i - 1) + 1 = i
        BY <1>0, <1>1
    <3> QED BY <3>1
  <2>1. PICK new : /\ new = Absorb(l, k) /\ Laid(new, size) /\ UsedPages(new) = UsedPages(l)
                   /\ Len(new) = Len(l) - 1 /\ ~ new[k].used
                   /\ \A j \in 1 .. Len(l) : j < k => new[j] = l[j]
                   /\ \A j \in 1 .. Len(l) : j > k /\ j < Len(l) => new[j] = l[j + 1]
    <3>1. ~ l[k].used /\ ~ l[k + 1].used
        BY <1>1, <2>0
    <3> QED BY <2>0, <3>1, AbsorbedList
  <2>2. new = JoinedBefore(l, i)
      BY <1>1, <2>0, <2>1 DEF JoinedBefore
  <2>k. k \in Nat
      BY <1>0, <2>0
  <2>4. ASSUME NEW j \in 1 .. Len(new), j < Len(new)
        PROVE  new[j].used \/ new[j + 1].used
    <3>1. CASE j + 1 < k
      <4>1. j \in 1 .. Len(l) /\ j + 1 \in 1 .. Len(l) /\ j < Len(l) /\ j < k /\ j # k
          BY <1>0, <2>1, <2>4, <2>k, <3>1
      <4>2. new[j] = l[j] /\ new[j + 1] = l[j + 1]
          BY <2>1, <3>1, <4>1
      <4> QED BY <2>0, <4>1, <4>2 DEF PartedBut
    <3>2. CASE j + 1 = k
      <4>1. j \in 1 .. Len(l) /\ j < Len(l) /\ j < k /\ j # k
          BY <1>0, <2>1, <2>4, <2>k, <3>2
      <4>2. new[j] = l[j]
          BY <2>1, <4>1
      <4>3. l[j].used \/ l[k].used
          BY <2>0, <3>2, <4>1 DEF PartedBut
      <4>4. ~ l[k].used
          BY <1>1, <2>0
      <4> QED BY <4>2, <4>3, <4>4
    <3>3. CASE j = k
      <4>1. /\ i \in 1 .. Len(l) /\ i < Len(l) /\ i # k /\ k + 1 \in 1 .. Len(l)
            /\ k + 1 < Len(l) /\ k + 1 > k
          BY <1>0, <2>0, <2>1, <2>4, <2>k, <3>3
      <4>2. new[k + 1] = l[(k + 1) + 1]
          BY <2>1, <4>1
      <4>3. l[i].used \/ l[i + 1].used
          BY <2>0, <4>1 DEF PartedBut
      <4> QED BY <2>0, <3>3, <4>2, <4>3
    <3>4. CASE j > k
      <4>1. /\ j \in 1 .. Len(l) /\ j < Len(l) /\ j + 1 > k
            /\ j + 1 \in 1 .. Len(l) /\ j + 1 < Len(l) /\ j + 1 # k
          BY <1>0, <2>1, <2>4, <2>k, <3>4
      <4>2. new[j] = l[j + 1] /\ new[j + 1] = l[(j + 1) + 1]
          BY <2>1, <3>4, <4>1
      <4>3. l[j + 1].used \/ l[(j + 1) + 1].used
          BY <2>0, <4>1 DEF PartedBut
      <4> QED BY <4>2, <4>3
    <3>5. j \in Nat
        BY <1>0, <2>1
    <3> QED BY <2>k, <3>1, <3>2, <3>3, <3>4, <3>5
  <2>5. Parted(new)
      BY <2>4 DEF Parted
  <2> QED BY <2>1, <2>2, <2>5
<1>2. CASE ~ (i > 1 /\ ~ l[i - 1].used)
  <2>1. l = JoinedBefore(l, i)
      BY <1>2 DEF JoinedBefore
  <2>2. ASSUME NEW j \in 1 .. Len(l), j < Len(l) PROVE l[j].used \/ l[j + 1].used
    <3>1. CASE j = i - 1
      <4>1. i > 1
          BY <1>0, <3>1
      <4> QED BY <1>2, <3>1, <4>1
    <3>2. CASE j # i - 1
        BY <2>2, <3>2 DEF PartedBut
    <3> QED BY <3>1, <3>2
  <2>3. Parted(l)
      BY <2>2 DEF Parted
  <2> QED BY <2>1, <2>3
<1> QED BY <1>1, <1>2

\* All of it: the pages of the block are out no more, and no others are.
LEMMA ReturnedList ==
    ASSUME NEW l, NEW size, Laid(l, size), Parted(l), NEW i \in 1 .. Len(l), l[i].used
    PROVE  LET new == JoinedBefore(JoinedAfter(Freed(l, i), i), i)
           IN  /\ Laid(new, size) /\ Parted(new)
               /\ UsedPages(l) = UsedPages(new) \cup Pages(l[i])
               /\ UsedPages(new) \cap Pages(l[i]) = {}
<1>1. PICK freed : /\ freed = Freed(l, i) /\ Laid(freed, size) /\ Len(freed) = Len(l)
                   /\ ~ freed[i].used /\ PartedBut(freed, {i - 1, i})
                   /\ UsedPages(l) = UsedPages(freed) \cup Pages(l[i])
                   /\ UsedPages(freed) \cap Pages(l[i]) = {}
    BY FreedList
<1>2. i \in 1 .. Len(freed)
    BY <1>1
<1>3. PICK after : /\ after = JoinedAfter(freed, i) /\ Laid(after, size) /\ i \in 1 .. Len(after)
                   /\ ~ after[i].used /\ PartedBut(after, {i - 1})
                   /\ UsedPages(after) = UsedPages(freed)
    BY <1>1, <1>2, JoinedAfterList
<1>4. PICK before : /\ before = JoinedBefore(after, i) /\ Laid(before, size) /\ Parted(before)
                    /\ UsedPages(before) = UsedPages(after)
    BY <1>3, JoinedBeforeList
<1> QED BY <1>1, <1>3, <1>4

-----------------------------------------------------------------------------
(***************************************************************************)
(* The host pool: its slabs, and what it counts.                           *)
(***************************************************************************)

SlabSet == [size : Nat, blocks : Seq(BlockSet)]

SlabsLaid(slabs) ==
    /\ slabs \in Seq(SlabSet)
    /\ \A s \in 1 .. Len(slabs) :
           Laid(slabs[s].blocks, slabs[s].size) /\ Parted(slabs[s].blocks)

\* Slabs that differ in the list of one.
Relisted(slabs, new, s) ==
    /\ slabs \in Seq(SlabSet) /\ new \in Seq(SlabSet) /\ Len(new) = Len(slabs)
    /\ new[s].size = slabs[s].size
    /\ \A t \in 1 .. Len(slabs) : t # s => new[t] = slabs[t]

LEMMA ASlab ==
    ASSUME NEW slabs \in Seq(SlabSet), NEW s \in 1 .. Len(slabs)
    PROVE  /\ slabs[s] \in SlabSet /\ slabs[s].size \in Nat /\ slabs[s].blocks \in Seq(BlockSet)
           /\ DOMAIN slabs = 1 .. Len(slabs) /\ Len(slabs) \in Nat /\ s \in Nat
<1>1. slabs[s] \in SlabSet /\ DOMAIN slabs = 1 .. Len(slabs) /\ Len(slabs) \in Nat /\ s \in Nat
    OBVIOUS
<1> QED BY <1>1 DEF SlabSet

\* A slab's list replaced.
Relisting(slabs, s, l) == [slabs EXCEPT ![s].blocks = l]

LEMMA Relist ==
    ASSUME NEW slabs \in Seq(SlabSet), NEW s \in 1 .. Len(slabs), NEW l \in Seq(BlockSet),
           NEW new, new = Relisting(slabs, s, l)
    PROVE  Relisted(slabs, new, s) /\ new[s].blocks = l
<1>1. slabs[s] \in SlabSet /\ slabs[s].size \in Nat
    BY ASlab
<1>2. PICK e : e = [slabs[s] EXCEPT !.blocks = l]
    OBVIOUS
<1>3. e \in SlabSet /\ e.size = slabs[s].size /\ e.blocks = l
    BY <1>1, <1>2 DEF SlabSet
<1>4. new = [slabs EXCEPT ![s] = e]
    BY <1>2 DEF Relisting
<1>5. /\ new \in Seq(SlabSet) /\ Len(new) = Len(slabs)
      /\ \A t \in 1 .. Len(slabs) : new[t] = IF t = s THEN e ELSE slabs[t]
  <2>1. PICK Slabs : Slabs = SlabSet
      OBVIOUS
  <2>2. new \in Seq(Slabs) /\ Len(new) = Len(slabs)
    <3>1. slabs \in Seq(Slabs) /\ e \in Slabs
        BY <1>3, <2>1
    <3> QED BY <1>4, <3>1, ExceptSeq
  <2>3. DOMAIN slabs = 1 .. Len(slabs)
      OBVIOUS
  <2>4. \A t \in 1 .. Len(slabs) : new[t] = IF t = s THEN e ELSE slabs[t]
      BY <1>4, <2>3
  <2> QED BY <2>1, <2>2, <2>4
<1>7. new[s] = e /\ \A t \in 1 .. Len(slabs) : t # s => new[t] = slabs[t]
    BY <1>5
<1>8. Relisted(slabs, new, s)
    BY <1>3, <1>5, <1>7 DEF Relisted
<1> QED BY <1>3, <1>7, <1>8

LEMMA RelistedLaid ==
    ASSUME NEW slabs, NEW new, SlabsLaid(slabs), NEW s \in 1 .. Len(slabs),
           Relisted(slabs, new, s), Laid(new[s].blocks, new[s].size), Parted(new[s].blocks)
    PROVE  SlabsLaid(new) /\ PagesMapped(new) = PagesMapped(slabs)
<1>1. /\ new \in Seq(SlabSet) /\ Len(new) = Len(slabs) /\ new[s].size = slabs[s].size
      /\ DOMAIN new = 1 .. Len(slabs) /\ DOMAIN slabs = 1 .. Len(slabs)
    BY DEF Relisted
<1>2. ASSUME NEW t \in 1 .. Len(new)
      PROVE  Laid(new[t].blocks, new[t].size) /\ Parted(new[t].blocks)
  <2>1. CASE t = s
      BY <2>1
  <2>2. CASE t # s
    <3>1. new[t] = slabs[t] /\ t \in 1 .. Len(slabs)
        BY <1>1, <2>2 DEF Relisted
    <3> QED BY <3>1 DEF SlabsLaid
  <2> QED BY <2>1, <2>2
<1>3. \A t \in 1 .. Len(slabs) : new[t].size = slabs[t].size
    BY <1>1 DEF Relisted
<1>4. PagesMapped(new) = PagesMapped(slabs)
    BY <1>1, <1>3 DEF PagesMapped
<1> QED BY <1>1, <1>2, <1>4 DEF SlabsLaid

\* Pages that others come to: of a list, and of a slab.
Adds(few, own, many) == many = few \cup own /\ few \cap own = {}

AddsOf(few, s, own, many) == many = few \cup ({s} \X own) /\ few \cap ({s} \X own) = {}

\* The pages of a slab that came to be out came to be out of the pool.
LEMMA RelistedOut ==
    ASSUME NEW slabs, NEW new, NEW s \in 1 .. Len(slabs), Relisted(slabs, new, s), NEW own,
           Adds(UsedPages(slabs[s].blocks), own, UsedPages(new[s].blocks))
    PROVE  AddsOf(PagesOut(slabs), s, own, PagesOut(new))
<1>0. /\ UsedPages(new[s].blocks) = UsedPages(slabs[s].blocks) \cup own
      /\ UsedPages(slabs[s].blocks) \cap own = {}
    BY DEF Adds
<1>1. DOMAIN new = 1 .. Len(slabs) /\ DOMAIN slabs = 1 .. Len(slabs)
    BY DEF Relisted
<1>2. ASSUME NEW x
      PROVE  x \in PagesOut(new)
                 <=> \E t \in 1 .. Len(slabs) : x \in {t} \X UsedPages(new[t].blocks)
    BY <1>1 DEF PagesOut
<1>3. ASSUME NEW x
      PROVE  x \in PagesOut(slabs)
                 <=> \E t \in 1 .. Len(slabs) : x \in {t} \X UsedPages(slabs[t].blocks)
    BY <1>1 DEF PagesOut
<1>4. \A t \in 1 .. Len(slabs) : t # s => new[t].blocks = slabs[t].blocks
    BY DEF Relisted
<1>5. {s} \X UsedPages(new[s].blocks) = ({s} \X UsedPages(slabs[s].blocks)) \cup ({s} \X own)
    BY <1>0
<1>6. ASSUME NEW x \in PagesOut(new) PROVE x \in PagesOut(slabs) \cup ({s} \X own)
  <2>1. PICK t \in 1 .. Len(slabs) : x \in {t} \X UsedPages(new[t].blocks)
      BY <1>2, <1>6
  <2>2. CASE t = s
      BY <1>3, <1>5, <2>1, <2>2
  <2>3. CASE t # s
      BY <1>3, <1>4, <2>1, <2>3
  <2> QED BY <2>2, <2>3
<1>7. ASSUME NEW x \in PagesOut(slabs) PROVE x \in PagesOut(new)
  <2>1. PICK t \in 1 .. Len(slabs) : x \in {t} \X UsedPages(slabs[t].blocks)
      BY <1>3, <1>7
  <2>2. CASE t = s
      BY <1>2, <1>5, <2>1, <2>2
  <2>3. CASE t # s
      BY <1>2, <1>4, <2>1, <2>3
  <2> QED BY <2>2, <2>3
<1>8. ASSUME NEW x \in {s} \X own PROVE x \in PagesOut(new)
    BY <1>2, <1>5, <1>8
<1>9. ASSUME NEW x \in PagesOut(slabs), x \in {s} \X own PROVE FALSE
  <2>1. PICK t \in 1 .. Len(slabs) : x \in {t} \X UsedPages(slabs[t].blocks)
      BY <1>3, <1>9
  <2>2. x[1] = t /\ x[2] \in UsedPages(slabs[t].blocks) /\ x[1] = s /\ x[2] \in own
      BY <1>9, <2>1
  <2> QED BY <1>0, <2>2
<1> QED BY <1>6, <1>7, <1>8, <1>9 DEF AddsOf

LEMMA Stretch ==
    ASSUME NEW off \in Nat, NEW n \in Nat \ {0}, NEW own, own = off .. (off + n) - 1
    PROVE  IsFiniteSet(own) /\ Cardinality(own) = n
<1>1. /\ off \in Int /\ (off + n) - 1 \in Int /\ ~ (off > (off + n) - 1)
      /\ ((off + n) - 1) - off + 1 = n
    OBVIOUS
<1> QED BY <1>1, FS_Interval

\* A slab's pages counted with others they are apart from.
LEMMA Counted ==
    ASSUME NEW A, NEW s, NEW own, NEW both, IsFiniteSet(A), IsFiniteSet(own),
           AddsOf(A, s, own, both)
    PROVE  IsFiniteSet(both) /\ Cardinality(both) = Cardinality(A) + Cardinality(own)
<1>1. PICK n \in Nat : n = Cardinality(own)
    BY FS_CardinalityType
<1>2. IsFiniteSet({s}) /\ Cardinality({s}) = 1
    BY FS_Singleton
<1>3. PICK box : box = {s} \X own
    OBVIOUS
<1>4. IsFiniteSet(box) /\ Cardinality(box) = 1 * n
    BY <1>1, <1>2, <1>3, FS_Product
<1>5. A \cap box = {} /\ both = A \cup box /\ Cardinality({}) = 0
    BY <1>3, FS_EmptySet DEF AddsOf
<1>6. /\ IsFiniteSet(A \cup box)
      /\ Cardinality(A \cup box) = Cardinality(A) + Cardinality(box) - Cardinality(A \cap box)
    BY <1>4, FS_Union
<1>7. Cardinality(A) \in Nat
    BY FS_CardinalityType
<1>8. Cardinality(A \cap box) = 0
    BY <1>5
<1>9. Cardinality(box) = n
    BY <1>1, <1>4
<1>10. Cardinality(A \cup box) = Cardinality(A) + n
    BY <1>1, <1>6, <1>7, <1>8, <1>9
<1> QED BY <1>1, <1>5, <1>6, <1>10

\* The same, the slab's taken away.
LEMMA Uncounted ==
    ASSUME NEW A, NEW s, NEW own, NEW both, IsFiniteSet(both), IsFiniteSet(own),
           AddsOf(A, s, own, both)
    PROVE  IsFiniteSet(A) /\ Cardinality(A) = Cardinality(both) - Cardinality(own)
<1>1. IsFiniteSet(A)
    BY FS_Subset DEF AddsOf
<1>2. Cardinality(both) = Cardinality(A) + Cardinality(own)
    BY <1>1, Counted
<1>3. Cardinality(A) \in Nat /\ Cardinality(own) \in Nat
    BY <1>1, FS_CardinalityType
<1> QED BY <1>1, <1>2, <1>3

\* What a step keeps of the slabs, and the pages they have out and mapped.
Kept(slabs, in_use, mapped) ==
    /\ SlabsLaid(slabs)
    /\ IsFiniteSet(PagesOut(slabs)) /\ in_use = Cardinality(PagesOut(slabs))
    /\ IsFiniteSet(PagesMapped(slabs)) /\ mapped = Cardinality(PagesMapped(slabs))

LEMMA FirstFitFree ==
    ASSUME NEW l \in Seq(BlockSet), NEW n \in Nat \ {0}, NEW i \in FirstFit(l, n)
    PROVE  i \in 1 .. Len(l) /\ ~ l[i].used /\ l[i].size >= n
    BY DEF FirstFit

LEMMA CarvedSlab ==
    ASSUME NEW slabs, NEW in_use, NEW mapped, Kept(slabs, in_use, mapped),
           NEW s \in 1 .. Len(slabs), NEW n \in Nat \ {0}, FirstFit(slabs[s].blocks, n) # {}
    PROVE  /\ Kept(CarvedFrom(slabs, s, n), in_use + n, mapped)
           /\ Len(CarvedFrom(slabs, s, n)) = Len(slabs)
<1>1. /\ slabs \in Seq(SlabSet) /\ Laid(slabs[s].blocks, slabs[s].size) /\ Parted(slabs[s].blocks)
    BY DEF Kept, SlabsLaid
<1>2. PICK l \in Seq(BlockSet) : l = slabs[s].blocks
    BY <1>1, ASlab
<1>3. PICK i : i = CHOOSE k \in FirstFit(l, n) : TRUE
    OBVIOUS
<1>4. i \in FirstFit(l, n)
    BY <1>2, <1>3
<1>5. i \in 1 .. Len(l) /\ ~ l[i].used /\ l[i].size >= n
    BY <1>4, FirstFitFree
<1>6. PICK cut : cut = Carved(l, i, n)
    OBVIOUS
<1>7. /\ Laid(cut, slabs[s].size) /\ Parted(cut)
      /\ UsedPages(cut) = UsedPages(l) \cup Pages(Block(l[i].off, n, TRUE))
    BY <1>1, <1>2, <1>5, <1>6, CarvedList
<1>8. cut \in Seq(BlockSet)
    BY <1>7 DEF Laid
<1>9. PICK new : new = Relisting(slabs, s, cut)
    OBVIOUS
<1>10. new = CarvedFrom(slabs, s, n)
    BY <1>2, <1>3, <1>6, <1>9 DEF CarvedFrom, Relisting
<1>11. Relisted(slabs, new, s) /\ new[s].blocks = cut
    BY <1>1, <1>8, <1>9, Relist
<1>12. SlabsLaid(new) /\ PagesMapped(new) = PagesMapped(slabs)
  <2>1. new[s].size = slabs[s].size
      BY <1>11 DEF Relisted
  <2>2. SlabsLaid(slabs)
      BY DEF Kept
  <2> QED BY <1>7, <1>11, <2>1, <2>2, RelistedLaid
<1>13. l[i] \in BlockSet /\ l[i].off \in Nat /\ l[i].size \in Nat
    BY <1>1, <1>2, <1>5, LaidBlock
<1>14. PICK own : own = l[i].off .. (l[i].off + n) - 1
    OBVIOUS
<1>15. Pages(Block(l[i].off, n, TRUE)) = own
  <2>1. Block(l[i].off, n, TRUE).off = l[i].off /\ Block(l[i].off, n, TRUE).size = n
      BY DEF Block
  <2> QED BY <1>14, <2>1 DEF Pages
<1>16. UsedPages(l) \cap own = {}
  <2>1. UsedPages(l) \cap Pages(l[i]) = {}
      BY <1>1, <1>2, <1>5, NotOut
  <2>2. own \subseteq Pages(l[i])
      BY <1>5, <1>13, <1>14 DEF Pages
  <2> QED BY <2>1, <2>2
<1>17. AddsOf(PagesOut(slabs), s, own, PagesOut(new))
  <2>1. Adds(UsedPages(slabs[s].blocks), own, UsedPages(new[s].blocks))
      BY <1>2, <1>7, <1>11, <1>15, <1>16 DEF Adds
  <2> QED BY <1>11, <2>1, RelistedOut
<1>18. IsFiniteSet(PagesOut(new)) /\ Cardinality(PagesOut(new)) = in_use + n
  <2>1. IsFiniteSet(PagesOut(slabs)) /\ in_use = Cardinality(PagesOut(slabs))
      BY DEF Kept
  <2>2. PICK off \in Nat : off = l[i].off
      BY <1>13
  <2>3. IsFiniteSet(own) /\ Cardinality(own) = n
    <3>1. own = off .. (off + n) - 1
        BY <1>14, <2>2
    <3> QED BY <3>1, Stretch
  <2>4. /\ IsFiniteSet(PagesOut(new))
        /\ Cardinality(PagesOut(new)) = Cardinality(PagesOut(slabs)) + Cardinality(own)
      BY <1>17, <2>1, <2>3, Counted
  <2> QED BY <2>1, <2>3, <2>4
<1>19. Len(new) = Len(slabs)
    BY <1>11 DEF Relisted
<1> QED BY <1>10, <1>12, <1>18, <1>19 DEF Kept

LEMMA SlabAppended ==
    ASSUME NEW slabs \in Seq(SlabSet), NEW sl \in SlabSet, NEW more, more = Append(slabs, sl)
    PROVE  /\ more \in Seq(SlabSet) /\ Len(more) = Len(slabs) + 1
           /\ \A t \in 1 .. Len(slabs) : more[t] = slabs[t]
           /\ more[Len(slabs) + 1] = sl
<1>1. PICK Slabs : Slabs = SlabSet
    OBVIOUS
<1>2. slabs \in Seq(Slabs) /\ sl \in Slabs
    BY <1>1
<1>3. /\ more \in Seq(Slabs) /\ Len(more) = Len(slabs) + 1
      /\ \A t \in 1 .. Len(slabs) : more[t] = slabs[t]
      /\ more[Len(slabs) + 1] = sl
    BY <1>2, AppendProperties
<1> QED BY <1>1, <1>3

\* A slab is mapped: a list of one free block.
Grown(slabs, k) == Append(slabs, [size |-> k, blocks |-> <<Block(0, k, FALSE)>>])

LEMMA GrownSlabs ==
    ASSUME NEW slabs, NEW in_use, NEW mapped, Kept(slabs, in_use, mapped), NEW k \in Nat \ {0},
           NEW more, more = Grown(slabs, k)
    PROVE  /\ Kept(more, in_use, mapped + k) /\ Len(more) = Len(slabs) + 1
           /\ Len(more) \in 1 .. Len(more)
           /\ \A n \in Nat \ {0} : n <= k => FirstFit(more[Len(more)].blocks, n) # {}
<1>1. slabs \in Seq(SlabSet) /\ Len(slabs) \in Nat
    BY DEF Kept, SlabsLaid
<1>2. PICK b : b = Block(0, k, FALSE)
    OBVIOUS
<1>3. b \in BlockSet /\ b.off = 0 /\ b.size = k /\ b.used = FALSE
    BY <1>2, ABlock
<1>4. PICK l : l = <<b>>
    OBVIOUS
<1>5. l \in Seq(BlockSet) /\ Len(l) = 1 /\ l[1] = b /\ DOMAIN l = 1 .. 1
    BY <1>3, <1>4
<1>6. Laid(l, k) /\ Parted(l)
  <2>1. Len(l) > 0 /\ l[1].off = 0 /\ l[Len(l)].off + l[Len(l)].size = k
      BY <1>3, <1>5
  <2>2. \A i \in 1 .. Len(l) : l[i].size > 0 /\ ~ (i < Len(l))
      BY <1>3, <1>5
  <2> QED BY <1>5, <2>1, <2>2 DEF Laid, Parted
<1>7. UsedPages(l) = {}
    BY <1>3, <1>5 DEF UsedPages
<1>8. PICK sl : sl = [size |-> k, blocks |-> l]
    OBVIOUS
<1>9. sl \in SlabSet /\ sl.size = k /\ sl.blocks = l
    BY <1>5, <1>8 DEF SlabSet
<1>10. more = Append(slabs, sl)
    BY <1>2, <1>4, <1>8 DEF Grown
<1>11. PICK z \in Nat : z = Len(slabs)
    BY <1>1
<1>12. /\ more \in Seq(SlabSet) /\ Len(more) = z + 1 /\ more[z + 1] = sl
       /\ \A t \in 1 .. z : more[t] = slabs[t]
  <2>1. /\ more \in Seq(SlabSet) /\ Len(more) = Len(slabs) + 1
        /\ \A t \in 1 .. Len(slabs) : more[t] = slabs[t]
        /\ more[Len(slabs) + 1] = sl
    <3>1. sl \in SlabSet
        BY <1>9
    <3> QED BY <1>1, <1>10, <3>1, SlabAppended
  <2> QED BY <1>11, <2>1
<1>13. /\ DOMAIN more = 1 .. z + 1 /\ DOMAIN slabs = 1 .. z
       /\ \A t \in 1 .. z + 1 : t = z + 1 \/ t \in 1 .. z
       /\ \A t \in 1 .. z : t \in 1 .. z + 1
       /\ z + 1 \in 1 .. z + 1 /\ z + 1 \notin 1 .. z
    BY <1>1, <1>11, <1>12
<1>14. SlabsLaid(more)
  <2>1. ASSUME NEW t \in 1 .. Len(more)
        PROVE  Laid(more[t].blocks, more[t].size) /\ Parted(more[t].blocks)
    <3>1. CASE t = z + 1
        BY <1>6, <1>9, <1>12, <3>1
    <3>2. CASE t \in 1 .. z
      <4>1. more[t] = slabs[t]
          BY <1>12, <3>2
      <4>2. Laid(slabs[t].blocks, slabs[t].size) /\ Parted(slabs[t].blocks)
          BY <1>11, <3>2 DEF Kept, SlabsLaid
      <4> QED BY <4>1, <4>2
    <3> QED BY <1>12, <1>13, <3>1, <3>2
  <2> QED BY <1>12, <2>1 DEF SlabsLaid
<1>15. PagesOut(more) = PagesOut(slabs)
  <2>1. ASSUME NEW x \in PagesOut(more) PROVE x \in PagesOut(slabs)
    <3>1. PICK t \in 1 .. z + 1 : x \in {t} \X UsedPages(more[t].blocks)
        BY <1>13, <2>1 DEF PagesOut
    <3>2. t # z + 1
        BY <1>7, <1>9, <1>12, <3>1
    <3>3. t \in 1 .. z /\ x \in {t} \X UsedPages(slabs[t].blocks)
        BY <1>12, <1>13, <3>1, <3>2
    <3> QED BY <1>13, <3>3 DEF PagesOut
  <2>2. ASSUME NEW x \in PagesOut(slabs) PROVE x \in PagesOut(more)
    <3>1. PICK t \in 1 .. z : x \in {t} \X UsedPages(slabs[t].blocks)
        BY <1>13, <2>2 DEF PagesOut
    <3>2. t \in 1 .. z + 1 /\ x \in {t} \X UsedPages(more[t].blocks)
        BY <1>12, <1>13, <3>1
    <3> QED BY <1>13, <3>2 DEF PagesOut
  <2> QED BY <2>1, <2>2
<1>16. PICK own : own = 0 .. (0 + k) - 1
    OBVIOUS
<1>17. own = 0 .. k - 1
    BY <1>16
<1>18. PagesMapped(more) = PagesMapped(slabs) \cup ({z + 1} \X own)
  <2>1. ASSUME NEW x \in PagesMapped(more) PROVE x \in PagesMapped(slabs) \cup ({z + 1} \X own)
    <3>1. PICK t \in 1 .. z + 1 : x \in {t} \X (0 .. more[t].size - 1)
        BY <1>13, <2>1 DEF PagesMapped
    <3>2. CASE t = z + 1
        BY <1>9, <1>12, <1>17, <3>1, <3>2
    <3>3. CASE t \in 1 .. z
      <4>1. x \in {t} \X (0 .. slabs[t].size - 1)
          BY <1>12, <3>1, <3>3
      <4> QED BY <1>13, <3>3, <4>1 DEF PagesMapped
    <3> QED BY <1>13, <3>2, <3>3
  <2>2. ASSUME NEW x \in PagesMapped(slabs) PROVE x \in PagesMapped(more)
    <3>1. PICK t \in 1 .. z : x \in {t} \X (0 .. slabs[t].size - 1)
        BY <1>13, <2>2 DEF PagesMapped
    <3>2. t \in 1 .. z + 1 /\ x \in {t} \X (0 .. more[t].size - 1)
        BY <1>12, <1>13, <3>1
    <3> QED BY <1>13, <3>2 DEF PagesMapped
  <2>3. ASSUME NEW x \in {z + 1} \X own PROVE x \in PagesMapped(more)
    <3>1. x \in {z + 1} \X (0 .. more[z + 1].size - 1)
        BY <1>9, <1>12, <1>17, <2>3
    <3> QED BY <1>13, <3>1 DEF PagesMapped
  <2> QED BY <2>1, <2>2, <2>3
<1>19. PagesMapped(slabs) \cap ({z + 1} \X own) = {}
  <2>1. ASSUME NEW x \in PagesMapped(slabs), x \in {z + 1} \X own PROVE FALSE
    <3>1. PICK t \in 1 .. z : x \in {t} \X (0 .. slabs[t].size - 1)
        BY <1>13, <2>1 DEF PagesMapped
    <3>2. x[1] = t /\ x[1] = z + 1
        BY <2>1, <3>1
    <3> QED BY <1>13, <3>2
  <2> QED BY <2>1
<1>20. IsFiniteSet(PagesMapped(more)) /\ Cardinality(PagesMapped(more)) = mapped + k
  <2>1. IsFiniteSet(PagesMapped(slabs)) /\ mapped = Cardinality(PagesMapped(slabs)) /\ 0 \in Nat
      BY DEF Kept
  <2>2. IsFiniteSet(own) /\ Cardinality(own) = k
      BY <1>16, <2>1, Stretch
  <2>3. /\ IsFiniteSet(PagesMapped(more))
        /\ Cardinality(PagesMapped(more)) = Cardinality(PagesMapped(slabs)) + Cardinality(own)
    <3>1. AddsOf(PagesMapped(slabs), z + 1, own, PagesMapped(more))
        BY <1>18, <1>19 DEF AddsOf
    <3> QED BY <2>1, <2>2, <3>1, Counted
  <2> QED BY <2>1, <2>2, <2>3
<1>21. Kept(more, in_use, mapped + k)
    BY <1>14, <1>15, <1>20 DEF Kept
<1>22. ASSUME NEW n \in Nat \ {0}, n <= k PROVE FirstFit(more[Len(more)].blocks, n) # {}
  <2>1. more[Len(more)].blocks = l
      BY <1>9, <1>12
  <2>2. 1 \in DOMAIN l /\ ~ l[1].used /\ l[1].size >= n /\ 1 .. 1 - 1 = {}
      BY <1>3, <1>5, <1>22
  <2>3. 1 \in FirstFit(l, n)
      BY <2>2 DEF FirstFit
  <2> QED BY <2>1, <2>3
<1> QED BY <1>11, <1>12, <1>13, <1>21, <1>22

-----------------------------------------------------------------------------
(***************************************************************************)
(* The host pool: its steps, and what the run checks of it.                *)
(***************************************************************************)

PoolInv ==
    /\ pool = [slabs |-> pool.slabs, in_use |-> pool.in_use, mapped |-> pool.mapped]
    /\ Kept(pool.slabs, pool.in_use, pool.mapped)
    /\ Len(pool.slabs) <= MaxSlabs

LEMMA PoolOf ==
    ASSUME NEW slabs, NEW in_use, NEW mapped, Kept(slabs, in_use, mapped),
           Len(slabs) <= MaxSlabs, pool' = [slabs |-> slabs, in_use |-> in_use, mapped |-> mapped]
    PROVE  PoolInv'
<1>1. pool'.slabs = slabs /\ pool'.in_use = in_use /\ pool'.mapped = mapped
    OBVIOUS
<1> QED BY <1>1 DEF PoolInv

LEMMA InitPool == pool = NoPool => PoolInv
<1> SUFFICES ASSUME pool = NoPool PROVE PoolInv
    OBVIOUS
<1>1. /\ pool = [slabs |-> <<>>, in_use |-> 0, mapped |-> 0]
      /\ pool.slabs = <<>> /\ pool.in_use = 0 /\ pool.mapped = 0
    BY DEF NoPool
<1>2. <<>> \in Seq(SlabSet) /\ Len(<<>>) = 0 /\ DOMAIN <<>> = {} /\ 1 .. 0 = {}
    OBVIOUS
<1>3. SlabsLaid(<<>>)
    BY <1>2 DEF SlabsLaid
<1>4. PagesOut(<<>>) = {} /\ PagesMapped(<<>>) = {}
    BY <1>2 DEF PagesOut, PagesMapped
<1>5. Kept(<<>>, 0, 0)
    BY <1>3, <1>4, FS_EmptySet DEF Kept
<1>6. Len(<<>>) <= MaxSlabs
    BY <1>2, HostPoolAssumption
<1> QED BY <1>1, <1>5, <1>6 DEF PoolInv

LEMMA SlabIsLargeEnough ==
    ASSUME NEW want \in PoolRequests, NEW cap \in SegmentCaps, NewSlab(want, cap) # 0
    PROVE  /\ want \in Nat \ {0} /\ NewSlab(want, cap) \in Nat \ {0} /\ want <= NewSlab(want, cap)
           /\ Len(pool.slabs) # MaxSlabs
<1>1. want \in Nat \ {0} /\ cap \in Nat /\ SlabPages \in Nat
    BY HostPoolAssumption
<1>2. PICK mappable : mappable = {s \in SlabSizes(want) : s <= cap}
    OBVIOUS
<1>3. /\ Len(pool.slabs) # MaxSlabs /\ mappable # {}
      /\ NewSlab(want, cap) = CHOOSE s \in mappable : \A t \in mappable : t <= s
    BY <1>2 DEF NewSlab
<1>4. \A s \in mappable : s \in Nat \ {0} /\ want <= s /\ s <= cap
  <2>1. \A s \in SlabSizes(want) : s \in Nat \ {0} /\ want <= s
    <3>1. CASE want > SlabPages
        BY <1>1, <3>1 DEF SlabSizes
    <3>2. CASE ~ (want > SlabPages)
        BY <1>1, <3>2 DEF SlabSizes
    <3> QED BY <3>1, <3>2
  <2> QED BY <1>2, <2>1
<1>5. \E s \in mappable : \A t \in mappable : t <= s
  <2> DEFINE short == {cap - s : s \in mappable}
  <2>1. short \in SUBSET Nat /\ short # {}
      BY <1>1, <1>3, <1>4
  <2>2. PICK d \in short : \A e \in short : d <= e
      BY <2>1, LeastNumber
  <2>3. PICK s \in mappable : d = cap - s
      OBVIOUS
  <2>4. ASSUME NEW t \in mappable PROVE t <= s
    <3>1. cap - s <= cap - t
        BY <2>2, <2>3
    <3> QED BY <1>1, <1>4, <3>1
  <2> QED BY <2>4
<1>6. NewSlab(want, cap) \in mappable
    BY <1>3, <1>5
<1> QED BY <1>1, <1>3, <1>4, <1>6

\* The slab a request is carved from.
LeastOf(fitting) == CHOOSE s \in fitting : \A t \in fitting : s <= t

LEMMA AllocKeepsPool ==
    ASSUME PoolInv, NEW n \in PoolRequests, NEW cap \in SegmentCaps, HostAlloc(n, cap)
    PROVE  PoolInv'
<1>1. n \in Nat \ {0}
    BY HostPoolAssumption
<1>2. PICK slabs, in_use, mapped :
        /\ pool = [slabs |-> slabs, in_use |-> in_use, mapped |-> mapped]
        /\ Kept(slabs, in_use, mapped) /\ Len(slabs) <= MaxSlabs
    BY DEF PoolInv
<1>3. pool.slabs = slabs /\ pool.in_use = in_use /\ pool.mapped = mapped
    BY <1>2
<1>4. slabs \in Seq(SlabSet) /\ DOMAIN slabs = 1 .. Len(slabs) /\ Len(slabs) \in Nat
    BY <1>2 DEF Kept, SlabsLaid
<1>5. PICK fitting : fitting = SlabsFitting(slabs, n)
    OBVIOUS
<1>6. \A s \in fitting : s \in 1 .. Len(slabs) /\ FirstFit(slabs[s].blocks, n) # {}
    BY <1>4, <1>5 DEF SlabsFitting
<1>7. PICK slab : slab = NewSlab(n, cap)
    OBVIOUS
<1>8. PICK more : more = Grown(slabs, slab)
    OBVIOUS
<1>9. CASE fitting # {} /\ pool' = [pool EXCEPT !.slabs = CarvedFrom(slabs, LeastOf(fitting), n),
                                           !.in_use = @ + n]
  <2>1. PICK s : s = LeastOf(fitting)
      OBVIOUS
  <2>2. s \in fitting
    <3>1. fitting \in SUBSET Nat
        BY <1>4, <1>6
    <3>2. \E x \in fitting : \A t \in fitting : x <= t
        BY <1>9, <3>1, LeastNumber
    <3> QED BY <2>1, <3>2 DEF LeastOf
  <2>3. PICK new : new = CarvedFrom(slabs, s, n)
      OBVIOUS
  <2>4. Kept(new, in_use + n, mapped) /\ Len(new) = Len(slabs)
      BY <1>1, <1>2, <1>6, <2>2, <2>3, CarvedSlab
  <2>5. pool' = [slabs |-> new, in_use |-> in_use + n, mapped |-> mapped]
      BY <1>2, <1>9, <2>1, <2>3
  <2> QED BY <1>2, <2>4, <2>5, PoolOf
<1>10. CASE slab # 0 /\ pool' = [slabs |-> CarvedFrom(more, Len(more), n),
                                 in_use |-> in_use + n, mapped |-> mapped + slab]
  <2>1. slab \in Nat \ {0} /\ n <= slab /\ Len(slabs) # MaxSlabs
      BY <1>3, <1>7, <1>10, SlabIsLargeEnough
  <2>2. /\ Kept(more, in_use, mapped + slab) /\ Len(more) = Len(slabs) + 1
        /\ Len(more) \in 1 .. Len(more) /\ FirstFit(more[Len(more)].blocks, n) # {}
      BY <1>1, <1>2, <1>8, <2>1, GrownSlabs
  <2>3. PICK new : new = CarvedFrom(more, Len(more), n)
      OBVIOUS
  <2>4. Kept(new, in_use + n, mapped + slab) /\ Len(new) = Len(more)
      BY <1>1, <2>2, <2>3, CarvedSlab
  <2>5. Len(new) <= MaxSlabs
    <3>1. PICK z \in Nat : z = Len(slabs)
        BY <1>4
    <3>2. PICK y \in Nat : y = MaxSlabs
        BY HostPoolAssumption
    <3>3. z # y /\ z <= y /\ Len(new) = z + 1
        BY <1>2, <2>1, <2>2, <2>4, <3>1, <3>2
    <3>4. z + 1 <= y
        BY <3>3
    <3> QED BY <3>2, <3>3, <3>4
  <2> QED BY <1>10, <2>3, <2>4, <2>5, PoolOf
<1>11. CASE UNCHANGED pool
    BY <1>11 DEF PoolInv
<1> QED BY <1>3, <1>5, <1>7, <1>8, <1>9, <1>10, <1>11 DEF HostAlloc, LeastOf, Grown

LEMMA FreeKeepsPool ==
    ASSUME PoolInv, NEW s \in DOMAIN pool.slabs, NEW off, HostFree(s, off)
    PROVE  PoolInv'
<1>1. PICK slabs, in_use, mapped :
        /\ pool = [slabs |-> slabs, in_use |-> in_use, mapped |-> mapped]
        /\ Kept(slabs, in_use, mapped) /\ Len(slabs) <= MaxSlabs
    BY DEF PoolInv
<1>2. pool.slabs = slabs /\ pool.in_use = in_use /\ pool.mapped = mapped
    BY <1>1
<1>3. slabs \in Seq(SlabSet) /\ DOMAIN slabs = 1 .. Len(slabs) /\ Len(slabs) \in Nat
    BY <1>1 DEF Kept, SlabsLaid
<1>4. s \in 1 .. Len(slabs)
    BY <1>2, <1>3
<1>5. PICK l \in Seq(BlockSet) : l = slabs[s].blocks
    BY <1>3, <1>4, ASlab
<1>6. Laid(l, slabs[s].size) /\ Parted(l) /\ DOMAIN l = 1 .. Len(l)
    BY <1>1, <1>4, <1>5 DEF Kept, SlabsLaid
<1>7. PICK i \in 1 .. Len(l) :
        /\ l[i].used
        /\ pool' = [pool EXCEPT !.slabs[s].blocks = JoinedBefore(JoinedAfter(Freed(l, i), i), i),
                                !.in_use = @ - l[i].size]
    BY <1>2, <1>5, <1>6 DEF HostFree, Freed, JoinedAfter, JoinedBefore
<1>8. PICK back : back = JoinedBefore(JoinedAfter(Freed(l, i), i), i)
    OBVIOUS
<1>9. /\ Laid(back, slabs[s].size) /\ Parted(back)
      /\ UsedPages(l) = UsedPages(back) \cup Pages(l[i])
      /\ UsedPages(back) \cap Pages(l[i]) = {}
    BY <1>6, <1>7, <1>8, ReturnedList, Zenon
<1>10. back \in Seq(BlockSet)
    BY <1>9 DEF Laid
<1>11. PICK new : new = Relisting(slabs, s, back)
    OBVIOUS
<1>12. Relisted(slabs, new, s) /\ new[s].blocks = back
    BY <1>3, <1>4, <1>10, <1>11, Relist
<1>13. new[s].size = slabs[s].size /\ Len(new) = Len(slabs) /\ Relisted(new, slabs, s)
    BY <1>3, <1>12 DEF Relisted
<1>14. SlabsLaid(new) /\ PagesMapped(new) = PagesMapped(slabs)
  <2>1. SlabsLaid(slabs)
      BY <1>1 DEF Kept
  <2> QED BY <1>4, <1>9, <1>12, <1>13, <2>1, RelistedLaid
<1>15. l[i].off \in Nat /\ l[i].size \in Nat /\ l[i].size > 0
    BY <1>6, LaidBlock
<1>16. PICK from \in Nat, n \in Nat \ {0} : from = l[i].off /\ n = l[i].size
    BY <1>15
<1>17. PICK own : own = from .. (from + n) - 1
    OBVIOUS
<1>18. own = Pages(l[i])
    BY <1>16, <1>17 DEF Pages
<1>19. AddsOf(PagesOut(new), s, own, PagesOut(slabs))
  <2>1. Adds(UsedPages(new[s].blocks), own, UsedPages(slabs[s].blocks))
      BY <1>5, <1>9, <1>12, <1>18 DEF Adds
  <2>2. s \in 1 .. Len(new)
      BY <1>4, <1>13
  <2> QED BY <1>13, <2>1, <2>2, RelistedOut
<1>20. IsFiniteSet(PagesOut(new)) /\ Cardinality(PagesOut(new)) = in_use - n
  <2>1. IsFiniteSet(PagesOut(slabs)) /\ in_use = Cardinality(PagesOut(slabs))
      BY <1>1 DEF Kept
  <2>2. IsFiniteSet(own) /\ Cardinality(own) = n
      BY <1>17, Stretch
  <2>3. /\ IsFiniteSet(PagesOut(new))
        /\ Cardinality(PagesOut(new)) = Cardinality(PagesOut(slabs)) - Cardinality(own)
      BY <1>19, <2>1, <2>2, Uncounted
  <2> QED BY <2>1, <2>2, <2>3
<1>21. Kept(new, in_use - n, mapped)
    BY <1>1, <1>14, <1>20 DEF Kept
<1>22. pool' = [slabs |-> new, in_use |-> in_use - n, mapped |-> mapped]
    BY <1>1, <1>7, <1>8, <1>11, <1>16 DEF Relisting
<1> QED BY <1>1, <1>13, <1>21, <1>22, PoolOf

\* The invariant: the blocks of each slab tile it, its free ones are apart, and
\* the pages out and mapped are counted.
THEOREM PoolInvariant == PoolSpec => []PoolInv
<1>1. pool = NoPool => PoolInv
    BY InitPool
<1>2. PoolInv /\ [PoolNext]_pool => PoolInv'
  <2> SUFFICES ASSUME PoolInv, [PoolNext]_pool PROVE PoolInv'
      OBVIOUS
  <2>1. ASSUME NEW n \in PoolRequests, NEW cap \in SegmentCaps, HostAlloc(n, cap) PROVE PoolInv'
      BY <2>1, AllocKeepsPool
  <2>2. ASSUME NEW s \in DOMAIN pool.slabs, NEW off, HostFree(s, off) PROVE PoolInv'
      BY <2>2, FreeKeepsPool
  <2>3. CASE UNCHANGED pool
      BY <2>3 DEF PoolInv
  <2> QED BY <2>1, <2>2, <2>3 DEF PoolNext
<1> QED BY <1>1, <1>2, PTL DEF PoolSpec

\* No sequence of carving and merging loses a page of a mapping, hands one out
\* twice or counts it wrongly.
THEOREM PoolAlwaysSound == PoolSpec => []PoolSound
<1>1. PoolInv => PoolSound
  <2> SUFFICES ASSUME PoolInv PROVE PoolSound
      OBVIOUS
  <2>1. /\ SlabsLaid(pool.slabs) /\ Len(pool.slabs) <= MaxSlabs
        /\ pool.in_use = Cardinality(PagesOut(pool.slabs))
        /\ pool.mapped = Cardinality(PagesMapped(pool.slabs))
      BY DEF PoolInv, Kept
  <2>2. DOMAIN pool.slabs = 1 .. Len(pool.slabs)
      BY <2>1 DEF SlabsLaid
  <2>3. ASSUME NEW s \in DOMAIN pool.slabs, NEW l, l = pool.slabs[s].blocks, NEW i \in DOMAIN l
        PROVE  /\ l[1].off = 0 /\ l[i].size > 0
               /\ i < Len(l) => /\ l[i].off + l[i].size = l[i + 1].off
                                /\ l[i].used \/ l[i + 1].used
               /\ ~ (i < Len(l)) => l[i].off + l[i].size = pool.slabs[s].size
    <3>1. Laid(l, pool.slabs[s].size) /\ Parted(l)
        BY <2>1, <2>2, <2>3 DEF SlabsLaid
    <3>2. i \in 1 .. Len(l) /\ Len(l) \in Nat
        BY <2>3, <3>1 DEF Laid
    <3>3. ~ (i < Len(l)) => i = Len(l)
        BY <3>2
    <3> QED BY <3>1, <3>2, <3>3 DEF Laid, Parted
  <2>4. ASSUME NEW s \in DOMAIN pool.slabs PROVE pool.slabs[s].blocks[1].off = 0
      BY <2>1, <2>2 DEF SlabsLaid, Laid
  <2>5. ASSUME NEW s \in DOMAIN pool.slabs, NEW i \in DOMAIN pool.slabs[s].blocks
        PROVE  LET blocks == pool.slabs[s].blocks
               IN  /\ blocks[i].size > 0
                   /\ IF i < Len(blocks)
                      THEN /\ blocks[i].off + blocks[i].size = blocks[i + 1].off
                           /\ blocks[i].used \/ blocks[i + 1].used
                      ELSE blocks[i].off + blocks[i].size = pool.slabs[s].size
      BY <2>3, <2>5
  <2> QED BY <2>1, <2>4, <2>5 DEF PoolSound
<1> QED BY <1>1, PoolInvariant, PTL
=============================================================================
