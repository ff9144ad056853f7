---------------------------- MODULE SignalProofs ---------------------------
(***************************************************************************)
(* Signal, for any number of lockers, copiers and waiters and any width of *)
(* the values.  The lock that the lockers build from cas and exchange      *)
(* keeps them apart, so that no increment of the counter is lost, also     *)
(* when the counter wraps; the values keep to their width; the copy is     *)
(* made after the last announcement, whichever operation makes it; and a   *)
(* wait answers truly.  The bitwise operations need that a number is its   *)
(* bits, which the first two sections show for every width.                *)
(***************************************************************************)
EXTENDS Signal, FiniteSetTheorems, WellFoundedInduction, TLAPS

----------------------------------------------------------------------------
(* Powers of two.  Induction is by the least counterexample.               *)

\* A set of natural numbers that is not empty has a least element.
LEMMA Least ==
  ASSUME NEW T, T \subseteq Nat, T # {}
  PROVE  \E m \in T : \A k \in T : m <= k
<1> DEFINE R == OpToRel(<, Nat)
<1>1. IsWellFoundedOn(R, Nat)
  BY NatLessThanWellFounded
<1>2. PICK m \in T : \A k \in T : ~ (<<k, m>> \in R)
  <2> HIDE DEF R
  <2> QED
    BY <1>1, WFMin
<1>3. \A k \in T : ~ (k < m)
  BY <1>2 DEF OpToRel
<1> QED
  BY <1>3

\* A set of numbers that has 0 and with n also n + 1 has all of them.
LEMMA Induction ==
  ASSUME NEW S, 0 \in S, \A n \in Nat : n \in S => n + 1 \in S
  PROVE  \A n \in Nat : n \in S
<1> SUFFICES ASSUME NEW n \in Nat, n \notin S PROVE FALSE
  OBVIOUS
<1> DEFINE T == {k \in Nat : k \notin S}
<1>1. PICK m \in T : \A k \in T : m <= k
  <2>1. T \subseteq Nat /\ T # {}
    OBVIOUS
  <2> HIDE DEF T
  <2> QED
    BY <2>1, Least
<1>2. m \in Nat \ {0}
  BY <1>1
<1>3. m - 1 \in Nat /\ m - 1 \in S
  BY <1>1, <1>2
<1>4. (m - 1) + 1 \in S
  BY <1>3
<1> QED
  BY <1>1, <1>2, <1>4

\* The beginning of the powers, up to n.
Powers(n, g) ==
  /\ g \in [0 .. n -> Nat \ {0}]
  /\ g[0] = 1
  /\ \A k \in 1 .. n : g[k] = 2 * g[k - 1]

\* Each beginning exists,
LEMMA PowersExist == \A n \in Nat : \E g : Powers(n, g)
<1> DEFINE S == {n \in Nat : \E g : Powers(n, g)}
<1>1. 0 \in S
  <2>1. Powers(0, [k \in 0 .. 0 |-> 1])
    BY DEF Powers
  <2> QED
    BY <2>1
<1>2. ASSUME NEW n \in Nat, n \in S PROVE n + 1 \in S
  <2>1. PICK g : Powers(n, g)
    BY <1>2
  <2> DEFINE h == [k \in 0 .. n + 1 |-> IF k = n + 1 THEN 2 * g[n] ELSE g[k]]
  <2>2. g[n] \in Nat \ {0} /\ \A k \in 0 .. n : g[k] \in Nat \ {0}
    BY <2>1 DEF Powers
  <2>3. h \in [0 .. n + 1 -> Nat \ {0}] /\ h[0] = 1
    BY <2>1, <2>2 DEF Powers
  <2>4. ASSUME NEW k \in 1 .. n + 1 PROVE h[k] = 2 * h[k - 1]
    <3>1. CASE k = n + 1
      BY <3>1
    <3>2. CASE k # n + 1
      BY <2>1, <3>2 DEF Powers
    <3> QED
      BY <3>1, <3>2
  <2>5. Powers(n + 1, h)
    BY <2>3, <2>4 DEF Powers
  <2> QED
    BY <2>5
<1> HIDE DEF S
<1>3. \A n \in Nat : n \in S
  BY <1>1, <1>2, Induction
<1> QED
  BY <1>3 DEF S

\* and two of them agree.
LEMMA PowersAgree ==
  ASSUME NEW n \in Nat, NEW m \in Nat, n <= m, NEW g, NEW h, Powers(n, g), Powers(m, h)
  PROVE  g[n] = h[n]
<1> DEFINE S == {k \in Nat : k <= n => g[k] = h[k]}
<1>1. 0 \in S
  BY DEF Powers
<1>2. ASSUME NEW k \in Nat, k \in S PROVE k + 1 \in S
  <2>1. CASE k + 1 <= n
    <3>1. k + 1 \in 1 .. n /\ k + 1 \in 1 .. m /\ (k + 1) - 1 = k
      BY <2>1
    <3> QED
      BY <1>2, <2>1, <3>1 DEF Powers
  <2>2. CASE ~ (k + 1 <= n)
    BY <2>2
  <2> QED
    BY <2>1, <2>2
<1> HIDE DEF S
<1>3. n \in S
  BY <1>1, <1>2, Induction
<1> QED
  BY <1>3 DEF S

\* Hence the recursive definition defines the powers.
LEMMA PowerIs ==
  /\ Power[0] = 1
  /\ \A k \in Nat : Power[k] \in Nat \ {0} /\ Power[k + 1] = 2 * Power[k]
<1> DEFINE G(n) == CHOOSE g : Powers(n, g)
           F == [n \in Nat |-> G(n)[n]]
<1>1. \A n \in Nat : Powers(n, G(n))
  BY PowersExist
<1> HIDE DEF G
<1>2. \A n \in Nat : F[n] = G(n)[n] /\ F[n] \in Nat \ {0}
  BY <1>1 DEF Powers
<1>3. F[0] = 1
  BY <1>1 DEF Powers
<1>4. ASSUME NEW n \in Nat PROVE F[n + 1] = 2 * F[n]
  <2>1. G(n)[n] = G(n + 1)[n]
    BY <1>1, PowersAgree
  <2>2. n + 1 \in 1 .. n + 1 /\ (n + 1) - 1 = n
    OBVIOUS
  <2>3. G(n + 1)[n + 1] = 2 * G(n + 1)[n]
    BY <1>1, <2>2 DEF Powers
  <2> QED
    BY <1>2, <2>1, <2>3
<1>5. F = [k \in Nat |-> IF k = 0 THEN 1 ELSE 2 * F[k - 1]]
  <2>1. ASSUME NEW k \in Nat PROVE F[k] = IF k = 0 THEN 1 ELSE 2 * F[k - 1]
    <3>1. CASE k = 0
      BY <1>3, <3>1
    <3>2. CASE k # 0
      <4>1. k - 1 \in Nat /\ (k - 1) + 1 = k
        BY <3>2
      <4>2. F[(k - 1) + 1] = 2 * F[k - 1]
        BY <1>4, <4>1
      <4> QED
        BY <3>2, <4>1, <4>2
    <3> QED
      BY <3>1, <3>2
  <2> QED
    BY <2>1
<1> HIDE DEF F
<1>6. Power = [k \in Nat |-> IF k = 0 THEN 1 ELSE 2 * Power[k - 1]]
  BY <1>5 DEF Power
<1> HIDE DEF Power
<1>7. Power[0] = 1
  BY <1>6
<1>8. ASSUME NEW k \in Nat PROVE Power[k + 1] = 2 * Power[k]
  <2>1. k + 1 \in Nat /\ k + 1 # 0 /\ (k + 1) - 1 = k
    OBVIOUS
  <2> QED
    BY <1>6, <2>1
<1> DEFINE S == {k \in Nat : Power[k] \in Nat \ {0}}
<1>9. 0 \in S
  BY <1>7
<1>10. \A k \in Nat : k \in S => k + 1 \in S
  BY <1>8
<1>11. \A k \in Nat : k \in S
  <2> HIDE DEF S
  <2> QED
    BY <1>9, <1>10, Induction
<1> QED
  BY <1>7, <1>8, <1>11

\* Half of the values of Width bits is a power of two.
LEMMA HalfIs ==
  /\ Half \in Nat /\ Half >= 2
  /\ Power[Width] = 2 * Half
  /\ Width - 1 \in Nat
<1>1. Width - 2 \in Nat /\ (Width - 2) + 1 = Width - 1 /\ (Width - 1) + 1 = Width
      /\ Width - 1 \in Nat
  BY SignalAssumption
<1>2. PICK p \in Nat \ {0} : p = Power[Width - 2]
  BY <1>1, PowerIs
<1>3. Power[Width - 1] = 2 * p /\ Power[Width] = 2 * Power[Width - 1]
  BY <1>1, <1>2, PowerIs
<1>4. 2 * p \in Nat /\ 2 * p >= 2
  BY <1>2
<1> QED
  BY <1>1, <1>3, <1>4 DEF Half

\* A power is an even multiple of every smaller one.
LEMMA PowerDivides ==
  ASSUME NEW k \in Nat, NEW j \in Nat, k < j
  PROVE  \E q \in Nat : Power[j] = Power[k] * (2 * q)
<1> DEFINE S == {i \in Nat : \E q \in Nat : Power[k + 1 + i] = Power[k] * (2 * q)}
<1>1. 0 \in S
  <2>1. Power[k + 1 + 0] = Power[k] * (2 * 1)
    BY PowerIs
  <2> QED
    BY <2>1
<1>2. ASSUME NEW i \in Nat, i \in S PROVE i + 1 \in S
  <2>1. PICK q \in Nat : Power[k + 1 + i] = Power[k] * (2 * q)
    BY <1>2
  <2>2. k + 1 + i \in Nat /\ (k + 1 + i) + 1 = k + 1 + (i + 1)
    OBVIOUS
  <2>3. Power[k + 1 + (i + 1)] = 2 * Power[k + 1 + i]
    BY <2>2, PowerIs
  <2>4. PICK p \in Nat : p = Power[k]
    BY PowerIs
  <2>5. 2 * (p * (2 * q)) = p * (2 * (2 * q))
    BY <2>4
  <2>6. Power[k + 1 + (i + 1)] = Power[k] * (2 * (2 * q)) /\ 2 * q \in Nat /\ i + 1 \in Nat
    BY <2>1, <2>3, <2>4, <2>5
  <2> QED
    BY <2>6
<1>3. j - k - 1 \in Nat /\ k + 1 + (j - k - 1) = j
  OBVIOUS
<1>4. j - k - 1 \in S
  <2> HIDE DEF S
  <2> QED
    BY <1>1, <1>2, <1>3, Induction
<1> QED
  BY <1>3, <1>4

----------------------------------------------------------------------------
(* Arithmetic of a number of Width bits.                                   *)

\* The quotient and the remainder.
LEMMA DivMod ==
  ASSUME NEW x \in Int, NEW m \in Nat \ {0}
  PROVE  x % m \in 0 .. m - 1 /\ x \div m \in Int /\ x = (m * (x \div m)) + (x % m)
OBVIOUS

\* There is only one remainder.
LEMMA Remainder ==
  ASSUME NEW x \in Int, NEW m \in Nat \ {0}, NEW q \in Int, NEW r \in 0 .. m - 1,
         x = (m * q) + r
  PROVE  x % m = r
OBVIOUS

\* A remainder can be taken before an addition or after it.
LEMMA ModPlus ==
  ASSUME NEW x \in Int, NEW y \in Int, NEW m \in Nat \ {0}
  PROVE  ((x % m) + y) % m = (x + y) % m
<1>1. PICK q \in Int, r \in 0 .. m - 1 : x = (m * q) + r /\ x % m = r
  BY DivMod
<1>2. PICK p \in Int, s \in 0 .. m - 1 : x + y = (m * p) + s /\ (x + y) % m = s
  <2>1. x + y \in Int
    OBVIOUS
  <2> QED
    BY <2>1, DivMod
<1>3. r + y = (m * (p - q)) + s /\ r + y \in Int /\ p - q \in Int
  BY <1>1, <1>2
<1>4. (r + y) % m = s
  BY <1>3, Remainder
<1> QED
  BY <1>1, <1>2, <1>4

\* What a signed number of Width bits holds after an addition depends on the
\* sum alone, however often it has wrapped before.
LEMMA WrapPlus ==
  ASSUME NEW x \in Int, NEW y \in Int
  PROVE  Wrap(Wrap(x) + y) = Wrap(x + y) /\ Wrap(x) \in Values
<1>1. PICK h \in Nat \ {0}, m \in Nat \ {0} : h = Half /\ m = 2 * Half
  BY HalfIs
<1>2. (x + h) % m \in 0 .. m - 1
  <2>1. x + h \in Int
    BY <1>1
  <2> QED
    BY <2>1, DivMod
<1>3. (((x + h) % m) + y) % m = ((x + h) + y) % m
  BY <1>1, ModPlus
<1>4. (((x + h) % m) - h) + y + h = ((x + h) % m) + y
  BY <1>1, <1>2
<1>5. (x + h) + y = (x + y) + h
  BY <1>1
<1>6. Wrap(Wrap(x) + y) = Wrap(x + y)
  BY <1>1, <1>3, <1>4, <1>5 DEF Wrap
<1>7. Wrap(x) \in Values
  BY <1>1, <1>2 DEF Wrap, Values
<1> QED
  BY <1>6, <1>7

\* The counter starts at 0.
LEMMA WrapZero == Wrap(0) = 0
<1>1. PICK h \in Nat \ {0} : h = Half
  BY HalfIs
<1>2. h % (2 * h) = h
  BY <1>1
<1> QED
  BY <1>1, <1>2 DEF Wrap

----------------------------------------------------------------------------
(* The bits of a number.                                                   *)

\* There is only one quotient.
LEMMA Quotient ==
  ASSUME NEW x \in Int, NEW m \in Nat \ {0}, NEW q \in Int, NEW r \in 0 .. m - 1,
         x = (m * q) + r
  PROVE  x \div m = q
<1>1. PICK p \in Int, s \in 0 .. m - 1 : x \div m = p /\ x = (m * p) + s
  BY DivMod
<1>2. m * (p - q) = r - s
  BY <1>1
<1>3. ASSUME NEW d \in Nat \ {0} PROVE m * d >= m
  BY <1>3
<1>4. CASE p > q
  <2>1. p - q \in Nat \ {0} /\ m * (p - q) >= m
    BY <1>3, <1>4
  <2> QED
    BY <1>2, <2>1
<1>5. CASE p < q
  <2>1. q - p \in Nat \ {0} /\ m * (q - p) >= m
    BY <1>3, <1>5
  <2>2. m * (q - p) = - (m * (p - q))
    OBVIOUS
  <2> QED
    BY <1>2, <2>1, <2>2
<1> QED
  BY <1>1, <1>4, <1>5

Bit(x, k) == (x \div Power[k]) % 2 = 1

\* A bit does not see what is added above it.
LEMMA AddAbove ==
  ASSUME NEW x \in Int, NEW k \in Nat, NEW j \in Nat, k < j, NEW c \in Int
  PROVE  Bit(x + (Power[j] * c), k) <=> Bit(x, k)
<1>1. PICK m \in Nat \ {0} : m = Power[k]
  BY PowerIs
<1>2. PICK e \in Nat : Power[j] = m * (2 * e)
  BY <1>1, PowerDivides
<1>3. PICK q \in Int, r \in 0 .. m - 1 : x \div m = q /\ x = (m * q) + r
  BY DivMod
<1>4. PICK d \in Int : d = e * c
  OBVIOUS
<1>5. (m * (2 * e)) * c = m * (2 * d)
  BY <1>4
<1>6. x + (m * (2 * d)) = (m * (q + (2 * d))) + r /\ q + (2 * d) \in Int
      /\ x + (m * (2 * d)) \in Int
  BY <1>3
<1>7. (x + (m * (2 * d))) \div m = q + (2 * d)
  BY <1>6, Quotient
<1>8. (q + (2 * d)) % 2 = q % 2
  OBVIOUS
<1>9. (x + (Power[j] * c)) \div Power[k] = q + (2 * d)
  BY <1>1, <1>2, <1>5, <1>7
<1> QED
  BY <1>1, <1>3, <1>8, <1>9 DEF Bit

\* A number below a power has no bit from there on, and with the power added
\* it has that bit.
LEMMA TopBit ==
  ASSUME NEW k \in Nat, NEW z \in 0 .. Power[k] - 1
  PROVE  ~ Bit(z, k) /\ Bit(z + Power[k], k) /\ \A j \in Nat : j >= k => ~ Bit(z, j)
<1>1. PICK m \in Nat \ {0} : m = Power[k]
  BY PowerIs
<1>2. z + m = (m * 1) + z /\ z + m \in Int
  BY <1>1
<1>3. (z + m) \div m = 1
  BY <1>1, <1>2, Quotient
<1>4. ASSUME NEW j \in Nat, j >= k PROVE ~ Bit(z, j)
  <2>1. PICK p \in Nat \ {0} : p = Power[j]
    BY PowerIs
  <2>2. m <= p
    <3>1. CASE j = k
      BY <1>1, <2>1, <3>1
    <3>2. CASE k < j
      <4>1. PICK q \in Nat : p = m * (2 * q)
        BY <1>1, <2>1, <3>2, PowerDivides
      <4>2. q >= 1
        BY <2>1, <4>1
      <4>3. m * q >= m
        BY <4>1, <4>2
      <4>4. m * (2 * q) = (m * q) + (m * q)
        BY <4>1
      <4> QED
        BY <4>1, <4>3, <4>4
    <3> QED
      BY <1>4, <3>1, <3>2
  <2>3. z = (p * 0) + z /\ z \in 0 .. p - 1 /\ z \in Int
    BY <1>1, <2>1, <2>2
  <2>4. z \div p = 0
    BY <2>3, Quotient
  <2> QED
    BY <2>1, <2>4 DEF Bit
<1> QED
  BY <1>1, <1>3, <1>4 DEF Bit

\* Every set of positions is the set of bits of a number.
LEMMA NumberOf ==
  ASSUME NEW n \in Nat, NEW S \in SUBSET (0 .. n - 1)
  PROVE  \E z \in 0 .. Power[n] - 1 : \A k \in 0 .. n - 1 : Bit(z, k) <=> k \in S
<1> DEFINE Good(m) == \A R \in SUBSET (0 .. m - 1) :
             \E z \in 0 .. Power[m] - 1 : \A k \in 0 .. m - 1 : Bit(z, k) <=> k \in R
           N == {m \in Nat : Good(m)}
<1>1. 0 \in N
  <2>1. 0 \in 0 .. Power[0] - 1
    BY PowerIs
  <2> QED
    BY <2>1
<1>2. ASSUME NEW m \in Nat, m \in N PROVE m + 1 \in N
  <2> SUFFICES ASSUME NEW R \in SUBSET (0 .. (m + 1) - 1)
               PROVE  \E z \in 0 .. Power[m + 1] - 1 :
                        \A k \in 0 .. (m + 1) - 1 : Bit(z, k) <=> k \in R
    BY <1>2
  <2>1. PICK z \in 0 .. Power[m] - 1 :
          \A k \in 0 .. m - 1 : Bit(z, k) <=> k \in R \cap (0 .. m - 1)
    <3>1. R \cap (0 .. m - 1) \in SUBSET (0 .. m - 1)
      OBVIOUS
    <3> QED
      BY <1>2, <3>1
  <2>2. PICK p \in Nat \ {0} : p = Power[m] /\ Power[m + 1] = 2 * p
    BY PowerIs
  <2>3. ~ Bit(z, m) /\ Bit(z + p, m)
    BY <2>1, <2>2, TopBit
  <2>4. \A k \in 0 .. (m + 1) - 1 : k \in 0 .. m - 1 \/ k = m
    OBVIOUS
  <2>5. CASE m \in R
    <3>1. \A k \in 0 .. m - 1 : Bit(z + p, k) <=> Bit(z, k)
      <4>1. ASSUME NEW k \in 0 .. m - 1 PROVE Bit(z + (Power[m] * 1), k) <=> Bit(z, k)
        <5>1. z \in Int /\ k \in Nat /\ k < m
          BY <2>1, <2>2
        <5> QED
          BY <5>1, AddAbove
      <4>2. Power[m] * 1 = p
        BY <2>2
      <4> QED
        BY <4>1, <4>2
    <3>2. z + p \in 0 .. Power[m + 1] - 1
      BY <2>1, <2>2
    <3>3. \A k \in 0 .. (m + 1) - 1 : Bit(z + p, k) <=> k \in R
      BY <2>1, <2>3, <2>4, <2>5, <3>1
    <3> QED
      BY <3>2, <3>3
  <2>6. CASE m \notin R
    <3>1. z \in 0 .. Power[m + 1] - 1
      BY <2>1, <2>2
    <3>2. \A k \in 0 .. (m + 1) - 1 : Bit(z, k) <=> k \in R
      BY <2>1, <2>3, <2>4, <2>6
    <3> QED
      BY <3>1, <3>2
  <2> QED
    BY <2>5, <2>6
<1> HIDE DEF N
<1>3. n \in N
  BY <1>1, <1>2, Induction
<1> QED
  BY <1>3 DEF N

\* What fits into fewer bits with none missing is no greater.
LEMMA FewerBits ==
  ASSUME NEW n \in Nat, NEW x \in 0 .. Power[n] - 1, NEW y \in 0 .. Power[n] - 1,
         \A k \in 0 .. n - 1 : Bit(x, k) => Bit(y, k)
  PROVE  x <= y
<1> DEFINE Good(m) == \A a, b \in 0 .. Power[m] - 1 :
             (\A k \in 0 .. m - 1 : Bit(a, k) => Bit(b, k)) => a <= b
           N == {m \in Nat : Good(m)}
<1>1. 0 \in N
  BY PowerIs
<1>2. ASSUME NEW m \in Nat, m \in N PROVE m + 1 \in N
  <2> SUFFICES ASSUME NEW a \in 0 .. Power[m + 1] - 1, NEW b \in 0 .. Power[m + 1] - 1,
                      \A k \in 0 .. (m + 1) - 1 : Bit(a, k) => Bit(b, k)
               PROVE  a <= b
    BY <1>2
  <2>1. PICK p \in Nat \ {0} : p = Power[m] /\ Power[m + 1] = 2 * p
    BY PowerIs
  \* The number without its highest bit.
  <2> DEFINE Low(c) == IF c >= p THEN c - p ELSE c
  <2>2. ASSUME NEW c \in 0 .. Power[m + 1] - 1
        PROVE  /\ Low(c) \in 0 .. Power[m] - 1
               /\ \A k \in 0 .. m - 1 : Bit(Low(c), k) <=> Bit(c, k)
               /\ Bit(c, m) <=> c >= p
    <3>1. Low(c) \in 0 .. Power[m] - 1
      BY <2>1
    <3>2. ~ Bit(Low(c), m) /\ Bit(Low(c) + p, m)
      BY <2>1, <3>1, TopBit
    <3>3. \A k \in 0 .. m - 1 : Bit(Low(c) + p, k) <=> Bit(Low(c), k)
      <4>1. ASSUME NEW k \in 0 .. m - 1
            PROVE  Bit(Low(c) + (Power[m] * 1), k) <=> Bit(Low(c), k)
        <5>1. Low(c) \in Int
          BY <2>1, <3>1
        <5> HIDE DEF Low
        <5> QED
          BY <5>1, AddAbove
      <4>2. Power[m] * 1 = p
        BY <2>1
      <4> QED
        BY <4>1, <4>2
    <3>4. CASE c >= p
      <4>1. Low(c) + p = c
        BY <2>1, <3>4
      <4> QED
        BY <3>1, <3>2, <3>3, <3>4, <4>1
    <3>5. CASE ~ (c >= p)
      BY <3>1, <3>2, <3>5
    <3> QED
      BY <3>4, <3>5
  <2>3. \A k \in 0 .. m - 1 : Bit(Low(a), k) => Bit(Low(b), k)
    BY <2>2
  <2>4. Low(a) <= Low(b)
    <3> HIDE DEF Low
    <3> QED
      BY <1>2, <2>2, <2>3
  <2>5. a >= p => b >= p
    BY <2>2
  <2> QED
    BY <2>1, <2>4, <2>5
<1> HIDE DEF N
<1>3. n \in N
  BY <1>1, <1>2, Induction
<1> QED
  BY <1>3 DEF N

\* The bits of Width bits, by position.
LEMMA BitsAre ==
  ASSUME NEW x
  PROVE  \A k : k \in Bits(x) <=> k \in Positions /\ Bit(x, k)
BY DEF Bits, Bit

\* Wrapping keeps the bits.
LEMMA WrapBits ==
  ASSUME NEW x \in Int
  PROVE  Bits(Wrap(x)) = Bits(x)
<1>1. PICK h \in Nat \ {0}, m \in Nat \ {0} : h = Half /\ m = 2 * Half /\ m = Power[Width]
  BY HalfIs
<1>2. PICK q \in Int, r \in 0 .. m - 1 : x + h = (m * q) + r /\ (x + h) % m = r
  <2>1. x + h \in Int
    BY <1>1
  <2> QED
    BY <2>1, DivMod
<1>3. Wrap(x) = x + (m * (- q))
  <2>1. Wrap(x) = r - h
    BY <1>1, <1>2 DEF Wrap
  <2>2. m * (- q) = - (m * q)
    OBVIOUS
  <2> QED
    BY <1>1, <1>2, <2>1, <2>2
<1>4. ASSUME NEW k \in Positions PROVE Bit(Wrap(x), k) <=> Bit(x, k)
  <2>1. k \in Nat /\ Width \in Nat /\ k < Width /\ - q \in Int
    BY SignalAssumption DEF Positions
  <2>2. Bit(x + (Power[Width] * (- q)), k) <=> Bit(x, k)
    BY <2>1, AddAbove
  <2> QED
    BY <1>1, <1>3, <2>2
<1> QED
  BY <1>4, BitsAre

\* A set of positions has its value.
LEMMA OfBitsIs ==
  ASSUME NEW S \in SUBSET Positions
  PROVE  OfBits(S) \in Values /\ Bits(OfBits(S)) = S
<1>1. Width \in Nat
  BY SignalAssumption
<1>2. PICK z \in 0 .. Power[Width] - 1 : \A k \in 0 .. Width - 1 : Bit(z, k) <=> k \in S
  BY <1>1, NumberOf DEF Positions
<1>3. z \in Int
  BY <1>1, <1>2, PowerIs
<1>4. Wrap(z) \in Values
  <2>1. 0 \in Int
    OBVIOUS
  <2> QED
    BY <1>3, <2>1, WrapPlus
<1>5. Bits(Wrap(z)) = S
  <2>1. Bits(z) = S
    BY <1>2, BitsAre DEF Positions
  <2> QED
    BY <1>3, <2>1, WrapBits
<1> QED
  BY <1>4, <1>5 DEF OfBits

\* 0 has no bits,
LEMMA ZeroBits == Bits(0) = {}
<1>1. ASSUME NEW k \in Nat PROVE ~ Bit(0, k)
  <2>1. PICK p \in Nat \ {0} : p = Power[k]
    BY PowerIs
  <2>2. 0 \div p = 0
    <3>1. 0 = (p * 0) + 0 /\ 0 \in 0 .. p - 1
      OBVIOUS
    <3> QED
      BY <3>1, Quotient
  <2> QED
    BY <2>1, <2>2 DEF Bit
<1> QED
  BY <1>1, BitsAre DEF Positions

\* a power one bit,
LEMMA PowerBits ==
  ASSUME NEW j \in Positions
  PROVE  Bits(Power[j]) = {j}
<1>1. j \in Nat /\ \A k \in Positions : k \in Nat
  BY DEF Positions
<1>2. PICK p \in Nat \ {0} : p = Power[j]
  BY <1>1, PowerIs
<1>3. Bit(p, j)
  <2>1. 0 \in 0 .. Power[j] - 1 /\ 0 + p = p
    BY <1>2
  <2> QED
    BY <1>1, <1>2, <2>1, TopBit
<1>4. ASSUME NEW k \in Nat, k < j PROVE ~ Bit(p, k)
  <2>1. Bit(0 + (Power[j] * 1), k) <=> Bit(0, k)
    BY <1>1, <1>4, AddAbove
  <2>2. 0 + (Power[j] * 1) = p
    BY <1>2
  <2>3. ~ Bit(0, k)
    <3>1. 0 \in 0 .. Power[k] - 1
      BY PowerIs
    <3> QED
      BY <3>1, TopBit
  <2> QED
    BY <2>1, <2>2, <2>3
<1>5. ASSUME NEW k \in Nat, j < k PROVE ~ Bit(p, k)
  <2>1. j + 1 \in Nat /\ k >= j + 1 /\ Power[j + 1] = 2 * p
    BY <1>1, <1>2, <1>5, PowerIs
  <2>2. p \in 0 .. Power[j + 1] - 1
    BY <1>2, <2>1
  <2> QED
    BY <2>1, <2>2, TopBit
<1>6. \A k \in Positions : Bit(p, k) <=> k = j
  BY <1>1, <1>3, <1>4, <1>5
<1> QED
  BY <1>2, <1>6, BitsAre

\* and the complement the others.
LEMMA ComplementBits ==
  ASSUME NEW x \in Int
  PROVE  Bits(- x - 1) = Positions \ Bits(x)
<1>1. ASSUME NEW k \in Nat PROVE Bit(- x - 1, k) <=> ~ Bit(x, k)
  <2>1. PICK m \in Nat \ {0} : m = Power[k]
    BY PowerIs
  <2>2. PICK q \in Int, r \in 0 .. m - 1 : x \div m = q /\ x = (m * q) + r
    BY DivMod
  <2>3. - x - 1 = (m * (- q - 1)) + (m - 1 - r) /\ - x - 1 \in Int /\ - q - 1 \in Int
        /\ m - 1 - r \in 0 .. m - 1
    BY <2>2
  <2>4. (- x - 1) \div m = - q - 1
    BY <2>3, Quotient
  <2>5. (- q - 1) % 2 = 1 <=> ~ (q % 2 = 1)
    OBVIOUS
  <2> QED
    BY <2>1, <2>2, <2>4, <2>5 DEF Bit
<1>2. \A k \in Positions : k \in Nat
  BY DEF Positions
<1> QED
  BY <1>1, <1>2, BitsAre

\* Without the highest bit a value is not negative.
LEMMA SignBit ==
  ASSUME NEW x \in Values, Width - 1 \notin Bits(x)
  PROVE  x \in 0 .. Half - 1
<1>1. PICK h \in Nat \ {0} : h = Half /\ h = Power[Width - 1]
  BY HalfIs DEF Half
<1>2. SUFFICES ASSUME x < 0 PROVE FALSE
  BY <1>1 DEF Values
<1>3. x = (h * (- 1)) + (x + h) /\ x + h \in 0 .. h - 1 /\ x \in Int
  BY <1>1, <1>2 DEF Values
<1>4. x \div h = - 1
  BY <1>3, Quotient
<1>5. Bit(x, Width - 1)
  BY <1>1, <1>4 DEF Bit
<1>6. Width - 1 \in Positions
  BY SignalAssumption DEF Positions
<1> QED
  BY <1>5, <1>6, BitsAre

\* Of two values that are not negative the one with all bits of the other is
\* the greater.
LEMMA BitsOrder ==
  ASSUME NEW x \in 0 .. Half - 1, NEW y \in 0 .. Half - 1, Bits(x) \subseteq Bits(y)
  PROVE  x <= y
<1>1. Width - 1 \in Nat /\ Half = Power[Width - 1]
  BY HalfIs DEF Half
<1>2. \A k \in 0 .. (Width - 1) - 1 : k \in Positions
  BY SignalAssumption DEF Positions
<1>3. \A k \in 0 .. (Width - 1) - 1 : Bit(x, k) => Bit(y, k)
  BY <1>2, BitsAre
<1> QED
  BY <1>1, <1>3, FewerBits

----------------------------------------------------------------------------
(* The inductive invariant.                                                *)

LockerSteps == {"acquire", "load", "store", "unlock", "flag", "join", "end"}

\* The lock is free only when nobody holds it, at most one locker does, and
\* what the holder has loaded is still the count when he stores.
LockInv ==
  /\ DOMAIN value = Names /\ DOMAIN pc = Threads /\ DOMAIN seen = Threads
  /\ \A t \in Lockers : pc[t] \in LockerSteps
  /\ value["lock"] = 0 => \A t \in Lockers : ~ Holding(t)
  /\ \A t, u \in Lockers : Holding(t) /\ Holding(u) => t = u
  /\ \A t \in Lockers : pc[t] = "store" => seen[t] = value["count"]
  /\ value["count"] = Wrap(Cardinality(Counted))

\* The invariant holds when nobody has the lock.
LEMMA InitLock == Init => LockInv
<1> SUFFICES ASSUME Init PROVE LockInv
  OBVIOUS
<1>1. \A t \in Lockers : t \in Threads /\ pc[t] = "acquire"
  BY DEF Init, Threads
<1>2. Counted = {}
  BY <1>1 DEF Counted
<1>3. value["count"] = 0 /\ DOMAIN value = Names
  BY DEF Init, Names
<1>4. value["count"] = Wrap(Cardinality(Counted))
  BY <1>2, <1>3, WrapZero, FS_EmptySet
<1>5. DOMAIN pc = Threads /\ DOMAIN seen = Threads
  BY DEF Init
<1> QED
  BY <1>1, <1>3, <1>4, <1>5 DEF LockInv, LockerSteps, Holding

\* A step of a thread that is not at a locker's step, of the clock, or of
\* nobody leaves the lock and the counter.
LEMMA OtherStep ==
  ASSUME LockInv, value'["lock"] = value["lock"], value'["count"] = value["count"],
         DOMAIN value' = Names, DOMAIN pc' = Threads, DOMAIN seen' = Threads,
         \A t \in Lockers : pc'[t] = pc[t] /\ seen'[t] = seen[t]
  PROVE  LockInv'
<1>1. Counted' = Counted
  BY DEF Counted
<1> QED
  BY <1>1 DEF LockInv, Holding

\* A step of a locker to another place: the frame.
LEMMA LockerMoves ==
  ASSUME LockInv, NEW t \in Lockers, NEW from, NEW to, Goto(t, from, to)
  PROVE  /\ DOMAIN pc' = Threads /\ pc[t] = from /\ pc'[t] = to
         /\ \A u \in Lockers \ {t} : pc'[u] = pc[u]
BY DEF LockInv, Goto, Threads

\* What a write to one signal does to the others.
LEMMA OneSignal ==
  ASSUME LockInv, NEW s \in Names, NEW x, value' = [value EXCEPT ![s] = x]
  PROVE  /\ DOMAIN value' = Names /\ value'[s] = x
         /\ \A r \in Names \ {s} : value'[r] = value[r]
BY DEF LockInv

\* Cas and exchange: the lock is taken by one that has found 0 in it.
LEMMA AcquireStep ==
  ASSUME LockInv, NEW t \in Lockers, AcquireByCas(t) \/ AcquireByExchange(t)
  PROVE  LockInv'
<1>1. PICK to : to = IF value["lock"] = 0 THEN "load" ELSE "acquire"
  OBVIOUS
<1>2. Goto(t, "acquire", to) /\ UNCHANGED seen
  BY <1>1 DEF AcquireByCas, AcquireByExchange, compareExchangeResult
<1>3. PICK x : x \in {1, value["lock"]} /\ (value["lock"] = 0 => x = 1)
               /\ value' = [value EXCEPT !["lock"] = x]
  BY DEF AcquireByCas, AcquireByExchange, compareExchange, exchange, CompareExchange, Exchange
<1>4. /\ DOMAIN pc' = Threads /\ pc[t] = "acquire" /\ pc'[t] = to
      /\ \A u \in Lockers \ {t} : pc'[u] = pc[u]
  BY <1>2, LockerMoves
<1>5. DOMAIN value' = Names /\ value'["lock"] = x /\ value'["count"] = value["count"]
  BY <1>3, OneSignal DEF Names
<1>6. Counted' = Counted
  BY <1>1, <1>4 DEF Counted
<1>7. \A u \in Lockers : Holding(u)' => Holding(u) \/ (u = t /\ value["lock"] = 0)
  BY <1>1, <1>4 DEF Holding
<1>8. value'["lock"] # 0 \/ \A u \in Lockers : ~ Holding(u)'
  BY <1>3, <1>5, <1>7 DEF LockInv
<1>9. \A u, w \in Lockers : Holding(u)' /\ Holding(w)' => u = w
  BY <1>7 DEF LockInv
<1>10. \A u \in Lockers : pc'[u] \in LockerSteps /\ (pc'[u] = "store" => pc[u] = "store")
  BY <1>1, <1>4 DEF LockInv, LockerSteps
<1> QED
  BY <1>2, <1>4, <1>5, <1>6, <1>8, <1>9, <1>10 DEF LockInv

\* The holder loads the count.
LEMMA LoadStep ==
  ASSUME LockInv, NEW t \in Lockers, LoadCount(t)
  PROVE  LockInv'
<1>1. /\ DOMAIN pc' = Threads /\ pc[t] = "load" /\ pc'[t] = "store"
      /\ \A u \in Lockers \ {t} : pc'[u] = pc[u]
  BY LockerMoves DEF LoadCount
<1>2. UNCHANGED value /\ seen' = [seen EXCEPT ![t] = value["count"]]
  BY DEF LoadCount
<1>3. DOMAIN seen' = Threads /\ seen'[t] = value["count"]
  BY <1>2 DEF LockInv, Threads
<1>4. Counted' = Counted /\ \A u \in Lockers : (Holding(u)' <=> Holding(u))
  BY <1>1 DEF Counted, Holding
<1>5. \A u \in Lockers : pc'[u] = "store" => u = t
  BY <1>1 DEF LockInv, Holding
<1> QED
  BY <1>1, <1>2, <1>3, <1>4, <1>5 DEF LockInv, LockerSteps

\* The holder stores one more than he has loaded, which is the count.
LEMMA StoreStep ==
  ASSUME LockInv, NEW t \in Lockers, StoreCount(t)
  PROVE  LockInv'
<1>1. /\ DOMAIN pc' = Threads /\ pc[t] = "store" /\ pc'[t] = "unlock"
      /\ \A u \in Lockers \ {t} : pc'[u] = pc[u]
  BY LockerMoves DEF StoreCount
<1>2. UNCHANGED seen /\ value' = [value EXCEPT !["count"] = Wrap(seen[t] + 1)]
  BY DEF StoreCount, store
<1>3. /\ DOMAIN value' = Names /\ value'["lock"] = value["lock"]
      /\ value'["count"] = Wrap(seen[t] + 1)
  BY <1>2, OneSignal DEF Names
<1>4. \A u \in Lockers : (Holding(u)' <=> Holding(u))
  BY <1>1 DEF Holding
<1>5. \A u \in Lockers : pc'[u] # "store"
  BY <1>1 DEF LockInv, Holding
<1>6. value'["count"] = Wrap(Cardinality(Counted'))
  <2>1. t \notin Counted /\ Counted' = Counted \cup {t}
    BY <1>1 DEF Counted
  <2>2. IsFiniteSet(Counted)
    BY SignalAssumption, FS_Subset DEF Counted
  <2>3. Cardinality(Counted) \in Int /\ Cardinality(Counted') = Cardinality(Counted) + 1
    BY <2>1, <2>2, FS_AddElement, FS_CardinalityType
  <2>4. seen[t] = Wrap(Cardinality(Counted))
    BY <1>1 DEF LockInv
  <2> QED
    BY <1>3, <2>3, <2>4, WrapPlus
<1> QED
  BY <1>1, <1>2, <1>3, <1>4, <1>5, <1>6 DEF LockInv, LockerSteps

\* The holder gives the lock back.
LEMMA UnlockStep ==
  ASSUME LockInv, NEW t \in Lockers, Unlock(t)
  PROVE  LockInv'
<1>1. /\ DOMAIN pc' = Threads /\ pc[t] = "unlock" /\ pc'[t] = "flag"
      /\ \A u \in Lockers \ {t} : pc'[u] = pc[u]
  BY LockerMoves DEF Unlock
<1>2. UNCHANGED seen /\ value' = [value EXCEPT !["lock"] = 0]
  BY DEF Unlock, store
<1>3. DOMAIN value' = Names /\ value'["count"] = value["count"]
  BY <1>2, OneSignal DEF Names
<1>4. \A u \in Lockers : ~ Holding(u)'
  BY <1>1 DEF LockInv, Holding
<1>5. Counted' = Counted
  BY <1>1 DEF Counted
<1>6. \A u \in Lockers : pc'[u] \in LockerSteps /\ pc'[u] # "store"
  BY <1>1, <1>4 DEF LockInv, LockerSteps, Holding
<1> QED
  BY <1>1, <1>2, <1>3, <1>4, <1>5, <1>6 DEF LockInv

\* The announcements leave the lock and the counter.
LEMMA AnnounceStep ==
  ASSUME LockInv, NEW t \in Lockers, Flag(t) \/ Join(t)
  PROVE  LockInv'
<1>1. /\ DOMAIN pc' = Threads /\ pc[t] \in {"flag", "join"} /\ pc'[t] \in {"join", "end"}
      /\ \A u \in Lockers \ {t} : pc'[u] = pc[u]
  BY LockerMoves DEF Flag, Join
<1>2. UNCHANGED seen /\ \E s \in {"mask", "join"} : \E x : value' = [value EXCEPT ![s] = x]
  BY DEF Flag, Join, or_, subtract, add, xor_, and_
<1>3. /\ DOMAIN value' = Names /\ value'["lock"] = value["lock"]
      /\ value'["count"] = value["count"]
  BY <1>2, OneSignal DEF Names
<1>4. Counted' = Counted /\ \A u \in Lockers : (Holding(u)' <=> Holding(u))
  BY <1>1 DEF Counted, Holding
<1>5. \A u \in Lockers : pc'[u] \in LockerSteps /\ (pc'[u] = "store" => pc[u] = "store")
  BY <1>1 DEF LockInv, LockerSteps
<1> QED
  BY <1>1, <1>2, <1>3, <1>4, <1>5 DEF LockInv

\* A wait and a copy leave the lock and the counter, and the lockers.
LEMMA WaiterCopierStep ==
  ASSUME LockInv, NEW t \in Waiters \cup Copiers, Waiter(t) \/ Copier(t)
  PROVE  LockInv'
<1>1. PICK from \in {"choose", "wait", "check", "deps", "waited", "signal"} :
        \E to : Goto(t, from, to)
  BY DEF Waiter, Copier, CallWait, WaitLoad, WaitCheck, WaitDep, NextDep, Copy, SignalDone,
         StartWait
<1>2. t \notin Lockers
  BY <1>1 DEF LockInv, LockerSteps, Goto
<1>3. DOMAIN pc' = Threads /\ \A u \in Lockers : pc'[u] = pc[u]
  BY <1>1, <1>2 DEF LockInv, Goto, Threads
<1>4. UNCHANGED seen \/ \E x : seen' = [seen EXCEPT ![t] = x]
  BY DEF Waiter, Copier, CallWait, WaitLoad, WaitCheck, WaitDep, NextDep, Copy, SignalDone
<1>5. DOMAIN seen' = Threads /\ \A u \in Lockers : seen'[u] = seen[u]
  BY <1>2, <1>4 DEF LockInv, Threads
<1>6. UNCHANGED value \/ value' = [value EXCEPT !["done"] = 0]
  BY DEF Waiter, Copier, CallWait, WaitLoad, WaitCheck, WaitDep, NextDep, Copy, SignalDone, store
<1>7. /\ DOMAIN value' = Names /\ value'["lock"] = value["lock"]
      /\ value'["count"] = value["count"]
  BY <1>6 DEF LockInv, Names
<1> QED
  BY <1>3, <1>5, <1>7, OtherStep

\* Every step preserves the invariant.
LEMMA NextLock == LockInv /\ [Next]_vars => LockInv'
<1> SUFFICES ASSUME LockInv, [Next]_vars PROVE LockInv'
  OBVIOUS
<1>1. CASE \E t \in Lockers : Locker(t)
  BY <1>1, AcquireStep, LoadStep, StoreStep, UnlockStep, AnnounceStep DEF Locker
<1>2. CASE (\E t \in Waiters : Waiter(t)) \/ (\E t \in Copiers : Copier(t))
  BY <1>2, WaiterCopierStep
<1>3. CASE Tick \/ UNCHANGED vars
  <2>1. UNCHANGED <<value, pc, seen>>
    BY <1>3 DEF Tick, vars
  <2> QED
    BY <2>1, OtherStep DEF LockInv
<1> QED
  BY <1>1, <1>2, <1>3 DEF Next

\* A lock built from hsa_signal_cas_* or hsa_signal_exchange_*, whose callers
\* take the value those return to tell whether it was free, is held by one
\* locker at a time, and no increment made under it with hsa_signal_load_* and
\* hsa_signal_store_* is lost, however many lockers there are and however often
\* the counter wraps.
THEOREM LockCounts == Spec => []LockedCount
<1>1. LockInv => LockedCount
  BY DEF LockInv, LockedCount
<1> QED
  BY <1>1, InitLock, NextLock, PTL DEF Spec

----------------------------------------------------------------------------
(* The inductive invariant of types, announcements, copies and waits.      *)

CopierSteps == {"deps", "wait", "check", "waited", "signal", "end"}
WaiterSteps == {"choose", "wait", "check", "waited"}
InWait(t) == pc[t] \in {"wait", "check", "waited"}

\* A thread in a wait is in the wait it has chosen, or in that for the
\* dep_signal it has come to.
PlaceInv ==
  /\ \A t \in Lockers : pc[t] \in LockerSteps
  /\ \A t \in Copiers : pc[t] \in CopierSteps
  /\ \A t \in Waiters : pc[t] \in WaiterSteps
  /\ \A t \in Copiers : InWait(t) => dep[t] <= Len(Deps) /\ wait[t] = DepWait(Deps[dep[t]])
  /\ \A t \in Copiers : pc[t] \in {"signal", "end"} => dep[t] = Len(Deps) + 1
  /\ \A t \in Waiters : InWait(t) => wait[t] \in Waits
TypeInv == TypeOK /\ PlaceInv

\* "join" holds what is left to announce, as a number or as a set of bits.
Left == {t \in Lockers : pc[t] # "end"}
JoinInv ==
  /\ how = "subtract" => value["join"] = Wrap(Cardinality(Left))
  /\ how = "add" => value["join"] = Wrap(- Cardinality(Left))
  /\ how \in {"xor", "and"} => Bits(value["join"]) = {BitOf[l] : l \in Left}

\* "mask" has the bits of those who have set theirs.
Flagged == {t \in Lockers : pc[t] \in {"join", "end"}}
MaskInv == Bits(value["mask"]) = {BitOf[l] : l \in Flagged}

\* "done" is what the client gave it until a copy is made.
DoneInv ==
  /\ value["done"] \in {0, DoneInit}
  /\ value["done"] = 0 => \E c \in Copiers : pc[c] = "end"

\* A copier that has seen 0 in "join" has seen its last value.
AwaitsJoin == \E i \in 1 .. Len(Deps) : Deps[i] = "join"
CopyGood(t) ==
  /\ pc[t] = "waited" => seen[t] = 0
  /\ pc[t] \in {"check", "waited"} /\ wait[t].sig = "join" /\ seen[t] = 0 => Left = {}
  /\ \A i \in 1 .. Len(Deps) : Deps[i] = "join" /\ i < dep[t] => Left = {}
  /\ AwaitsJoin /\ pc[t] \in {"signal", "end"} =>
       Left = {} /\ copied[t] = Wrap(Cardinality(Lockers))
CopyInv == \A t \in Copiers : CopyGood(t)

\* A wait that was given up was given up after its time.
TimeGood(t) == pc[t] = "waited" => Met(t) \/ TimedOut(t)
TimeInv == \A t \in Waiters : TimeGood(t)

\* What waits are about that stays true: a copy is made, a bit of the mask is
\* set, or all of them; the bits are not the sign's.
LastingWait(w) ==
  \/ w.sig = "done" /\ Holds(w.cond, w.compare, 0) /\ ~ Holds(w.cond, w.compare, DoneInit)
  \/ w.sig = "mask" /\ w.cond = "NE" /\ w.compare = 0
  \/ w.sig = "mask" /\ w.cond = "GTE" /\ w.compare = AllBits
LastingWaits ==
  /\ \A w \in Waits : LastingWait(w)
  /\ \A l \in Lockers : BitOf[l] # Width - 1

\* What a wait has seen is still so.
MetGood(t) ==
  pc[t] \in {"check", "waited"} /\ Met(t) =>
    /\ wait[t].sig = "done" => value["done"] = 0
    /\ wait[t].sig = "mask" /\ wait[t].cond = "NE" => value["mask"] # 0
    /\ wait[t].sig = "mask" /\ wait[t].cond = "GTE" =>
         value["mask"] >= AllBits /\ Flagged = Lockers
MetInv == \A t \in Waiters : MetGood(t)

----------------------------------------------------------------------------
(* Types.                                                                  *)

\* The values are integers, among them 0 and 1, and the operations yield values.
LEMMA ValuesAre ==
  /\ Values \subseteq Int /\ 0 \in Values /\ 1 \in Values
  /\ MaxDuration \in Nat /\ UINT64_MAX \in Nat
  /\ \A x \in Int : Wrap(x) \in Values
<1>1. \A x \in Int : Wrap(x) \in Values
  <2>1. 0 \in Int
    OBVIOUS
  <2> QED
    BY <2>1, WrapPlus
<1>2. PICK h \in Nat : h = Half /\ h >= 2
  BY HalfIs
<1> QED
  BY <1>1, <1>2 DEF Values, MaxDuration, UINT64_MAX

\* The bitwise operations, bit by bit.
LEMMA FetchBits ==
  ASSUME NEW x, NEW y
  PROVE  /\ FetchAnd(x, y) \in Values /\ Bits(FetchAnd(x, y)) = Bits(x) \cap Bits(y)
         /\ FetchOr(x, y) \in Values /\ Bits(FetchOr(x, y)) = Bits(x) \cup Bits(y)
         /\ FetchXor(x, y) \in Values
         /\ Bits(FetchXor(x, y)) = (Bits(x) \ Bits(y)) \cup (Bits(y) \ Bits(x))
<1>1. Bits(x) \subseteq Positions /\ Bits(y) \subseteq Positions
  BY DEF Bits
<1>2. FetchAnd(x, y) \in Values /\ Bits(FetchAnd(x, y)) = Bits(x) \cap Bits(y)
  <2>1. Bits(x) \cap Bits(y) \in SUBSET Positions
    BY <1>1
  <2> QED
    BY <2>1, OfBitsIs DEF FetchAnd
<1>3. FetchOr(x, y) \in Values /\ Bits(FetchOr(x, y)) = Bits(x) \cup Bits(y)
  <2>1. Bits(x) \cup Bits(y) \in SUBSET Positions
    BY <1>1
  <2> QED
    BY <2>1, OfBitsIs DEF FetchOr
<1>4. /\ FetchXor(x, y) \in Values
      /\ Bits(FetchXor(x, y)) = (Bits(x) \ Bits(y)) \cup (Bits(y) \ Bits(x))
  <2>1. (Bits(x) \ Bits(y)) \cup (Bits(y) \ Bits(x)) \in SUBSET Positions
    BY <1>1
  <2> QED
    BY <2>1, OfBitsIs DEF FetchXor
<1> QED
  BY <1>2, <1>3, <1>4

\* The operand of a locker has his bit alone.
LEMMA OperandBits ==
  ASSUME NEW t \in Lockers
  PROVE  /\ Operand(t) \in Values /\ Bits(Operand(t)) = {BitOf[t]}
         /\ Bits(- Operand(t) - 1) = Positions \ {BitOf[t]}
<1>1. BitOf[t] \in Positions /\ BitOf[t] \in Nat
  BY SignalAssumption DEF Positions
<1>2. Power[BitOf[t]] \in Int
  BY <1>1, PowerIs
<1>3. Operand(t) \in Values /\ Bits(Operand(t)) = {BitOf[t]}
  BY <1>1, <1>2, WrapBits, PowerBits, ValuesAre DEF Operand
<1>4. Operand(t) \in Int
  BY <1>3, ValuesAre
<1> QED
  BY <1>3, <1>4, ComplementBits

\* All bits together.
LEMMA AllBitsAre == AllBits \in Values /\ Bits(AllBits) = {BitOf[l] : l \in Lockers}
<1>1. {BitOf[l] : l \in Lockers} \in SUBSET Positions
  BY SignalAssumption DEF Positions
<1> QED
  BY <1>1, OfBitsIs DEF AllBits

\* The period of a wait is a duration.
LEMMA PeriodType ==
  ASSUME TypeOK, NEW t \in Threads
  PROVE  /\ wait[t].timeout \in 0 .. UINT64_MAX
         /\ ToStdPeriod(wait[t].timeout) \in Int
         /\ ToStdPeriod(wait[t].timeout) <= MaxDuration
<1>1. wait[t] \in Waits \cup {NoWait} \cup {DepWait(s) : s \in Names}
  BY DEF TypeOK
<1>2. wait[t].timeout \in 0 .. UINT64_MAX
  <2>1. CASE wait[t] \in Waits
    BY <2>1, SignalAssumption
  <2>2. CASE wait[t] = NoWait
    BY <2>2, ValuesAre DEF NoWait
  <2>3. CASE \E s \in Names : wait[t] = DepWait(s)
    BY <2>3, ValuesAre DEF DepWait
  <2> QED
    BY <1>1, <2>1, <2>2, <2>3
<1>3. wait[t].timeout \in Int
  BY <1>2, ValuesAre
<1>4. Wrap(wait[t].timeout) \in Values
  BY <1>3, ValuesAre
<1>5. MaxDuration \in Int /\ \A x \in Values : x \in Int /\ x <= MaxDuration
  BY HalfIs DEF Values, MaxDuration
<1> QED
  BY <1>2, <1>4, <1>5 DEF ToStdPeriod

\* The types hold at the beginning.
LEMMA InitType == Init => TypeInv
<1> SUFFICES ASSUME Init PROVE TypeInv
  OBVIOUS
<1>1. Cardinality(Lockers) \in Int /\ - Cardinality(Lockers) \in Int
  BY SignalAssumption, FS_CardinalityType
<1>2. JoinInit(how) \in Values
  BY <1>1, ValuesAre, AllBitsAre DEF Init, JoinInit
<1>3. value \in [Names -> Values]
  <2>1. DoneInit \in Values
    BY SignalAssumption
  <2> QED
    BY <1>2, <2>1, ValuesAre DEF Init
<1>4. \A t \in Threads : pc[t] = IF t \in Lockers THEN "acquire"
                                 ELSE IF t \in Copiers THEN "deps" ELSE "choose"
  BY DEF Init
<1>5. pc \in [Threads -> {"acquire", "load", "store", "unlock", "flag", "join", "end",
                          "deps", "choose", "wait", "check", "waited", "signal"}]
  BY DEF Init
<1>6. 0 \in Values /\ 0 \in 0 .. MaxDuration
  BY ValuesAre
<1>7. 1 \in 1 .. Len(Deps) + 1
  BY SignalAssumption
<1>8. TypeOK
  BY <1>3, <1>5, <1>6, <1>7 DEF Init, TypeOK
<1>9. PlaceInv
  BY <1>4, SignalAssumption DEF PlaceInv, InWait, LockerSteps, CopierSteps, WaiterSteps, Threads
<1> QED
  BY <1>8, <1>9 DEF TypeInv

\* What a thread's step leaves alone.
LEMMA Moves ==
  ASSUME TypeInv, NEW t \in Threads, NEW from, NEW to, Goto(t, from, to)
  PROVE  /\ pc[t] = from /\ pc'[t] = to
         /\ \A u \in Threads \ {t} : pc'[u] = pc[u]
         /\ to \in LockerSteps \cup CopierSteps \cup WaiterSteps =>
              pc' \in [Threads -> {"acquire", "load", "store", "unlock", "flag", "join", "end",
                                   "deps", "choose", "wait", "check", "waited", "signal"}]
BY DEF TypeInv, TypeOK, Goto, LockerSteps, CopierSteps, WaiterSteps

\* A step of a locker.
LEMMA LockerType ==
  ASSUME TypeInv, NEW t \in Lockers, Locker(t)
  PROVE  TypeInv'
<1>0. t \in Threads /\ TypeOK /\ PlaceInv
  BY DEF Threads, TypeInv
<1>1. PICK from, to \in LockerSteps : Goto(t, from, to)
  BY DEF Locker, AcquireByCas, AcquireByExchange, LoadCount, StoreCount, Unlock, Flag, Join,
         LockerSteps
<1>2. UNCHANGED <<how, dep, wait, elapsed, copied>>
  BY DEF Locker, AcquireByCas, AcquireByExchange, LoadCount, StoreCount, Unlock, Flag, Join
<1>3. \A s \in Names : value[s] \in Values /\ value[s] \in Int
  BY <1>0, ValuesAre DEF TypeOK
<1>4. \A u \in Threads : seen[u] \in Values /\ seen[u] \in Int
  BY <1>0, ValuesAre DEF TypeOK
<1>5. value' \in [Names -> Values]
  <2>1. CASE AcquireByCas(t) \/ AcquireByExchange(t) \/ Unlock(t)
    BY <1>0, <1>3, <2>1, ValuesAre
    DEF AcquireByCas, AcquireByExchange, Unlock, compareExchange, exchange, store,
        CompareExchange, Exchange, TypeOK
  <2>2. CASE LoadCount(t)
    BY <1>0, <2>2 DEF LoadCount, TypeOK
  <2>3. CASE StoreCount(t)
    <3>1. Wrap(seen[t] + 1) \in Values
      BY <1>0, <1>4, ValuesAre
    <3> QED
      BY <1>0, <2>3, <3>1 DEF StoreCount, store, TypeOK
  <2>4. CASE Flag(t)
    BY <1>0, <2>4, FetchBits DEF Flag, or_, TypeOK
  <2>5. CASE Join(t)
    <3>1. Wrap(value["join"] - 1) \in Values /\ Wrap(value["join"] + 1) \in Values
      BY <1>3, ValuesAre DEF Names
    <3>2. PICK x \in Values : value' = [value EXCEPT !["join"] = x]
      BY <2>5, <3>1, FetchBits
      DEF Join, subtract, add, xor_, and_, FetchSub, FetchAdd
    <3> QED
      BY <1>0, <3>2 DEF TypeOK
  <2> QED
    BY <2>1, <2>2, <2>3, <2>4, <2>5 DEF Locker
<1>6. seen' \in [Threads -> Values]
  <2>1. CASE LoadCount(t)
    BY <1>0, <1>3, <2>1 DEF LoadCount, TypeOK, Names
  <2>2. CASE ~ LoadCount(t)
    BY <1>0, <2>2
    DEF Locker, AcquireByCas, AcquireByExchange, StoreCount, Unlock, Flag, Join, TypeOK
  <2> QED
    BY <2>1, <2>2
<1>7. /\ pc'[t] \in LockerSteps /\ \A u \in Threads \ {t} : pc'[u] = pc[u]
      /\ pc' \in [Threads -> {"acquire", "load", "store", "unlock", "flag", "join", "end",
                              "deps", "choose", "wait", "check", "waited", "signal"}]
  BY <1>0, <1>1, Moves
<1>8. TypeOK'
  BY <1>0, <1>2, <1>5, <1>6, <1>7 DEF TypeOK
<1>9. PlaceInv'
  <2>1. \A u \in Copiers \cup Waiters : pc'[u] = pc[u]
    BY <1>7, SignalAssumption DEF Threads
  <2>2. \A u \in Lockers : pc'[u] \in LockerSteps
    BY <1>0, <1>7 DEF PlaceInv, Threads
  <2> QED
    BY <1>0, <1>2, <2>1, <2>2 DEF PlaceInv, InWait
<1> QED
  BY <1>8, <1>9 DEF TypeInv

\* A load or a check in a wait.
LEMMA LookType ==
  ASSUME TypeInv, NEW t \in Copiers \cup Waiters, WaitLoad(t) \/ WaitCheck(t)
  PROVE  TypeInv'
<1>0. t \in Threads /\ TypeOK /\ PlaceInv /\ t \notin Lockers
  BY SignalAssumption DEF Threads, TypeInv
<1>1. PICK from \in {"wait", "check"}, to \in {"wait", "check", "waited"} : Goto(t, from, to)
  BY DEF WaitLoad, WaitCheck
<1>2. UNCHANGED <<value, how, dep, wait, elapsed, copied>>
  BY DEF WaitLoad, WaitCheck
<1>3. /\ pc[t] = from /\ pc'[t] = to
      /\ \A u \in Threads \ {t} : pc'[u] = pc[u]
      /\ pc' \in [Threads -> {"acquire", "load", "store", "unlock", "flag", "join", "end",
                              "deps", "choose", "wait", "check", "waited", "signal"}]
  BY <1>0, <1>1, Moves DEF CopierSteps
<1>4. wait[t].sig \in Names
  <2>1. CASE t \in Copiers
    <3>1. dep[t] \in 1 .. Len(Deps) /\ wait[t] = DepWait(Deps[dep[t]])
      BY <1>0, <1>1, <1>3, <2>1, SignalAssumption DEF PlaceInv, InWait, TypeOK
    <3>2. Deps[dep[t]] \in Names
      BY <3>1, SignalAssumption
    <3> QED
      BY <3>1, <3>2 DEF DepWait
  <2>2. CASE t \in Waiters
    <3>1. wait[t] \in Waits
      BY <1>0, <1>1, <1>3, <2>2 DEF PlaceInv, InWait
    <3> QED
      BY <3>1, SignalAssumption
  <2> QED
    BY <2>1, <2>2
<1>5. seen' \in [Threads -> Values]
  BY <1>0, <1>4 DEF WaitLoad, WaitCheck, TypeOK
<1>6. TypeOK'
  BY <1>0, <1>2, <1>3, <1>5 DEF TypeOK
<1>7. PlaceInv'
  <2>1. \A u \in Lockers : pc'[u] = pc[u]
    BY <1>0, <1>3 DEF Threads
  <2>2. \A u \in Copiers \cup Waiters : u # t => pc'[u] = pc[u]
    BY <1>3 DEF Threads
  <2>3. \A u \in Copiers \cup Waiters : InWait(u)' => InWait(u)
    BY <1>1, <1>3, <2>2 DEF InWait
  <2>4. \A u \in Copiers : pc'[u] \in CopierSteps
                           /\ (pc'[u] \in {"signal", "end"} => pc[u] = pc'[u])
    BY <1>0, <1>1, <1>3, <2>2 DEF PlaceInv, CopierSteps
  <2>5. \A u \in Waiters : pc'[u] \in WaiterSteps
    BY <1>0, <1>1, <1>3, <2>2 DEF PlaceInv, WaiterSteps
  <2> QED
    BY <1>0, <1>2, <2>1, <2>3, <2>4, <2>5 DEF PlaceInv
<1> QED
  BY <1>6, <1>7 DEF TypeInv
\* The other steps of a copier.
LEMMA CopierType ==
  ASSUME TypeInv, NEW t \in Copiers, WaitDep(t) \/ NextDep(t) \/ Copy(t) \/ SignalDone(t)
  PROVE  TypeInv'
<1>0. t \in Threads /\ TypeOK /\ PlaceInv /\ t \notin Lockers /\ t \notin Waiters
  BY SignalAssumption DEF Threads, TypeInv
<1>1. PICK from, to \in CopierSteps : Goto(t, from, to)
  BY DEF WaitDep, StartWait, NextDep, Copy, SignalDone, CopierSteps
<1>2. /\ pc[t] = from /\ pc'[t] = to
      /\ \A u \in Threads \ {t} : pc'[u] = pc[u]
      /\ pc' \in [Threads -> {"acquire", "load", "store", "unlock", "flag", "join", "end",
                              "deps", "choose", "wait", "check", "waited", "signal"}]
  BY <1>0, <1>1, Moves
<1>3. dep[t] \in 1 .. Len(Deps) + 1 /\ Len(Deps) \in Nat
  BY <1>0, SignalAssumption DEF TypeOK
<1>4. UNCHANGED <<how, seen>> /\ value' \in [Names -> Values]
  BY <1>0, ValuesAre DEF WaitDep, NextDep, Copy, SignalDone, store, TypeOK
<1>5. copied' \in [Copiers -> Values]
  BY <1>0 DEF WaitDep, NextDep, Copy, SignalDone, TypeOK, Names
<1>6. elapsed' \in [Threads -> 0 .. MaxDuration]
  <2>1. 0 \in 0 .. MaxDuration
    BY ValuesAre
  <2>2. elapsed' = elapsed \/ elapsed' = [elapsed EXCEPT ![t] = 0]
    BY DEF WaitDep, StartWait, NextDep, Copy, SignalDone
  <2> QED
    BY <1>0, <2>1, <2>2 DEF TypeOK
<1>7. /\ WaitDep(t) => Deps[dep[t]] \in Names /\ dep[t] <= Len(Deps)
      /\ NextDep(t) => dep[t] <= Len(Deps)
  <2>1. WaitDep(t) => dep[t] \in 1 .. Len(Deps)
    BY <1>3 DEF WaitDep
  <2>2. NextDep(t) => dep[t] <= Len(Deps)
    BY <1>0 DEF NextDep, Goto, PlaceInv, InWait
  <2> QED
    BY <1>3, <2>1, <2>2, SignalAssumption
<1>8. /\ wait' \in [Threads -> Waits \cup {NoWait} \cup {DepWait(s) : s \in Names}]
      /\ \A u \in Threads \ {t} : wait'[u] = wait[u]
      /\ wait'[t] = IF WaitDep(t) THEN DepWait(Deps[dep[t]]) ELSE wait[t]
  <2>1. CASE WaitDep(t)
    BY <1>0, <1>7, <2>1 DEF WaitDep, StartWait, TypeOK
  <2>2. CASE ~ WaitDep(t)
    BY <1>0, <2>2 DEF NextDep, Copy, SignalDone, TypeOK
  <2> QED
    BY <2>1, <2>2
<1>9. /\ dep' \in [Copiers -> 1 .. Len(Deps) + 1]
      /\ \A u \in Copiers \ {t} : dep'[u] = dep[u]
      /\ dep'[t] = IF NextDep(t) THEN dep[t] + 1 ELSE dep[t]
  <2>1. CASE NextDep(t)
    BY <1>0, <1>3, <1>7, <2>1 DEF NextDep, TypeOK
  <2>2. CASE ~ NextDep(t)
    BY <1>0, <2>2 DEF WaitDep, Copy, SignalDone, TypeOK
  <2> QED
    BY <2>1, <2>2
<1>10. TypeOK'
  BY <1>0, <1>2, <1>4, <1>5, <1>6, <1>8, <1>9 DEF TypeOK
<1>11. PlaceInv'
  <2>1. \A u \in Lockers \cup Waiters : pc'[u] = pc[u] /\ wait'[u] = wait[u]
    BY <1>0, <1>2, <1>8 DEF Threads
  <2>2. \A u \in Copiers \ {t} : pc'[u] = pc[u] /\ wait'[u] = wait[u] /\ dep'[u] = dep[u]
    BY <1>2, <1>8, <1>9 DEF Threads
  <2>3. pc'[t] \in CopierSteps
    BY <1>1, <1>2
  <2>4. InWait(t)' => dep'[t] <= Len(Deps) /\ wait'[t] = DepWait(Deps[dep'[t]])
    <3>1. InWait(t)' => WaitDep(t) /\ ~ NextDep(t)
      <4>1. NextDep(t) \/ Copy(t) \/ SignalDone(t) => pc'[t] \in {"deps", "signal", "end"}
        BY <1>0, Moves DEF NextDep, Copy, SignalDone
      <4> QED
        BY <4>1 DEF InWait
    <3> QED
      BY <1>7, <1>8, <1>9, <3>1
  <2>5. pc'[t] \in {"signal", "end"} => dep'[t] = Len(Deps) + 1
    <3>1. CASE Copy(t)
      <4>1. dep[t] > Len(Deps) /\ dep'[t] = dep[t]
        BY <3>1 DEF Copy
      <4> QED
        BY <1>3, <4>1
    <3>2. CASE SignalDone(t)
      BY <1>0, <3>2 DEF SignalDone, Goto, PlaceInv
    <3>3. CASE WaitDep(t) \/ NextDep(t)
      <4>1. pc'[t] \in {"wait", "deps"}
        BY <1>0, <3>3 DEF WaitDep, StartWait, NextDep, Goto, TypeOK
      <4> QED
        BY <4>1
    <3> QED
      BY <3>1, <3>2, <3>3
  <2>6. \A u \in Copiers : u = t \/ u \in Copiers \ {t}
    OBVIOUS
  <2>7. \A u \in Copiers : pc'[u] \in CopierSteps
    BY <1>0, <2>2, <2>3, <2>6 DEF PlaceInv
  <2>8. \A u \in Copiers : InWait(u)' =>
          dep'[u] <= Len(Deps) /\ wait'[u] = DepWait(Deps[dep'[u]])
    BY <1>0, <2>2, <2>4, <2>6 DEF PlaceInv, InWait
  <2>9. \A u \in Copiers : pc'[u] \in {"signal", "end"} => dep'[u] = Len(Deps) + 1
    BY <1>0, <2>2, <2>5, <2>6 DEF PlaceInv
  <2>10. /\ \A u \in Lockers : pc'[u] \in LockerSteps
         /\ \A u \in Waiters : pc'[u] \in WaiterSteps /\ (InWait(u)' => wait'[u] \in Waits)
    BY <1>0, <2>1 DEF PlaceInv, InWait
  <2> QED
    BY <2>7, <2>8, <2>9, <2>10 DEF PlaceInv
<1> QED
  BY <1>10, <1>11 DEF TypeInv

\* A waiter begins to wait.
LEMMA CallWaitType ==
  ASSUME TypeInv, NEW t \in Waiters, CallWait(t)
  PROVE  TypeInv'
<1>0. t \in Threads /\ TypeOK /\ PlaceInv /\ t \notin Lockers /\ t \notin Copiers
  BY SignalAssumption DEF Threads, TypeInv
<1>1. PICK w \in Waits : StartWait(t, "choose", w)
  BY DEF CallWait
<1>2. /\ pc'[t] = "wait"
      /\ \A u \in Threads \ {t} : pc'[u] = pc[u]
      /\ pc' \in [Threads -> {"acquire", "load", "store", "unlock", "flag", "join", "end",
                              "deps", "choose", "wait", "check", "waited", "signal"}]
  BY <1>0, <1>1, Moves DEF StartWait, WaiterSteps
<1>3. UNCHANGED <<value, how, seen, dep, copied>>
  BY DEF CallWait
<1>4. /\ wait' \in [Threads -> Waits \cup {NoWait} \cup {DepWait(s) : s \in Names}]
      /\ wait'[t] = w /\ \A u \in Threads \ {t} : wait'[u] = wait[u]
      /\ elapsed' \in [Threads -> 0 .. MaxDuration]
  BY <1>0, <1>1, ValuesAre DEF StartWait, TypeOK
<1>5. TypeOK'
  BY <1>0, <1>2, <1>3, <1>4 DEF TypeOK
<1>6. \A u \in Lockers \cup Copiers \cup (Waiters \ {t}) : pc'[u] = pc[u] /\ wait'[u] = wait[u]
  BY <1>0, <1>2, <1>4 DEF Threads
<1>7. PlaceInv'
  <2>1. \A u \in Waiters : pc'[u] \in WaiterSteps /\ (InWait(u)' => wait'[u] \in Waits)
    BY <1>0, <1>1, <1>2, <1>4, <1>6 DEF PlaceInv, InWait, WaiterSteps
  <2> QED
    BY <1>0, <1>3, <1>6, <2>1 DEF PlaceInv, InWait
<1> QED
  BY <1>5, <1>7 DEF TypeInv

\* The clock stays within a duration: it runs only below it.
LEMMA TickType ==
  ASSUME TypeInv, Tick
  PROVE  TypeInv'
<1>1. ASSUME NEW t \in Threads, Running(t) PROVE elapsed[t] + 1 \in 0 .. MaxDuration
  <2>1. elapsed[t] \in 0 .. MaxDuration /\ TypeOK
    BY DEF TypeInv, TypeOK
  <2>2. ~ (elapsed[t] > ToStdPeriod(wait[t].timeout)) /\ ToStdPeriod(wait[t].timeout) < MaxDuration
    BY <1>1 DEF Running, TimedOut
  <2> QED
    BY <2>1, <2>2, PeriodType, ValuesAre
<1>2. elapsed' \in [Threads -> 0 .. MaxDuration]
  BY <1>1 DEF Tick, TypeInv, TypeOK
<1>3. TypeOK'
  BY <1>2 DEF Tick, TypeInv, TypeOK
<1> QED
  BY <1>3 DEF Tick, TypeInv, PlaceInv, InWait

\* Every step preserves the types.
LEMMA NextType == TypeInv /\ [Next]_vars => TypeInv'
<1> SUFFICES ASSUME TypeInv, [Next]_vars PROVE TypeInv'
  OBVIOUS
<1>1. CASE \E t \in Lockers : Locker(t)
  BY <1>1, LockerType
<1>2. CASE \E t \in Waiters : Waiter(t)
  BY <1>2, LookType, CallWaitType DEF Waiter
<1>3. CASE \E t \in Copiers : Copier(t)
  BY <1>3, LookType, CopierType DEF Copier
<1>4. CASE Tick
  BY <1>4, TickType
<1>5. CASE UNCHANGED vars
  BY <1>5 DEF vars, TypeInv, TypeOK, PlaceInv, InWait
<1> QED
  BY <1>1, <1>2, <1>3, <1>4, <1>5 DEF Next

\* What GCCBuiltinSignal's operations compute stays a signed number of Width
\* bits, for any number of threads that use them, and a wait is in time: no
\* wait's clock exceeds the largest duration.
THEOREM SignalTypes == Spec => []TypeOK
<1>1. TypeInv => TypeOK
  BY DEF TypeInv
<1> QED
  BY <1>1, InitType, NextType, PTL DEF Spec
----------------------------------------------------------------------------
(* Announcements.                                                          *)

\* What most steps leave alone: the announcements and the copies made.
SignalsStay ==
  /\ \A s \in {"join", "mask", "done"} : value'[s] = value[s]
  /\ how' = how
  /\ \A u \in Lockers : /\ pc'[u] = "end" <=> pc[u] = "end"
                        /\ pc'[u] \in {"join", "end"} <=> pc[u] \in {"join", "end"}
  /\ \A u \in Copiers : pc[u] = "end" => pc'[u] = "end"

\* All but three kinds of steps do.
LEMMA Kinds ==
  ASSUME TypeInv, [Next]_vars
  PROVE  \/ SignalsStay
         \/ \E t \in Lockers : Join(t) \/ Flag(t)
         \/ \E t \in Copiers : SignalDone(t)
<1>0. TypeOK /\ DOMAIN value = Names /\ DOMAIN pc = Threads
  BY DEF TypeInv, TypeOK
<1>1. ASSUME NEW t \in Lockers, Locker(t), ~ Join(t), ~ Flag(t) PROVE SignalsStay
  <2>1. PICK from \in {"acquire", "load", "store", "unlock"},
             to \in {"acquire", "load", "store", "unlock", "flag"} : Goto(t, from, to)
    BY <1>1 DEF Locker, AcquireByCas, AcquireByExchange, LoadCount, StoreCount, Unlock
  <2>2. t \in Threads /\ t \notin Copiers
    BY SignalAssumption DEF Threads
  <2>3. pc[t] = from /\ pc'[t] = to /\ \A u \in Threads \ {t} : pc'[u] = pc[u]
    BY <2>1, <2>2, Moves
  <2>4. how' = how /\ (value' = value \/ \E s \in {"lock", "count"} : \E x :
                         value' = [value EXCEPT ![s] = x])
    BY <1>1 DEF Locker, AcquireByCas, AcquireByExchange, LoadCount, StoreCount, Unlock,
                compareExchange, exchange, store
  <2>5. \A s \in {"join", "mask", "done"} : value'[s] = value[s]
    BY <1>0, <2>4 DEF Names
  <2> QED
    BY <2>1, <2>2, <2>3, <2>4, <2>5 DEF SignalsStay, Threads
<1>2. ASSUME NEW t \in Copiers \cup Waiters, Waiter(t) \/ (Copier(t) /\ ~ SignalDone(t))
      PROVE  SignalsStay
  <2>1. PICK from \in {"choose", "deps", "wait", "check", "waited"} : \E to : Goto(t, from, to)
    BY <1>2 DEF Waiter, Copier, CallWait, StartWait, WaitLoad, WaitCheck, WaitDep, NextDep, Copy
  <2>2. t \in Threads /\ t \notin Lockers
    BY SignalAssumption DEF Threads
  <2>3. pc[t] = from /\ \A u \in Threads \ {t} : pc'[u] = pc[u]
    BY <2>1, <2>2, Moves
  <2>4. UNCHANGED <<value, how>>
    BY <1>2 DEF Waiter, Copier, CallWait, WaitLoad, WaitCheck, WaitDep, NextDep, Copy
  <2> QED
    BY <2>1, <2>2, <2>3, <2>4 DEF SignalsStay, Threads
<1>3. CASE Tick \/ UNCHANGED vars
  BY <1>3 DEF Tick, vars, SignalsStay
<1>4. CASE \E t \in Lockers : Locker(t)
  BY <1>1, <1>4
<1>5. CASE (\E t \in Waiters : Waiter(t)) \/ (\E t \in Copiers : Copier(t))
  BY <1>2, <1>5
<1> QED
  BY <1>3, <1>4, <1>5 DEF Next

\* The steps of the announcement.
LEMMA AnnounceEffect ==
  ASSUME TypeInv, NEW t \in Lockers, Join(t) \/ Flag(t)
  PROVE  /\ Join(t) => pc[t] = "join" /\ pc'[t] = "end"
         /\ Flag(t) => pc[t] = "flag" /\ pc'[t] = "join"
         /\ \A u \in Threads \ {t} : pc'[u] = pc[u]
         /\ how' = how
         /\ \E s \in {"join", "mask"} : \E x :
              value' = [value EXCEPT ![s] = x] /\ (s = "join" <=> Join(t))
<1>1. t \in Threads /\ TypeOK
  BY DEF Threads, TypeInv
<1>2. /\ Join(t) => pc[t] = "join" /\ pc'[t] = "end"
      /\ Flag(t) => pc[t] = "flag" /\ pc'[t] = "join"
      /\ \A u \in Threads \ {t} : pc'[u] = pc[u]
  BY <1>1, Moves DEF Join, Flag
<1>3. ~ (Join(t) /\ Flag(t))
  BY <1>2
<1> QED
  BY <1>2, <1>3 DEF Join, Flag, subtract, add, xor_, and_, or_

\* A copy is announced.
LEMMA DoneEffect ==
  ASSUME TypeInv, NEW t \in Copiers, SignalDone(t)
  PROVE  /\ pc[t] = "signal" /\ pc'[t] = "end"
         /\ \A u \in Threads \ {t} : pc'[u] = pc[u]
         /\ t \in Threads \ (Lockers \cup Waiters)
         /\ value' = [value EXCEPT !["done"] = 0] /\ DOMAIN value = Names
         /\ UNCHANGED <<how, seen, dep, wait, elapsed, copied>>
<1>1. t \in Threads \ (Lockers \cup Waiters) /\ TypeOK
  BY SignalAssumption DEF Threads, TypeInv
<1>2. /\ pc[t] = "signal" /\ pc'[t] = "end"
      /\ \A u \in Threads \ {t} : pc'[u] = pc[u]
  BY <1>1, Moves DEF SignalDone
<1> QED
  BY <1>1, <1>2 DEF SignalDone, store, TypeOK

\* The lockers are fewer than the values.
LEMMA LockersFit == Cardinality(Lockers) \in Nat /\ Cardinality(Lockers) < 2 * Half
<1>1. Width \in Nat /\ Width - 1 \in Int
  BY SignalAssumption
<1>2. IsFiniteSet(0 .. Width - 1) /\ Cardinality(0 .. Width - 1) = Width
  BY <1>1, SignalAssumption, FS_Interval
<1>3. BitOf \in Injection(Lockers, 0 .. Width - 1)
  <2>1. BitOf \in [Lockers -> 0 .. Width - 1] /\ \A a, b \in Lockers : BitOf[a] = BitOf[b] => a = b
    BY SignalAssumption
  <2> QED
    BY <2>1 DEF Injection, IsInjective
<1>4. Cardinality(Lockers) <= Width
  BY <1>2, <1>3, FS_Injection
<1> DEFINE S == {n \in Nat : n < Power[n]}
<1>5. Width \in S
  <2>1. 0 \in S
    BY PowerIs
  <2>2. ASSUME NEW n \in Nat, n \in S PROVE n + 1 \in S
    <3>1. PICK p \in Nat : p = Power[n] /\ Power[n + 1] = 2 * p
      BY PowerIs
    <3> QED
      BY <2>2, <3>1
  <2> HIDE DEF S
  <2> QED
    BY <1>1, <2>1, <2>2, Induction
<1>6. Cardinality(Lockers) \in Nat
  BY SignalAssumption, FS_CardinalityType
<1> QED
  BY <1>1, <1>4, <1>5, <1>6, HalfIs

\* The number of those who are left is known from "join".
LEMMA WrapIsZero ==
  ASSUME NEW n \in Nat, n < 2 * Half, Wrap(n) = 0 \/ Wrap(- n) = 0
  PROVE  n = 0
<1>1. PICK h \in Nat \ {0} : h = Half
  BY HalfIs
<1>2. ASSUME NEW x \in Int, Wrap(x) = 0 PROVE \E q \in Int : x = (2 * h) * q
  <2>1. x + h \in Int /\ 2 * h \in Nat \ {0}
    BY <1>1
  <2>2. PICK q \in Int, r \in 0 .. (2 * h) - 1 : x + h = ((2 * h) * q) + r /\ (x + h) % (2 * h) = r
    BY <2>1, DivMod
  <2>3. r = h
    BY <1>1, <1>2, <2>2 DEF Wrap
  <2> QED
    BY <2>2, <2>3
<1>3. PICK q \in Int : n = (2 * h) * q
  <2>1. CASE Wrap(n) = 0
    BY <1>2, <2>1
  <2>2. CASE Wrap(- n) = 0
    <3>1. PICK q \in Int : - n = (2 * h) * q
      BY <1>2, <2>2
    <3>2. n = (2 * h) * (- q) /\ - q \in Int
      BY <3>1
    <3> QED
      BY <3>2
  <2> QED
    BY <2>1, <2>2
<1>4. CASE q >= 1
  <2>1. (2 * h) * q >= 2 * h
    BY <1>4
  <2> QED
    BY <1>1, <1>3, <2>1
<1>5. CASE q <= -1
  <2>1. (2 * h) * (- q) >= 2 * h /\ (2 * h) * (- q) = - ((2 * h) * q)
    BY <1>5
  <2> QED
    BY <1>1, <1>3, <2>1
<1>6. CASE q = 0
  BY <1>3, <1>6
<1> QED
  BY <1>4, <1>5, <1>6

\* 0 is the last value of "join".
LEMMA JoinZero ==
  ASSUME TypeInv, JoinInv, value["join"] = 0
  PROVE  Left = {}
<1>1. IsFiniteSet(Left) /\ Cardinality(Left) \in Nat /\ Cardinality(Left) <= Cardinality(Lockers)
  BY SignalAssumption, FS_Subset, FS_CardinalityType DEF Left
<1>2. Cardinality(Left) < 2 * Half
  BY <1>1, LockersFit, HalfIs
<1>3. CASE how \in {"subtract", "add"}
  <2>1. Cardinality(Left) = 0
    BY <1>1, <1>2, <1>3, WrapIsZero DEF JoinInv
  <2> QED
    BY <1>1, <2>1, FS_EmptySet
<1>4. CASE how \in {"xor", "and"}
  <2>1. {BitOf[l] : l \in Left} = {}
    BY <1>4, ZeroBits DEF JoinInv
  <2> QED
    BY <2>1
<1> QED
  BY <1>3, <1>4 DEF TypeInv, TypeOK

\* The signal to join on is what its client made it.
LEMMA InitJoin == Init => JoinInv
<1> SUFFICES ASSUME Init PROVE JoinInv
  OBVIOUS
<1>1. Left = Lockers
  BY DEF Init, Left, Threads
<1>2. value["join"] = JoinInit(how)
  BY DEF Init, Names
<1> QED
  BY <1>1, <1>2, AllBitsAre DEF JoinInv, JoinInit

\* An announcement takes one from "join".
LEMMA JoinStep ==
  ASSUME TypeInv, JoinInv, NEW t \in Lockers, Join(t)
  PROVE  JoinInv'
<1>0. DOMAIN value = Names /\ t \in Threads /\ value["join"] \in Int
  BY ValuesAre DEF TypeInv, TypeOK, Threads, Names
<1>1. pc[t] = "join" /\ pc'[t] = "end" /\ how' = how /\ \A u \in Threads \ {t} : pc'[u] = pc[u]
  BY AnnounceEffect
<1>2. t \in Left /\ Left' = Left \ {t}
  BY <1>1 DEF Left, Threads
<1>3. PICK n \in Int : n = Cardinality(Left) /\ Cardinality(Left') = n - 1
  <2>1. IsFiniteSet(Left)
    BY SignalAssumption, FS_Subset DEF Left
  <2>2. Cardinality(Left) \in Int
    BY <2>1, FS_CardinalityType
  <2>3. Cardinality(Left \ {t}) = Cardinality(Left) - 1
    BY <1>2, <2>1, FS_RemoveElement
  <2>4. Cardinality(Left') = Cardinality(Left) - 1
    BY <1>2, <2>3
  <2> QED
    BY <2>2, <2>4
<1>4. CASE how = "subtract"
  <2>1. value'["join"] = Wrap(value["join"] - 1)
    BY <1>0, <1>4 DEF Join, subtract, FetchSub, Names
  <2>2. value["join"] = Wrap(n)
    BY <1>3, <1>4 DEF JoinInv
  <2>3. -1 \in Int /\ Wrap(n) \in Int
    BY <1>0, <2>2
  <2>4. Wrap(Wrap(n) + (-1)) = Wrap(n + (-1))
    BY <1>3, <2>3, WrapPlus
  <2>5. Wrap(n) + (-1) = Wrap(n) - 1 /\ n + (-1) = n - 1
    BY <1>3, <2>3
  <2>6. value'["join"] = Wrap(Cardinality(Left'))
    BY <1>3, <2>1, <2>2, <2>4, <2>5
  <2> QED
    BY <1>1, <1>4, <2>6 DEF JoinInv
<1>5. CASE how = "add"
  <2>1. value'["join"] = Wrap(value["join"] + 1)
    BY <1>0, <1>5 DEF Join, add, FetchAdd, Names
  <2>2. value["join"] = Wrap(- n)
    BY <1>3, <1>5 DEF JoinInv
  <2>3. - n \in Int /\ 1 \in Int
    BY <1>3
  <2>4. Wrap(Wrap(- n) + 1) = Wrap((- n) + 1)
    BY <2>3, WrapPlus
  <2>5. (- n) + 1 = - (n - 1)
    BY <1>3
  <2>6. value'["join"] = Wrap(- Cardinality(Left'))
    BY <1>3, <2>1, <2>2, <2>4, <2>5
  <2> QED
    BY <1>1, <1>5, <2>6 DEF JoinInv
<1>6. CASE how \in {"xor", "and"}
  <2>1. value'["join"] \in {FetchXor(value["join"], Operand(t)),
                            FetchAnd(value["join"], - Operand(t) - 1)}
    BY <1>0, <1>6 DEF Join, xor_, and_, Names
  <2>2. Bits(value["join"]) = {BitOf[l] : l \in Left} /\ BitOf[t] \in Bits(value["join"])
    BY <1>2, <1>6 DEF JoinInv
  <2>3. Bits(value["join"]) \subseteq Positions
    BY DEF Bits
  <2>4. Bits(value'["join"]) = Bits(value["join"]) \ {BitOf[t]}
    <3>1. CASE value'["join"] = FetchXor(value["join"], Operand(t))
      BY <2>2, <3>1, FetchBits, OperandBits
    <3>2. CASE value'["join"] = FetchAnd(value["join"], - Operand(t) - 1)
      BY <2>3, <3>2, FetchBits, OperandBits
    <3> QED
      BY <2>1, <3>1, <3>2
  <2>5. {BitOf[l] : l \in Left} \ {BitOf[t]} = {BitOf[l] : l \in Left'}
    BY <1>2, SignalAssumption DEF Left
  <2> QED
    BY <1>1, <1>6, <2>2, <2>4, <2>5 DEF JoinInv
<1> QED
  BY <1>4, <1>5, <1>6 DEF TypeInv, TypeOK

\* Every step preserves what "join" holds.
LEMMA NextJoin == TypeInv /\ JoinInv /\ [Next]_vars => JoinInv'
<1> SUFFICES ASSUME TypeInv, JoinInv, [Next]_vars PROVE JoinInv'
  OBVIOUS
<1>0. DOMAIN value = Names
  BY DEF TypeInv, TypeOK
<1>1. CASE SignalsStay
  <2>1. Left' = Left /\ value'["join"] = value["join"] /\ how' = how
    BY <1>1 DEF SignalsStay, Left
  <2> QED
    BY <2>1 DEF JoinInv
<1>2. CASE \E t \in Lockers : Join(t)
  BY <1>2, JoinStep
<1>3. CASE \E t \in Lockers : Flag(t)
  <2>1. PICK t \in Lockers : Flag(t)
    BY <1>3
  <2>2. /\ pc[t] = "flag" /\ pc'[t] = "join" /\ how' = how
        /\ \A u \in Threads \ {t} : pc'[u] = pc[u]
    BY <2>1, AnnounceEffect
  <2>3. Left' = Left
    BY <2>2 DEF Left, Threads
  <2>4. value'["join"] = value["join"]
    BY <1>0, <2>1 DEF Flag, or_, Names
  <2> QED
    BY <2>2, <2>3, <2>4 DEF JoinInv
<1>4. CASE \E t \in Copiers : SignalDone(t)
  <2>1. PICK t \in Copiers : SignalDone(t)
    BY <1>4
  <2>2. Left' = Left /\ value'["join"] = value["join"] /\ how' = how
    BY <2>1, DoneEffect DEF Left, Threads, Names
  <2> QED
    BY <2>2 DEF JoinInv
<1> QED
  BY <1>1, <1>2, <1>3, <1>4, Kinds

\* The mask starts empty,
LEMMA InitMask == Init => MaskInv
<1> SUFFICES ASSUME Init PROVE MaskInv
  OBVIOUS
<1>1. Flagged = {}
  BY DEF Init, Flagged, Threads
<1>2. value["mask"] = 0
  BY DEF Init, Names
<1> QED
  BY <1>1, <1>2, ZeroBits DEF MaskInv

\* and every step preserves what it holds.
LEMMA NextMask == TypeInv /\ MaskInv /\ [Next]_vars => MaskInv'
<1> SUFFICES ASSUME TypeInv, MaskInv, [Next]_vars PROVE MaskInv'
  OBVIOUS
<1>0. DOMAIN value = Names
  BY DEF TypeInv, TypeOK
<1>1. CASE SignalsStay
  <2>1. Flagged' = Flagged /\ value'["mask"] = value["mask"]
    BY <1>1 DEF SignalsStay, Flagged
  <2> QED
    BY <2>1 DEF MaskInv
<1>2. CASE \E t \in Lockers : Join(t)
  <2>1. PICK t \in Lockers : Join(t)
    BY <1>2
  <2>2. pc[t] = "join" /\ pc'[t] = "end" /\ \A u \in Threads \ {t} : pc'[u] = pc[u]
    BY <2>1, AnnounceEffect
  <2>3. Flagged' = Flagged
    BY <2>2 DEF Flagged, Threads
  <2>4. value'["mask"] = value["mask"]
    BY <1>0, <2>1 DEF Join, subtract, add, xor_, and_, Names
  <2> QED
    BY <2>3, <2>4 DEF MaskInv
<1>3. CASE \E t \in Lockers : Flag(t)
  <2>1. PICK t \in Lockers : Flag(t)
    BY <1>3
  <2>2. pc[t] = "flag" /\ pc'[t] = "join" /\ \A u \in Threads \ {t} : pc'[u] = pc[u]
    BY <2>1, AnnounceEffect
  <2>3. Flagged' = Flagged \cup {t}
    BY <2>2 DEF Flagged, Threads
  <2>4. value'["mask"] = FetchOr(value["mask"], Operand(t))
    BY <1>0, <2>1 DEF Flag, or_, Names
  <2>5. Bits(value'["mask"]) = Bits(value["mask"]) \cup {BitOf[t]}
    BY <2>4, FetchBits, OperandBits
  <2> QED
    BY <2>3, <2>5 DEF MaskInv
<1>4. CASE \E t \in Copiers : SignalDone(t)
  <2>1. PICK t \in Copiers : SignalDone(t)
    BY <1>4
  <2>2. Flagged' = Flagged /\ value'["mask"] = value["mask"]
    BY <2>1, DoneEffect DEF Flagged, Threads, Names
  <2> QED
    BY <2>2 DEF MaskInv
<1> QED
  BY <1>1, <1>2, <1>3, <1>4, Kinds

\* Every step preserves what "done" says.
LEMMA NextDone == TypeInv /\ DoneInv /\ [Next]_vars => DoneInv'
<1> SUFFICES ASSUME TypeInv, DoneInv, [Next]_vars PROVE DoneInv'
  OBVIOUS
<1>0. DOMAIN value = Names
  BY DEF TypeInv, TypeOK
<1>1. CASE SignalsStay
  BY <1>1 DEF SignalsStay, DoneInv
<1>2. CASE \E t \in Lockers : Join(t) \/ Flag(t)
  <2>1. PICK t \in Lockers : Join(t) \/ Flag(t)
    BY <1>2
  <2>2. \A u \in Copiers : pc'[u] = pc[u]
    BY <2>1, AnnounceEffect, SignalAssumption DEF Threads
  <2>3. value'["done"] = value["done"]
    BY <1>0, <2>1, AnnounceEffect DEF Names
  <2> QED
    BY <2>2, <2>3 DEF DoneInv
<1>3. CASE \E t \in Copiers : SignalDone(t)
  BY <1>0, <1>3, DoneEffect DEF DoneInv, Names
<1> QED
  BY <1>1, <1>2, <1>3, Kinds
----------------------------------------------------------------------------
(* Copies.                                                                 *)

\* What a step leaves of the other threads.
LEMMA OthersStay ==
  ASSUME TypeInv, NEW t \in Threads, Locker(t) \/ Waiter(t) \/ Copier(t)
  PROVE  /\ \A u \in Threads \ {t} : /\ pc'[u] = pc[u] /\ seen'[u] = seen[u]
                                     /\ wait'[u] = wait[u] /\ elapsed'[u] = elapsed[u]
         /\ \A u \in Copiers \ {t} : dep'[u] = dep[u] /\ copied'[u] = copied[u]
<1>0. TypeOK
  BY DEF TypeInv
<1>1. \A u \in Threads \ {t} : pc'[u] = pc[u]
  <2>1. PICK from, to : Goto(t, from, to)
    BY DEF Locker, Waiter, Copier, AcquireByCas, AcquireByExchange, LoadCount, StoreCount,
           Unlock, Flag, Join, CallWait, StartWait, WaitLoad, WaitCheck, WaitDep, NextDep,
           Copy, SignalDone
  <2> QED
    BY <2>1, Moves
<1>2. \A u \in Threads \ {t} : seen'[u] = seen[u]
  <2>1. seen' = seen \/ \E x : seen' = [seen EXCEPT ![t] = x]
    BY DEF Locker, Waiter, Copier, AcquireByCas, AcquireByExchange, LoadCount, StoreCount,
           Unlock, Flag, Join, CallWait, WaitLoad, WaitCheck, WaitDep, NextDep, Copy, SignalDone
  <2> QED
    BY <1>0, <2>1 DEF TypeOK
<1>3. \A u \in Threads \ {t} : wait'[u] = wait[u] /\ elapsed'[u] = elapsed[u]
  <2>1. UNCHANGED <<wait, elapsed>> \/ \E w : wait' = [wait EXCEPT ![t] = w]
                                              /\ elapsed' = [elapsed EXCEPT ![t] = 0]
    BY DEF Locker, Waiter, Copier, AcquireByCas, AcquireByExchange, LoadCount, StoreCount,
           Unlock, Flag, Join, CallWait, StartWait, WaitLoad, WaitCheck, WaitDep, NextDep,
           Copy, SignalDone
  <2> QED
    BY <1>0, <2>1 DEF TypeOK
<1>4. \A u \in Copiers \ {t} : dep'[u] = dep[u] /\ copied'[u] = copied[u]
  <2>1. /\ dep' = dep \/ \E x : dep' = [dep EXCEPT ![t] = x]
        /\ copied' = copied \/ \E x : copied' = [copied EXCEPT ![t] = x]
    BY DEF Locker, Waiter, Copier, AcquireByCas, AcquireByExchange, LoadCount, StoreCount,
           Unlock, Flag, Join, CallWait, StartWait, WaitLoad, WaitCheck, WaitDep, NextDep,
           Copy, SignalDone
  <2> QED
    BY <1>0, <2>1 DEF TypeOK
<1> QED
  BY <1>1, <1>2, <1>3, <1>4

\* Who has announced himself has done so for good.
LEMMA LeftShrinks ==
  ASSUME TypeInv, [Next]_vars, Left = {}
  PROVE  Left' = {}
<1>1. ASSUME NEW u \in Lockers PROVE pc'[u] = "end"
  <2>0. pc[u] = "end"
    BY <1>1 DEF Left
  <2>1. CASE SignalsStay
    BY <2>0, <2>1 DEF SignalsStay
  <2>2. CASE \E t \in Lockers : Join(t) \/ Flag(t)
    <3>1. PICK t \in Lockers : Join(t) \/ Flag(t)
      BY <2>2
    <3>2. pc[t] # "end"
      BY <3>1, AnnounceEffect
    <3> QED
      BY <3>1, <3>2 DEF Left
  <2>3. CASE \E t \in Copiers : SignalDone(t)
    BY <2>0, <2>3, DoneEffect DEF Threads
  <2> QED
    BY <2>1, <2>2, <2>3, Kinds
<1> QED
  BY <1>1 DEF Left

\* The wait for a dep_signal never times out: it ends when the signal is 0.
LEMMA DepWaitEnds ==
  ASSUME TypeInv, NEW t \in Copiers, InWait(t)
  PROVE  ~ TimedOut(t) /\ (Met(t) => seen[t] = 0) /\ wait[t].sig = Deps[dep[t]]
<1>1. wait[t] = DepWait(Deps[dep[t]])
  BY DEF TypeInv, PlaceInv
<1>2. /\ wait[t].sig = Deps[dep[t]] /\ wait[t].cond = "EQ" /\ wait[t].compare = 0
      /\ wait[t].timeout = UINT64_MAX
  BY <1>1 DEF DepWait
<1>3. ToStdPeriod(wait[t].timeout) = MaxDuration
  BY <1>2 DEF ToStdPeriod
<1>4. elapsed[t] \in 0 .. MaxDuration
  BY DEF TypeInv, TypeOK, Threads
<1>5. ~ TimedOut(t)
  BY <1>3, <1>4, ValuesAre DEF TimedOut
<1>6. Met(t) => seen[t] = 0
  BY <1>2 DEF Met, Holds
<1> QED
  BY <1>2, <1>5, <1>6

\* A step of a copier keeps what he knows.
LEMMA CopierStep ==
  ASSUME TypeInv, LockInv, JoinInv, CopyInv, NEW t \in Copiers, Copier(t), [Next]_vars
  PROVE  CopyGood(t)'
<1>0. t \in Threads /\ TypeOK /\ CopyGood(t) /\ dep[t] \in 1 .. Len(Deps) + 1 /\ Len(Deps) \in Nat
  BY SignalAssumption DEF Threads, TypeInv, TypeOK, CopyInv
<1>1. Left = {} => Left' = {}
  BY LeftShrinks
<1>2. CASE WaitDep(t)
  <2>1. pc'[t] = "wait" /\ UNCHANGED <<dep, copied>>
    BY <1>0, <1>2, Moves DEF WaitDep, StartWait
  <2> QED
    BY <1>0, <1>1, <2>1 DEF CopyGood
<1>3. CASE NextDep(t)
  <2>1. pc[t] = "waited" /\ pc'[t] = "deps" /\ dep'[t] = dep[t] + 1
    BY <1>0, <1>3, Moves DEF NextDep, TypeOK
  <2>2. InWait(t) /\ seen[t] = 0
    BY <1>0, <2>1 DEF InWait, CopyGood
  <2>3. wait[t].sig = Deps[dep[t]]
    BY <2>2, DepWaitEnds
  <2>4. ASSUME NEW i \in 1 .. Len(Deps), Deps[i] = "join", i < dep'[t] PROVE Left = {}
    <3>1. i < dep[t] \/ i = dep[t]
      BY <1>0, <2>1, <2>4
    <3> QED
      BY <1>0, <2>1, <2>2, <2>3, <2>4, <3>1 DEF CopyGood
  <2> QED
    BY <1>1, <2>1, <2>4 DEF CopyGood
<1>4. CASE Copy(t)
  <2>1. pc'[t] = "signal" /\ dep' = dep /\ dep[t] > Len(Deps) /\ copied'[t] = value["count"]
    BY <1>0, <1>4, Moves DEF Copy, TypeOK
  <2>2. ASSUME AwaitsJoin PROVE Left = {} /\ copied'[t] = Wrap(Cardinality(Lockers))
    <3>1. PICK i \in 1 .. Len(Deps) : Deps[i] = "join"
      BY <2>2 DEF AwaitsJoin
    <3>2. i < dep[t]
      BY <1>0, <2>1, <3>1
    <3>3. Left = {}
      BY <1>0, <3>1, <3>2 DEF CopyGood
    <3>4. Counted = Lockers
      BY <3>3 DEF Left, Counted
    <3> QED
      BY <2>1, <3>3, <3>4 DEF LockInv
  <2> QED
    BY <1>0, <1>1, <2>1, <2>2 DEF CopyGood
<1>5. CASE SignalDone(t)
  <2>1. pc[t] = "signal" /\ pc'[t] = "end" /\ UNCHANGED <<dep, copied>>
    BY <1>5, DoneEffect
  <2> QED
    BY <1>0, <1>1, <2>1 DEF CopyGood
<1>6. CASE WaitLoad(t)
  <2>1. /\ pc[t] = "wait" /\ pc'[t] = "check" /\ UNCHANGED <<dep, wait, copied>>
        /\ seen'[t] = value[wait[t].sig]
    BY <1>0, <1>6, Moves DEF WaitLoad, TypeOK
  <2>2. wait[t].sig = "join" /\ seen'[t] = 0 => Left = {}
    BY <2>1, JoinZero
  <2> QED
    BY <1>0, <1>1, <2>1, <2>2 DEF CopyGood
<1>7. CASE WaitCheck(t)
  <2>1. /\ pc[t] = "check" /\ pc'[t] = (IF TimedOut(t) \/ Met(t) THEN "waited" ELSE "wait")
        /\ UNCHANGED <<seen, dep, wait, copied>>
    BY <1>0, <1>7, Moves DEF WaitCheck
  <2>2. pc'[t] = "waited" => seen[t] = 0
    <3>1. InWait(t)
      BY <2>1 DEF InWait
    <3> QED
      BY <2>1, <3>1, DepWaitEnds
  <2> QED
    BY <1>0, <1>1, <2>1, <2>2 DEF CopyGood
<1> QED
  BY <1>2, <1>3, <1>4, <1>5, <1>6, <1>7 DEF Copier

\* Every step keeps what the copiers know.
LEMMA NextCopy == TypeInv /\ LockInv /\ JoinInv /\ CopyInv /\ [Next]_vars => CopyInv'
<1> SUFFICES ASSUME TypeInv, LockInv, JoinInv, CopyInv, [Next]_vars, NEW u \in Copiers
             PROVE  CopyGood(u)'
  BY DEF CopyInv
<1>1. Left = {} => Left' = {}
  BY LeftShrinks
<1>2. CopyGood(u) /\ u \in Threads
  BY DEF CopyInv, Threads
<1>3. ASSUME pc'[u] = pc[u], seen'[u] = seen[u], wait'[u] = wait[u], dep'[u] = dep[u],
             copied'[u] = copied[u]
      PROVE  CopyGood(u)'
  BY <1>1, <1>2, <1>3 DEF CopyGood
<1>4. ASSUME NEW t \in Threads \ {u}, Locker(t) \/ Waiter(t) \/ Copier(t)
      PROVE  CopyGood(u)'
  <2>1. /\ pc'[u] = pc[u] /\ seen'[u] = seen[u] /\ wait'[u] = wait[u]
        /\ dep'[u] = dep[u] /\ copied'[u] = copied[u]
    BY <1>2, <1>4, OthersStay
  <2> QED
    BY <1>3, <2>1
<1>5. CASE \E t \in Lockers : Locker(t)
  BY <1>4, <1>5, SignalAssumption DEF Threads
<1>6. CASE \E t \in Waiters : Waiter(t)
  BY <1>4, <1>6, SignalAssumption DEF Threads
<1>7. CASE \E t \in Copiers : Copier(t)
  <2>1. PICK t \in Copiers : Copier(t)
    BY <1>7
  <2>2. CASE t = u
    BY <2>1, <2>2, CopierStep
  <2>3. CASE t # u
    BY <1>4, <2>1, <2>3 DEF Threads
  <2> QED
    BY <2>2, <2>3
<1>8. CASE Tick \/ UNCHANGED vars
  BY <1>3, <1>8 DEF Tick, vars
<1> QED
  BY <1>5, <1>6, <1>7, <1>8 DEF Next

\* The copiers know nothing at the beginning.
LEMMA InitCopy == Init => CopyInv
<1> SUFFICES ASSUME Init, NEW t \in Copiers PROVE CopyGood(t)
  BY DEF CopyInv
<1>1. pc[t] = "deps" /\ dep[t] = 1
  BY SignalAssumption DEF Init, Threads
<1> QED
  BY <1>1 DEF CopyGood

\* The invariant that the copies need.
LEMMA CopyInvariance == Spec => [](TypeInv /\ LockInv /\ JoinInv /\ CopyInv)
BY InitType, NextType, InitLock, NextLock, InitJoin, NextJoin, InitCopy, NextCopy, PTL DEF Spec

\* hsa_amd_memory_async_copy, given the signal that the others count down, flip
\* or clear among its dep_signals, copies after the last of them has announced
\* himself, whichever atomic operation announces it, however wide the
\* signal is and however many they are, and finds what all have written.
THEOREM CopiesAfterDeps == AwaitsJoin => (Spec => []CopyAfterDeps)
<1> SUFFICES ASSUME AwaitsJoin PROVE Spec => []CopyAfterDeps
  OBVIOUS
<1>1. CopyInv => CopyAfterDeps
  BY DEF CopyInv, CopyGood, CopyAfterDeps, Left
<1> QED
  BY <1>1, CopyInvariance, PTL
----------------------------------------------------------------------------
(* Waits.                                                                  *)

\* A small hint is a duration as it is.
LEMMA WrapSmall ==
  ASSUME NEW x \in 0 .. Half - 1
  PROVE  Wrap(x) = x
<1>1. PICK h \in Nat \ {0} : h = Half
  BY HalfIs
<1>2. x + h \in Int /\ 2 * h \in Nat \ {0} /\ x + h \in 0 .. (2 * h) - 1
      /\ x + h = ((2 * h) * 0) + (x + h)
  BY <1>1
<1>3. (x + h) % (2 * h) = x + h
  BY <1>2, Remainder
<1> QED
  BY <1>1, <1>2, <1>3 DEF Wrap

\* If the sign is nobody's bit, the mask is as large as all bits together
\* only when everybody has set his.
LEMMA MaskFull ==
  ASSUME TypeInv, MaskInv, LastingWaits, value["mask"] >= AllBits
  PROVE  Flagged = Lockers
<1>1. Bits(AllBits) = {BitOf[l] : l \in Lockers} /\ AllBits \in Values
  BY AllBitsAre
<1>2. Bits(value["mask"]) = {BitOf[l] : l \in Flagged} /\ Flagged \subseteq Lockers
  BY DEF MaskInv, Flagged
<1>3. value["mask"] \in Values
  BY DEF TypeInv, TypeOK, Names
<1>4. Width - 1 \notin Bits(AllBits) /\ Width - 1 \notin Bits(value["mask"])
  BY <1>1, <1>2 DEF LastingWaits
<1>5. AllBits \in 0 .. Half - 1 /\ value["mask"] \in 0 .. Half - 1
  BY <1>1, <1>3, <1>4, SignBit
<1>6. value["mask"] <= AllBits
  BY <1>1, <1>2, <1>5, BitsOrder
<1>7. value["mask"] = AllBits
  BY <1>1, <1>3, <1>6, ValuesAre
<1>8. {BitOf[l] : l \in Lockers} = {BitOf[l] : l \in Flagged}
  BY <1>1, <1>2, <1>7
<1>9. ASSUME NEW l \in Lockers PROVE l \in Flagged
  <2>1. PICK k \in Flagged : BitOf[k] = BitOf[l]
    BY <1>8
  <2> QED
    BY <1>2, <2>1, SignalAssumption
<1> QED
  BY <1>2, <1>9

\* What waits see stays so.
LEMMA SeenStays ==
  ASSUME TypeInv, [Next]_vars
  PROVE  /\ value["done"] = 0 => value'["done"] = 0
         /\ value["mask"] # 0 => value'["mask"] # 0
         /\ Flagged = Lockers => Flagged' = Lockers /\ value'["mask"] = value["mask"]
<1>0. DOMAIN value = Names
  BY DEF TypeInv, TypeOK
<1>1. CASE SignalsStay
  BY <1>1 DEF SignalsStay, Flagged
<1>2. CASE \E t \in Lockers : Flag(t)
  <2>1. PICK t \in Lockers : Flag(t)
    BY <1>2
  <2>2. pc[t] = "flag" /\ t \notin Flagged
    BY <2>1, AnnounceEffect DEF Flagged
  <2>3. value' = [value EXCEPT !["mask"] = FetchOr(value["mask"], Operand(t))]
    BY <2>1 DEF Flag, or_
  <2>4. value'["mask"] = FetchOr(value["mask"], Operand(t)) /\ value'["done"] = value["done"]
    BY <1>0, <2>3 DEF Names
  <2>5. BitOf[t] \in Bits(value'["mask"])
    BY <2>4, FetchBits, OperandBits
  <2> QED
    BY <2>2, <2>4, <2>5, ZeroBits
<1>3. CASE \E t \in Lockers : Join(t)
  <2>1. PICK t \in Lockers : Join(t)
    BY <1>3
  <2>2. pc[t] = "join" /\ pc'[t] = "end" /\ \A u \in Threads \ {t} : pc'[u] = pc[u]
    BY <2>1, AnnounceEffect
  <2>3. Flagged' = Flagged
    BY <2>2 DEF Flagged, Threads
  <2>4. value'["mask"] = value["mask"] /\ value'["done"] = value["done"]
    BY <1>0, <2>1 DEF Join, subtract, add, xor_, and_, Names
  <2> QED
    BY <2>3, <2>4
<1>4. CASE \E t \in Copiers : SignalDone(t)
  <2>1. PICK t \in Copiers : SignalDone(t)
    BY <1>4
  <2>2. Flagged' = Flagged /\ value'["mask"] = value["mask"] /\ value'["done"] = 0
    BY <2>1, DoneEffect DEF Flagged, Threads, Names
  <2> QED
    BY <2>2
<1> QED
  BY <1>1, <1>2, <1>3, <1>4, Kinds

\* A load that meets the condition sees something that lasts.
LEMMA LoadSees ==
  ASSUME TypeInv, MaskInv, DoneInv, LastingWaits, NEW w \in Waits,
         Holds(w.cond, w.compare, value[w.sig])
  PROVE  /\ w.sig = "done" => value["done"] = 0
         /\ w.sig = "mask" /\ w.cond = "NE" => value["mask"] # 0
         /\ w.sig = "mask" /\ w.cond = "GTE" =>
              value["mask"] >= AllBits /\ Flagged = Lockers
<1>1. LastingWait(w)
  BY DEF LastingWaits
<1>2. CASE w.sig = "done"
  <2>1. ~ Holds(w.cond, w.compare, DoneInit)
    BY <1>1, <1>2 DEF LastingWait
  <2> QED
    BY <1>2, <2>1 DEF DoneInv
<1>3. CASE w.sig = "mask" /\ w.cond = "NE"
  <2>1. w.compare = 0
    BY <1>1, <1>3 DEF LastingWait
  <2> QED
    BY <1>3, <2>1 DEF Holds
<1>4. CASE w.sig = "mask" /\ w.cond = "GTE"
  <2>1. w.compare = AllBits
    BY <1>1, <1>4 DEF LastingWait
  <2>2. value["mask"] >= AllBits
    BY <1>4, <2>1 DEF Holds
  <2> QED
    BY <1>4, <2>2, MaskFull
<1> QED
  BY <1>2, <1>3, <1>4

\* A step of a waiter.
LEMMA WaiterStep ==
  ASSUME TypeInv, MaskInv, DoneInv, LastingWaits, MetInv, NEW t \in Waiters, Waiter(t)
  PROVE  MetGood(t)' /\ TimeGood(t)'
<1>0. t \in Threads /\ TypeOK /\ PlaceInv /\ MetGood(t)
  BY DEF Threads, TypeInv, MetInv
<1>1. CASE CallWait(t)
  <2>1. pc'[t] = "wait"
    BY <1>0, <1>1, Moves DEF CallWait, StartWait
  <2> QED
    BY <2>1 DEF MetGood, TimeGood
<1>2. CASE WaitLoad(t)
  <2>1. /\ pc[t] = "wait" /\ pc'[t] = "check" /\ UNCHANGED <<value, wait>>
        /\ seen'[t] = value[wait[t].sig]
        /\ \A u \in Lockers : pc'[u] = pc[u]
    <3>1. t \notin Lockers /\ t \in Threads /\ Lockers \subseteq Threads
      BY SignalAssumption DEF Threads
    <3> QED
      BY <1>0, <1>2, <3>1, Moves DEF WaitLoad, TypeOK
  <2>2. wait[t] \in Waits
    BY <1>0, <2>1 DEF PlaceInv, InWait
  <2>3. Flagged' = Flagged
    BY <2>1 DEF Flagged
  <2>4. Met(t)' => Holds(wait[t].cond, wait[t].compare, value[wait[t].sig])
    BY <2>1 DEF Met
  <2>5. MetGood(t)'
    BY <2>1, <2>2, <2>3, <2>4, LoadSees DEF MetGood
  <2> QED
    BY <2>1, <2>5 DEF TimeGood
<1>3. CASE WaitCheck(t)
  <2>1. /\ pc[t] = "check" /\ pc'[t] = (IF TimedOut(t) \/ Met(t) THEN "waited" ELSE "wait")
        /\ UNCHANGED <<value, seen, wait, elapsed>>
        /\ \A u \in Lockers : pc'[u] = pc[u]
    BY <1>0, <1>3, Moves, SignalAssumption DEF WaitCheck, Threads
  <2>2. Flagged' = Flagged
    BY <2>1 DEF Flagged
  <2>3. (Met(t)' <=> Met(t)) /\ (TimedOut(t)' <=> TimedOut(t))
    BY <2>1 DEF Met, TimedOut
  <2> QED
    BY <1>0, <2>1, <2>2, <2>3 DEF MetGood, TimeGood
<1> QED
  BY <1>1, <1>2, <1>3 DEF Waiter

\* Every step keeps what the waiters have seen.
LEMMA NextWait ==
  ASSUME LastingWaits, TypeInv, MaskInv, DoneInv, MetInv, TimeInv, [Next]_vars
  PROVE  MetInv' /\ TimeInv'
<1> SUFFICES ASSUME NEW u \in Waiters PROVE MetGood(u)' /\ TimeGood(u)'
  BY DEF MetInv, TimeInv
<1>1. MetGood(u) /\ TimeGood(u) /\ u \in Threads
  BY DEF MetInv, TimeInv, Threads
<1>2. ASSUME pc'[u] = pc[u], seen'[u] = seen[u], wait'[u] = wait[u],
             pc[u] = "waited" => elapsed'[u] = elapsed[u]
      PROVE  MetGood(u)' /\ TimeGood(u)'
  <2>1. Met(u)' <=> Met(u)
    BY <1>2 DEF Met
  <2>2. pc[u] = "waited" => (TimedOut(u)' <=> TimedOut(u))
    BY <1>2 DEF TimedOut
  <2>3. TimeGood(u)'
    BY <1>1, <1>2, <2>1, <2>2 DEF TimeGood
  <2>4. MetGood(u)'
    BY <1>1, <1>2, <2>1, SeenStays DEF MetGood
  <2> QED
    BY <2>3, <2>4
<1>3. ASSUME NEW t \in Threads \ {u}, Locker(t) \/ Waiter(t) \/ Copier(t)
      PROVE  MetGood(u)' /\ TimeGood(u)'
  <2>1. /\ pc'[u] = pc[u] /\ seen'[u] = seen[u] /\ wait'[u] = wait[u]
        /\ elapsed'[u] = elapsed[u]
    BY <1>1, <1>3, OthersStay
  <2> QED
    BY <1>2, <2>1
<1>4. CASE \E t \in Lockers : Locker(t)
  BY <1>3, <1>4, SignalAssumption DEF Threads
<1>5. CASE \E t \in Copiers : Copier(t)
  BY <1>3, <1>5, SignalAssumption DEF Threads
<1>6. CASE \E t \in Waiters : Waiter(t)
  <2>1. PICK t \in Waiters : Waiter(t)
    BY <1>6
  <2>2. CASE t = u
    BY <2>1, <2>2, WaiterStep
  <2>3. CASE t # u
    BY <1>3, <2>1, <2>3 DEF Threads
  <2> QED
    BY <2>2, <2>3
<1>7. CASE Tick
  <2>1. UNCHANGED <<pc, seen, wait>>
    BY <1>7 DEF Tick
  <2>2. pc[u] = "waited" => elapsed'[u] = elapsed[u]
    BY <1>1, <1>7 DEF Tick, Running, Waiting
  <2> QED
    BY <1>2, <2>1, <2>2
<1>8. CASE UNCHANGED vars
  BY <1>2, <1>8 DEF vars
<1> QED
  BY <1>4, <1>5, <1>6, <1>7, <1>8 DEF Next

\* A wait that was given up has lasted longer than its hint, or had one that
\* is no duration.
LEMMA GivenUp ==
  ASSUME TypeInv, NEW t \in Waiters, TimedOut(t)
  PROVE  elapsed[t] > wait[t].timeout \/ wait[t].timeout \in Half .. UINT64_MAX - 1
<1>1. t \in Threads /\ TypeOK
  BY DEF Threads, TypeInv
<1>2. wait[t].timeout \in 0 .. UINT64_MAX
  BY <1>1, PeriodType
<1>3. elapsed[t] \in 0 .. MaxDuration
  BY <1>1 DEF TypeOK
<1>4. wait[t].timeout # UINT64_MAX
  BY <1>3, ValuesAre DEF TimedOut, ToStdPeriod
<1>5. ToStdPeriod(wait[t].timeout) = Wrap(wait[t].timeout)
  BY <1>4 DEF ToStdPeriod
<1>6. wait[t].timeout \in 0 .. Half - 1 \/ wait[t].timeout \in Half .. UINT64_MAX - 1
  BY <1>2, <1>4, HalfIs DEF UINT64_MAX
<1>7. CASE wait[t].timeout \in 0 .. Half - 1
  BY <1>5, <1>7, WrapSmall DEF TimedOut
<1> QED
  BY <1>6, <1>7

\* hsa_signal_wait_*, for any number of waiters and any waits for what lasts,
\* whatever their hints: it returns a value that does not meet its condition
\* only after the time of its hint, and with the hint UINT64_MAX never; what it
\* has seen is still so when it returns, and what came before is visible.
THEOREM WaitsAnswer == LastingWaits => (Spec => []WaitAnswers)
<1> SUFFICES ASSUME LastingWaits PROVE Spec => []WaitAnswers
  OBVIOUS
<1> DEFINE Inv == TypeInv /\ LockInv /\ MaskInv /\ DoneInv /\ MetInv /\ TimeInv
<1>1. Init => Inv
  <2> SUFFICES ASSUME Init PROVE Inv
    OBVIOUS
  <2>1. DoneInv
    <3>1. DoneInit # 0
      BY SignalAssumption
    <3> QED
      BY <3>1 DEF Init, DoneInv, Names
  <2>2. \A t \in Waiters : pc[t] = "choose"
    BY SignalAssumption DEF Init, Threads
  <2>3. MetInv /\ TimeInv
    BY <2>2 DEF MetInv, MetGood, TimeInv, TimeGood
  <2> QED
    BY <2>1, <2>3, InitType, InitLock, InitMask
<1>2. Inv /\ [Next]_vars => Inv'
  BY NextType, NextLock, NextMask, NextDone, NextWait
<1>3. Inv => WaitAnswers
  <2> SUFFICES ASSUME Inv, NEW t \in Waiters, pc[t] = "waited"
               PROVE  IF Met(t)
                      THEN /\ Holds(wait[t].cond, wait[t].compare, value[wait[t].sig])
                           /\ wait[t].sig = "mask" /\ wait[t].cond = "GTE" =>
                                value["count"] = Wrap(Cardinality(Lockers))
                           /\ wait[t].sig = "done" => \E c \in Copiers : pc[c] = "end"
                      ELSE \/ elapsed[t] > wait[t].timeout
                           \/ wait[t].timeout \in Half .. UINT64_MAX - 1
    BY DEF WaitAnswers
  <2>1. CASE ~ Met(t)
    <3>1. TimedOut(t)
      BY <2>1 DEF TimeInv, TimeGood
    <3> QED
      BY <2>1, <3>1, GivenUp
  <2>2. CASE Met(t)
    <3>1. MetGood(t)
      BY DEF MetInv
    <3>2. wait[t] \in Waits
      BY DEF TypeInv, PlaceInv, InWait
    <3>3. LastingWait(wait[t])
      BY <3>2 DEF LastingWaits
    <3>4. Holds(wait[t].cond, wait[t].compare, value[wait[t].sig])
      <4>1. CASE wait[t].sig = "done"
        BY <2>2, <3>1, <3>3, <4>1 DEF MetGood, LastingWait
      <4>2. CASE wait[t].sig = "mask"
        BY <2>2, <3>1, <3>3, <4>2 DEF MetGood, LastingWait, Holds
      <4> QED
        BY <3>3, <4>1, <4>2 DEF LastingWait
    <3>5. ASSUME wait[t].sig = "mask", wait[t].cond = "GTE"
          PROVE  value["count"] = Wrap(Cardinality(Lockers))
      <4>1. Flagged = Lockers
        BY <2>2, <3>1, <3>5 DEF MetGood
      <4>2. Counted = Lockers
        BY <4>1 DEF Flagged, Counted
      <4> QED
        BY <4>2 DEF LockInv
    <3>6. wait[t].sig = "done" => \E c \in Copiers : pc[c] = "end"
      BY <2>2, <3>1 DEF MetGood, DoneInv
    <3> QED
      BY <2>2, <3>4, <3>5, <3>6
  <2> QED
    BY <2>1, <2>2
<1> HIDE DEF Inv
<1> QED
  BY <1>1, <1>2, <1>3, PTL DEF Spec
============================================================================
