--------------------------- MODULE QueryPlanProofs ---------------------------
(***************************************************************************)
(* What a range plan covers, for every number of bits an axis has, every   *)
(* grid, epoch duration and query.                                         *)
(***************************************************************************)
EXTENDS QueryPlan, NaturalsInduction, FiniteSetTheorems, TLAPS

-----------------------------------------------------------------------------
(* Recursion on numbers *)

\* A set of natural numbers that is not empty has a least element.
LEMMA LeastNumber ==
    ASSUME NEW T \in SUBSET Nat, T # {}
    PROVE  \E m \in T : \A n \in T : m <= n
<1> DEFINE Before == OpToRel(<, Nat)
<1>1. IsWellFoundedOn(Before, Nat)
  BY NatLessThanWellFounded
<1>2. ASSUME NEW m \in Nat, NEW n \in Nat, n < m PROVE <<n, m>> \in Before
  BY <1>2 DEF OpToRel
<1> HIDE DEF Before
<1>3. PICK m \in T : \A n \in T : ~(<<n, m>> \in Before)
  BY <1>1, WFMin
<1>4. ASSUME NEW n \in T PROVE m <= n
  <2>1. m \in Nat /\ n \in Nat /\ ~(n < m)
    BY <1>2, <1>3
  <2> QED
    BY <2>1
<1> QED
  BY <1>4

\* What holds of 0 and carries over to the next number holds up to the top.
LEMMA UpTo ==
    ASSUME NEW top \in Nat, NEW S, 0 \in S,
           \A n \in 1..top : n - 1 \in S => n \in S
    PROVE  0..top \subseteq S
<1> DEFINE T == {n \in 0..top : n \notin S}
<1> SUFFICES ASSUME T # {} PROVE FALSE
  OBVIOUS
<1>1. T \in SUBSET Nat
  OBVIOUS
<1> HIDE DEF T
<1>2. PICK m \in T : \A n \in T : m <= n
  BY <1>1, LeastNumber
<1> USE DEF T
<1>3. m \in 1..top /\ m - 1 \in 0..top /\ ~(m <= m - 1)
  OBVIOUS
<1> QED
  BY <1>2, <1>3

\* A function is determined by its value at 0 and what each step makes of it.
Steps(f, m, base, step) ==
    f[0] = base /\ \A i \in 1..m : f[i] = step[i][f[i - 1]]
LEMMA Recursion ==
    ASSUME NEW top \in Nat, NEW base \in Nat, NEW step \in [1..top -> [Nat -> Nat]]
    PROVE  \E f \in [0..top -> Nat] : Steps(f, top, base, step)
<1> DEFINE Reaches(m) == \E f \in [0..m -> Nat] : Steps(f, m, base, step)
           S == {m \in 0..top : Reaches(m)}
<1>1. Reaches(0)
  <2> DEFINE f == [i \in 0..0 |-> base]
  <2>1. f \in [0..0 -> Nat] /\ Steps(f, 0, base, step)
    BY DEF Steps
  <2> HIDE DEF f
  <2> QED
    BY <2>1
<1>2. ASSUME NEW n \in 1..top, Reaches(n - 1) PROVE Reaches(n)
  <2>1. PICK f \in [0..n - 1 -> Nat] : Steps(f, n - 1, base, step)
    BY <1>2
  <2> DEFINE g == [i \in 0..n |-> IF i = n THEN step[n][f[n - 1]] ELSE f[i]]
  <2>2. g \in [0..n -> Nat]
    OBVIOUS
  <2>3. g[0] = base /\ g[n] = step[n][g[n - 1]]
    BY <2>1 DEF Steps
  <2>4. ASSUME NEW i \in 1..n - 1 PROVE g[i] = step[i][g[i - 1]]
    <3>1. i \in 0..n /\ i - 1 \in 0..n /\ i # n /\ i - 1 # n
      OBVIOUS
    <3>2. g[i] = f[i] /\ g[i - 1] = f[i - 1]
      BY <3>1
    <3>3. f[i] = step[i][f[i - 1]]
      BY <2>1 DEF Steps
    <3> QED
      BY <3>2, <3>3
  <2> HIDE DEF g
  <2>5. ASSUME NEW i \in 1..n PROVE g[i] = step[i][g[i - 1]]
    <3>1. i = n \/ i \in 1..n - 1
      OBVIOUS
    <3> QED
      BY <2>3, <2>4, <3>1
  <2>6. Steps(g, n, base, step)
    BY <2>3, <2>5 DEF Steps
  <2> QED
    BY <2>2, <2>6
<1>3. Reaches(top)
  <2> HIDE DEF Reaches
  <2>1. 0 \in S /\ \A n \in 1..top : n - 1 \in S => n \in S
    BY <1>1, <1>2
  <2>2. 0..top \subseteq S
    <3> HIDE DEF S
    <3> QED
      BY <2>1, UpTo
  <2> QED
    BY <2>2
<1> QED
  BY <1>3

-----------------------------------------------------------------------------
(* Powers of two *)

LEMMA Widths ==
    /\ AxisBits \in Nat \ {0} /\ Word \in Nat
    /\ \A i \in 0..AxisBits : i \in 0..Word /\ 3 * i \in 0..Word
BY IndexerAssumption DEF Word

LEMMA PowerLaw ==
    /\ Pow2 \in [0..Word -> Nat] /\ Pow2[0] = 1
    /\ \A n \in 1..Word : Pow2[n] = 2 * Pow2[n - 1]
<1> DEFINE step == [i \in 1..Word |-> [m \in Nat |-> 2 * m]]
<1>1. Word \in Nat /\ step \in [1..Word -> [Nat -> Nat]]
  BY Widths
<1>2. PICK f \in [0..Word -> Nat] : Steps(f, Word, 1, step)
  <2> HIDE DEF step
  <2> QED
    BY <1>1, Recursion
<1>3. f = [n \in 0..Word |-> IF n = 0 THEN 1 ELSE 2 * f[n - 1]]
  <2>1. ASSUME NEW n \in 1..Word PROVE f[n] = 2 * f[n - 1]
    <3>1. f[n] = step[n][f[n - 1]]
      BY <1>2 DEF Steps
    <3>2. n - 1 \in 0..Word
      BY <1>1
    <3>3. f[n - 1] \in Nat
      BY <1>2, <3>2
    <3> QED
      BY <3>1, <3>3
  <2>2. f[0] = 1
    BY <1>2 DEF Steps
  <2> HIDE DEF step
  <2>3. ASSUME NEW n \in 0..Word PROVE f[n] = IF n = 0 THEN 1 ELSE 2 * f[n - 1]
    <3>1. n = 0 \/ n \in 1..Word
      BY <1>1
    <3> QED
      BY <2>1, <2>2, <3>1
  <2> QED
    BY <1>2, <2>3
<1>4. Pow2 = [n \in 0..Word |-> IF n = 0 THEN 1 ELSE 2 * Pow2[n - 1]]
  BY <1>3 DEF Pow2
<1> HIDE DEF step
<1> DEFINE S == {n \in 0..Word : Pow2[n] \in Nat}
<1>5. 0 \in S /\ \A n \in 1..Word : n - 1 \in S => n \in S
  <2>1. 0 \in 0..Word /\ \A n \in 1..Word : n \in 0..Word /\ n # 0
    BY <1>1
  <2>2. Pow2[0] = 1 /\ \A n \in 1..Word : Pow2[n] = 2 * Pow2[n - 1]
    BY <1>4, <2>1
  <2> QED
    BY <2>1, <2>2
<1>6. \A n \in 0..Word : Pow2[n] \in Nat
  <2> HIDE DEF S
  <2>1. 0..Word \subseteq S
    BY <1>1, <1>5, UpTo
  <2> QED
    BY <2>1 DEF S
<1>7. Pow2[0] = 1 /\ \A n \in 1..Word : Pow2[n] = 2 * Pow2[n - 1]
  <2>1. 0 \in 0..Word /\ \A n \in 1..Word : n \in 0..Word /\ n # 0
    BY <1>1
  <2> QED
    BY <1>4, <2>1
<1> QED
  BY <1>4, <1>6, <1>7

LEMMA PowerPositive == \A n \in 0..Word : Pow2[n] \in Nat \ {0}
<1> DEFINE S == {n \in 0..Word : Pow2[n] # 0}
<1>1. 0 \in S /\ \A n \in 1..Word : n - 1 \in S => n \in S
  BY Widths, PowerLaw
<1>2. 0..Word \subseteq S
  <2> HIDE DEF S
  <2> QED
    BY <1>1, Widths, UpTo
<1> QED
  BY <1>2, PowerLaw

LEMMA PowerAdds ==
    ASSUME NEW m \in Nat, NEW n \in Nat, m + n <= Word
    PROVE  Pow2[m + n] = Pow2[m] * Pow2[n]
<1> DEFINE S == {k \in 0..n : Pow2[m + k] = Pow2[m] * Pow2[k]}
<1>0. Word \in Nat /\ \A k \in 0..n : k \in 0..Word /\ m + k \in 0..Word
  BY Widths
<1>1. 0 \in S
  BY <1>0, PowerLaw
<1>2. ASSUME NEW k \in 1..n, k - 1 \in S PROVE k \in S
  <2>1. Pow2[m + (k - 1)] = Pow2[m] * Pow2[k - 1]
    BY <1>2
  <2>2. Pow2[k] = 2 * Pow2[k - 1] /\ Pow2[m + k] = 2 * Pow2[m + (k - 1)]
    <3>1. k \in 1..Word /\ m + k \in 1..Word /\ (m + k) - 1 = m + (k - 1)
      BY <1>0
    <3> QED
      BY <3>1, PowerLaw
  <2>3. Pow2[m] \in Nat /\ Pow2[k - 1] \in Nat
    BY <1>0, PowerLaw
  <2>4. Pow2[m + k] = Pow2[m] * (2 * Pow2[k - 1])
    BY <2>1, <2>2, <2>3
  <2> QED
    BY <2>2, <2>4
<1>3. 0..n \subseteq S
  <2> HIDE DEF S
  <2> QED
    BY <1>1, <1>2, UpTo
<1> QED
  BY <1>3

LEMMA PowerGrows ==
    ASSUME NEW m \in 0..Word, NEW n \in 0..m
    PROVE  Pow2[n] <= Pow2[m]
<1>1. n \in 0..Word /\ m - n \in 0..Word /\ n + (m - n) = m /\ n + (m - n) <= Word
  BY Widths
<1>2. Pow2[m] = Pow2[n] * Pow2[m - n]
  BY <1>1, PowerAdds
<1>3. Pow2[n] \in Nat /\ Pow2[m - n] \in Nat \ {0}
  BY <1>1, PowerPositive
<1> QED
  BY <1>2, <1>3

-----------------------------------------------------------------------------
(* Division *)

LEMMA DivisionLaw ==
    ASSUME NEW n \in Int, NEW d \in Nat \ {0}
    PROVE  /\ n \div d \in Int /\ n % d \in 0..d - 1
           /\ n = d * (n \div d) + (n % d)
           /\ n >= 0 => n \div d \in Nat
OBVIOUS

LEMMA DivisionNat ==
    \A n \in Nat, d \in Nat \ {0} :
        /\ n \div d \in Nat /\ n % d \in Nat /\ n % d < d
        /\ n = d * (n \div d) + (n % d)
OBVIOUS

LEMMA DivisionIs ==
    ASSUME NEW n \in Int, NEW d \in Nat \ {0}, NEW q \in Int, NEW r \in 0..d - 1,
           n = d * q + r
    PROVE  n \div d = q /\ n % d = r
OBVIOUS

LEMMA DivisionTwice ==
    \A n, c, d, e \in Int :
        c > 0 /\ d > 0 /\ e = c * d => (n \div c) \div d = n \div e
<1> SUFFICES ASSUME NEW n \in Int, NEW c \in Int, NEW d \in Int, NEW e \in Int,
                    c > 0, d > 0, e = c * d
             PROVE  (n \div c) \div d = n \div e
  OBVIOUS
<1> c \in Nat \ {0} /\ d \in Nat \ {0}
  OBVIOUS
<1> DEFINE q == n \div c
           r == n % c
           p == q \div d
           t == q % d
<1>1. q \in Int /\ r \in 0..c - 1 /\ n = c * q + r
  BY DivisionLaw
<1>2. p \in Int /\ t \in 0..d - 1 /\ q = d * p + t
  BY <1>1, DivisionLaw
<1> HIDE DEF q, r, p, t
<1>3. n = e * p + (c * t + r)
  BY <1>1, <1>2
<1>4. e \in Nat \ {0}
  OBVIOUS
<1>5. c * t + r \in 0..e - 1
  <2>1. c * t <= c * (d - 1)
    BY <1>2
  <2> QED
    BY <1>1, <1>2, <2>1
<1>6. n \div e = p
  BY <1>2, <1>3, <1>4, <1>5, DivisionIs
<1> QED
  BY <1>6 DEF p, q

LEMMA DivisionMonotone ==
    ASSUME NEW m \in Int, NEW n \in Int, m <= n, NEW d \in Nat \ {0}
    PROVE  m \div d <= n \div d
<1> DEFINE p == m \div d
           q == n \div d
<1>1. /\ p \in Int /\ q \in Int
      /\ d * p <= m /\ m < d * p + d /\ d * q <= n /\ n < d * q + d
  BY DivisionLaw
<1> HIDE DEF p, q
<1> SUFFICES ASSUME p >= q + 1 PROVE FALSE
  BY <1>1 DEF p, q
<1>2. d * p >= d * q + d
  BY <1>1
<1> QED
  BY <1>1, <1>2

-----------------------------------------------------------------------------
(* Bits and Morton codes *)

\* A number's digits below 2^i are those below 2^(i - 1) and one bit.
LEMMA BitAdds ==
    ASSUME NEW v \in Nat, NEW i \in 1..Word
    PROVE  /\ Bit(v, i - 1) \in 0..1
           /\ v % Pow2[i] = (v % Pow2[i - 1]) + Pow2[i - 1] * Bit(v, i - 1)
<1> DEFINE d == Pow2[i - 1]
           q == v \div d
           r == v % d
           p == q \div 2
           b == q % 2
           e == Pow2[i]
<1>1. d \in Nat \ {0} /\ e \in Nat \ {0} /\ e = 2 * d
  BY Widths, PowerLaw, PowerPositive
<1> HIDE DEF d, e
<1>2. q \in Int /\ r \in 0..d - 1 /\ v = d * q + r
  <2>1. v \in Int
    OBVIOUS
  <2> QED
    BY <1>1, <2>1, DivisionLaw
<1> HIDE DEF q, r
<1>3. p \in Int /\ b \in 0..1 /\ q = 2 * p + b
  BY <1>2
<1> HIDE DEF p, b
<1>4. v = e * p + (d * b + r)
  <2>1. v = d * (2 * p + b) + r
    BY <1>2, <1>3
  <2> QED
    BY <1>1, <1>2, <1>3, <2>1
<1>5. d * b + r \in 0..e - 1
  <2>1. b = 0 \/ b = 1
    BY <1>3
  <2> QED
    BY <1>1, <1>2, <2>1
<1>6. v % e = d * b + r
  <2> DEFINE c == d * b + r
  <2>1. v \in Int /\ c \in 0..e - 1 /\ v = e * p + c
    BY <1>4, <1>5
  <2> HIDE DEF c
  <2>2. v % e = c
    BY ONLY <1>1, <1>3, <2>1, DivisionIs
  <2> QED
    BY <2>2 DEF c
<1>7. Bit(v, i - 1) = b
  BY DEF Bit, b, q, d
<1> QED
  BY <1>1, <1>2, <1>3, <1>6, <1>7 DEF r, d, e

LEMMA BitTyped ==
    ASSUME NEW v \in Nat, NEW i \in 0..AxisBits - 1
    PROVE  Bit(v, i) \in 0..1
<1>1. i + 1 \in 1..Word /\ (i + 1) - 1 = i
  BY Widths
<1> QED
  BY <1>1, BitAdds

\* The partial sums of an interleaving.
Interleaved(low, x, y, z) ==
    /\ x \in Nat /\ y \in Nat /\ z \in Nat /\ low \in [0..AxisBits -> Nat]
    /\ low[0] = 0
    /\ \A i \in 1..AxisBits :
          low[i] = low[i - 1] + Pow2[3 * (i - 1)] * Octal(x, y, z, i - 1)

LEMMA OctalTyped ==
    ASSUME NEW x \in Nat, NEW y \in Nat, NEW z \in Nat, NEW i \in 0..AxisBits - 1
    PROVE  Octal(x, y, z, i) \in 0..7
<1>1. Bit(x, i) \in 0..1 /\ Bit(y, i) \in 0..1 /\ Bit(z, i) \in 0..1
  BY BitTyped
<1> QED
  BY <1>1 DEF Octal

LEMMA MortonSums ==
    ASSUME NEW x \in Nat, NEW y \in Nat, NEW z \in Nat
    PROVE  \E low \in [0..AxisBits -> Nat] :
              Interleaved(low, x, y, z) /\ Morton(x, y, z) = low[AxisBits]
<1> DEFINE add(i) == Pow2[3 * (i - 1)] * Octal(x, y, z, i - 1)
           step == [i \in 1..AxisBits |-> [m \in Nat |-> m + add(i)]]
           Sums(f) == f = [i \in 0..AxisBits |-> IF i = 0 THEN 0 ELSE f[i - 1] + add(i)]
           low == CHOOSE f : Sums(f)
<1>0. AxisBits \in Nat /\ 0 \in 0..AxisBits /\ AxisBits \in 0..AxisBits
  BY Widths
<1>1. ASSUME NEW i \in 1..AxisBits
      PROVE  add(i) \in Nat /\ i - 1 \in 0..AxisBits /\ i \in 0..AxisBits /\ i # 0
  <2>1. i - 1 \in 0..AxisBits - 1 /\ i - 1 \in 0..AxisBits /\ i \in 0..AxisBits
    BY Widths
  <2>2. Octal(x, y, z, i - 1) \in Nat
    BY <2>1, OctalTyped, SMTT(30)
  <2>3. Pow2[3 * (i - 1)] \in Nat
    BY <2>1, Widths, PowerLaw
  <2> QED
    BY <2>1, <2>2, <2>3
<1>2. Morton(x, y, z) = low[AxisBits]
  BY DEF Morton
<1> HIDE DEF add
<1>3. step \in [1..AxisBits -> [Nat -> Nat]]
  BY <1>1
<1>4. PICK f \in [0..AxisBits -> Nat] : Steps(f, AxisBits, 0, step)
  <2> HIDE DEF step
  <2> QED
    BY <1>0, <1>3, Recursion
<1>5. Sums(f)
  <2>1. ASSUME NEW i \in 1..AxisBits PROVE f[i] = f[i - 1] + add(i)
    <3>1. f[i] = step[i][f[i - 1]]
      BY <1>4 DEF Steps
    <3>2. f[i - 1] \in Nat
      BY <1>1, <1>4
    <3> QED
      BY <3>1, <3>2
  <2>2. f[0] = 0
    BY <1>4 DEF Steps
  <2> HIDE DEF step
  <2>3. ASSUME NEW i \in 0..AxisBits PROVE f[i] = IF i = 0 THEN 0 ELSE f[i - 1] + add(i)
    <3>1. i = 0 \/ i \in 1..AxisBits
      BY <1>0
    <3> QED
      BY <2>1, <2>2, <3>1
  <2> QED
    BY <1>4, <2>3
<1> HIDE DEF step
<1>6. low = [i \in 0..AxisBits |-> IF i = 0 THEN 0 ELSE low[i - 1] + add(i)]
  BY <1>5
<1> HIDE DEF low
<1>7. low[0] = 0 /\ \A i \in 1..AxisBits : low[i] = low[i - 1] + add(i)
  BY <1>0, <1>1, <1>6
<1> DEFINE S == {i \in 0..AxisBits : low[i] \in Nat}
<1>8. 0 \in S /\ \A i \in 1..AxisBits : i - 1 \in S => i \in S
  BY <1>0, <1>1, <1>7, SMTT(30)
<1>9. low \in [0..AxisBits -> Nat]
  <2> HIDE DEF S
  <2>1. 0..AxisBits \subseteq S
    BY <1>0, <1>8, UpTo
  <2> QED
    BY <1>6, <2>1 DEF S
<1>10. Interleaved(low, x, y, z)
  BY <1>7, <1>9 DEF Interleaved, add
<1> QED
  BY <1>2, <1>9, <1>10

LEMMA PowerOctal ==
    ASSUME NEW i \in 0..AxisBits - 1
    PROVE  /\ Pow2[3 * i] \in Nat \ {0} /\ Pow2[3 * (i + 1)] = 8 * Pow2[3 * i]
           /\ Pow2[3 * i + 1] = 2 * Pow2[3 * i] /\ Pow2[3 * i + 2] = 4 * Pow2[3 * i]
<1>1. /\ 3 * i \in 0..Word
      /\ 3 * i + 1 \in 1..Word /\ 3 * i + 2 \in 1..Word /\ 3 * i + 3 \in 1..Word
  BY Widths DEF Word
<1>2. /\ (3 * i + 1) - 1 = 3 * i /\ (3 * i + 2) - 1 = 3 * i + 1
      /\ (3 * i + 3) - 1 = 3 * i + 2 /\ 3 * (i + 1) = 3 * i + 3
  OBVIOUS
<1>3. Pow2[3 * i] \in Nat \ {0}
  BY <1>1, PowerPositive
<1>4. /\ Pow2[3 * i + 1] = 2 * Pow2[3 * i]
      /\ Pow2[3 * i + 2] = 2 * Pow2[3 * i + 1]
      /\ Pow2[3 * i + 3] = 2 * Pow2[3 * i + 2]
  BY <1>1, <1>2, PowerLaw
<1> QED
  BY <1>2, <1>3, <1>4

\* The first i digits of a code stay below 8^i.
LEMMA MortonBelow ==
    ASSUME NEW x \in Nat, NEW y \in Nat, NEW z \in Nat,
           NEW low \in [0..AxisBits -> Nat], Interleaved(low, x, y, z),
           NEW j \in 0..AxisBits
    PROVE  low[j] < Pow2[3 * j]
<1> DEFINE S == {i \in 0..AxisBits : low[i] < Pow2[3 * i]}
<1>1. 0 \in S
  BY Widths, PowerLaw DEF Interleaved
<1>2. ASSUME NEW i \in 1..AxisBits, i - 1 \in S PROVE i \in S
  <2>1. i - 1 \in 0..AxisBits - 1 /\ i - 1 \in 0..AxisBits /\ (i - 1) + 1 = i
    BY Widths
  <2>2. low[i] = low[i - 1] + Pow2[3 * (i - 1)] * Octal(x, y, z, i - 1)
    BY DEF Interleaved
  <2> DEFINE p == Pow2[3 * (i - 1)]
             o == Octal(x, y, z, i - 1)
             l == low[i - 1]
  <2>3. p \in Nat \ {0} /\ Pow2[3 * i] = 8 * p
    BY <2>1, PowerOctal
  <2>4. o \in 0..7 /\ l \in Nat /\ l < p /\ low[i] = l + p * o
    BY <1>2, <2>1, <2>2, OctalTyped
  <2> HIDE DEF p, o, l
  <2>5. p * o <= p * 7
    BY <2>3, <2>4
  <2>6. l + p * o < 8 * p
    BY <2>3, <2>4, <2>5
  <2> QED
    BY <2>3, <2>4, <2>6
<1>3. 0..AxisBits \subseteq S
  <2> HIDE DEF S
  <2> QED
    BY <1>1, <1>2, Widths, UpTo
<1> QED
  BY <1>3

\* Two points in one cell: their bits are the same from s on.
Alike(x, y, z, u, v, w, s) ==
    \A i \in s..AxisBits - 1 : Octal(x, y, z, i) = Octal(u, v, w, i)

\* Two codes differ in their low digits only.
SameAbove(low, mow, s) ==
    \E k \in Nat : /\ low[AxisBits] = low[s] + Pow2[3 * s] * k
                  /\ mow[AxisBits] = mow[s] + Pow2[3 * s] * k

\* Codes of points whose bits are the same from s on are the same from 3 s on.
LEMMA MortonAbove ==
    ASSUME NEW x, NEW y, NEW z, NEW low, Interleaved(low, x, y, z),
           NEW u, NEW v, NEW w, NEW mow, Interleaved(mow, u, v, w),
           NEW s \in 0..AxisBits,
           Alike(x, y, z, u, v, w, s)
    PROVE  SameAbove(low, mow, s)
<1> DEFINE top == AxisBits - s
           Same(m) == \E k \in Nat : /\ low[s + m] = low[s] + Pow2[3 * s] * k
                                     /\ mow[s + m] = mow[s] + Pow2[3 * s] * k
           S == {m \in 0..top : Same(m)}
<1>a. /\ x \in Nat /\ y \in Nat /\ z \in Nat
      /\ low \in [0..AxisBits -> Nat] /\ mow \in [0..AxisBits -> Nat]
  BY DEF Interleaved
<1>0. /\ AxisBits \in Nat /\ top \in Nat /\ s + top = AxisBits
      /\ low[s] \in Nat /\ mow[s] \in Nat /\ Pow2[3 * s] \in Nat
  <2>1. AxisBits \in Nat /\ top \in Nat /\ s + top = AxisBits /\ 3 * s \in 0..Word
    BY Widths
  <2>2. Pow2[3 * s] \in Nat
    BY <2>1, PowerLaw
  <2> QED
    BY <1>a, <2>1, <2>2
<1>1. Same(0)
  <2>1. /\ low[s + 0] = low[s] + Pow2[3 * s] * 0
        /\ mow[s + 0] = mow[s] + Pow2[3 * s] * 0
    <3>1. s + 0 = s /\ Pow2[3 * s] * 0 = 0
      BY <1>0
    <3> QED
      BY <1>0, <3>1
  <2> QED
    BY <2>1
<1>2. ASSUME NEW m \in 1..top, Same(m - 1) PROVE Same(m)
  <2> DEFINE i == s + m - 1
             p == Pow2[3 * s]
             t == Pow2[3 * (m - 1)]
             o == Octal(x, y, z, i)
  <2>1. PICK k \in Nat : low[i] = low[s] + p * k /\ mow[i] = mow[s] + p * k
    <3>1. s + (m - 1) = i
      BY <1>0
    <3> QED
      BY <1>2, <3>1
  <2>2. /\ i \in s..AxisBits - 1 /\ i \in 0..AxisBits - 1 /\ i + 1 \in 1..AxisBits
        /\ (i + 1) - 1 = i /\ s + m = i + 1 /\ 3 * s + 3 * (m - 1) = 3 * i
        /\ 3 * s \in Nat /\ 3 * (m - 1) \in Nat
    BY <1>0
  <2> HIDE DEF i
  <2>3. Pow2[3 * i] = p * t /\ p \in Nat /\ t \in Nat
    <3> DEFINE a == 3 * s
               b == 3 * (m - 1)
    <3>1. a \in Nat /\ b \in Nat /\ a + b = 3 * i /\ 3 * i \in 0..Word
      BY <2>2, Widths
    <3> HIDE DEF a, b
    <3>2. a + b <= Word /\ a \in 0..Word /\ b \in 0..Word
      BY <3>1, Widths
    <3>3. Pow2[a + b] = Pow2[a] * Pow2[b]
      BY <3>1, <3>2, PowerAdds
    <3>4. Pow2[a] \in Nat /\ Pow2[b] \in Nat
      BY <3>2, PowerLaw
    <3> QED
      BY <3>1, <3>3, <3>4 DEF a, b
  <2>4. o = Octal(u, v, w, i) /\ o \in Nat
    <3>1. Octal(x, y, z, i) = Octal(u, v, w, i)
      BY <2>2 DEF Alike
    <3>2. Octal(x, y, z, i) \in 0..7
      BY <1>a, <2>2, OctalTyped
    <3> HIDE DEF o
    <3>3. \A n \in 0..7 : n \in Nat
      OBVIOUS
    <3> QED
      BY <3>1, <3>2, <3>3 DEF o
  <2>5. low[s + m] = low[i] + (p * t) * o /\ mow[s + m] = mow[i] + (p * t) * o
    BY <2>2, <2>3, <2>4 DEF Interleaved
  <2> HIDE DEF p, t, o
  <2> DEFINE r == k + t * o
             a == p * k
             b == (p * t) * o
             c == p * r
  <2>6. r \in Nat /\ a \in Nat /\ b \in Nat /\ c = a + b
    <3> DEFINE q == t * o
    <3>1. q \in Nat /\ k \in Nat /\ p * q = (p * t) * o
      BY <2>3, <2>4
    <3> HIDE DEF q
    <3>2. p * (k + q) = p * k + p * q /\ p * k \in Nat /\ p * q \in Nat /\ k + q \in Nat
      BY <2>3, <3>1
    <3> QED
      BY ONLY <3>1, <3>2 DEF q, r, a, b, c
  <2>7. /\ low[i] = low[s] + a /\ mow[i] = mow[s] + a
        /\ low[s + m] = low[i] + b /\ mow[s + m] = mow[i] + b
    BY <2>1, <2>5
  <2> HIDE DEF a, b, c, r
  <2>8. low[s + m] = low[s] + c /\ mow[s + m] = mow[s] + c
    <3>1. low[s] \in Nat /\ mow[s] \in Nat
      BY <1>0
    <3> QED
      BY ONLY <2>6, <2>7, <3>1
  <2> QED
    BY <2>6, <2>8 DEF p, c
<1>3. Same(top)
  <2> HIDE DEF Same
  <2>1. 0 \in S /\ \A m \in 1..top : m - 1 \in S => m \in S
    BY <1>0, <1>1, <1>2
  <2>2. 0..top \subseteq S
    <3> HIDE DEF S, top
    <3> QED
      BY <1>0, <2>1, UpTo
  <2> QED
    BY <1>0, <2>2
<1> QED
  BY <1>0, <1>3 DEF SameAbove

LEMMA MortonTyped ==
    ASSUME NEW x \in Nat, NEW y \in Nat, NEW z \in Nat
    PROVE  Morton(x, y, z) \in Nat
<1>1. PICK low \in [0..AxisBits -> Nat] : Morton(x, y, z) = low[AxisBits]
  BY MortonSums
<1> QED
  BY <1>1, Widths

\* The bits of the three axes are those of the code, three by three.
LEMMA MortonBits ==
    ASSUME NEW x \in Nat, NEW y \in Nat, NEW z \in Nat, NEW j \in 0..AxisBits - 1
    PROVE  /\ Bit(Morton(x, y, z), 3 * j) = Bit(z, j)
           /\ Bit(Morton(x, y, z), 3 * j + 1) = Bit(y, j)
           /\ Bit(Morton(x, y, z), 3 * j + 2) = Bit(x, j)
<1>1. PICK low \in [0..AxisBits -> Nat] :
        Interleaved(low, x, y, z) /\ Morton(x, y, z) = low[AxisBits]
  BY MortonSums
<1> DEFINE M == Morton(x, y, z)
           p == Pow2[3 * j]
           l == low[j]
           bx == Bit(x, j)
           by == Bit(y, j)
           bz == Bit(z, j)
<1>2. j \in 0..AxisBits /\ j + 1 \in 0..AxisBits /\ j + 1 \in 1..AxisBits /\ (j + 1) - 1 = j
  BY Widths
<1>3. /\ p \in Nat \ {0} /\ Pow2[3 * (j + 1)] = 8 * p
      /\ Pow2[3 * j + 1] = 2 * p /\ Pow2[3 * j + 2] = 4 * p
  BY PowerOctal
<1>4. l \in Nat /\ l < p
  BY <1>1, <1>2, MortonBelow
<1>5. bx \in 0..1 /\ by \in 0..1 /\ bz \in 0..1
  BY BitTyped
<1> DEFINE o == 4 * bx + 2 * by + bz
<1>6. low[j + 1] = l + p * o
  BY <1>1, <1>2 DEF Interleaved, Octal
<1>7. PICK k \in Nat : M = low[j + 1] + (8 * p) * k
  <2> DEFINE s == j + 1
  <2>1. s \in 0..AxisBits /\ Pow2[3 * s] = 8 * p
    BY <1>2, <1>3
  <2>2. M = low[AxisBits]
    BY <1>1
  <2> HIDE DEF s, M, p
  <2>3. SameAbove(low, low, s)
    <3>1. Interleaved(low, x, y, z) /\ Alike(x, y, z, x, y, z, s)
      BY <1>1 DEF Alike
    <3> QED
      BY ONLY <2>1, <3>1, MortonAbove
  <2> QED
    BY <2>1, <2>2, <2>3 DEF s, SameAbove
<1>8. M \in Nat
  BY MortonTyped
<1> HIDE DEF M, p, l, bx, by, bz
<1> DEFINE q == o + 8 * k
<1>9. q \in Nat /\ M = p * q + l
  <2> DEFINE c == p * o
             d == p * k
  <2>1. o \in Nat
    BY <1>5
  <2> HIDE DEF o
  <2>2. c \in Nat /\ d \in Nat /\ (8 * p) * k = 8 * d /\ p * (o + 8 * k) = c + 8 * d
    BY <1>3, <2>1
  <2>3. low[j + 1] = l + c /\ M = low[j + 1] + 8 * d
    BY <1>6, <1>7, <2>2
  <2>4. o + 8 * k \in Nat
    BY <2>1
  <2> HIDE DEF c, d
  <2> QED
    BY <1>4, <2>2, <2>3, <2>4
<1>10. M \div p = q
  <2>1. l \in 0..p - 1 /\ q \in Int /\ M \in Int
    BY <1>3, <1>4, <1>8, <1>9
  <2> HIDE DEF q
  <2> QED
    BY <1>3, <1>9, <2>1, DivisionIs
<1>11. M \div (2 * p) = q \div 2 /\ M \div (4 * p) = q \div 4
  <2> DEFINE e == 2 * p
             f == 4 * p
  <2>1. M \in Int /\ e = p * 2 /\ f = p * 4 
    BY <1>3, <1>8
  <2> HIDE DEF q, e, f
  <2>2. (M \div p) \div 2 = M \div e /\ (M \div p) \div 4 = M \div f
    <3>1. e \in Int /\ f \in Int /\ p \in Int /\ p > 0
      BY <1>3, <2>1
    <3> QED
      BY <2>1, <3>1, DivisionTwice
  <2> QED
    BY <1>10, <2>2 DEF e, f
<1>12. q % 2 = bz /\ (q \div 2) % 2 = by /\ (q \div 4) % 2 = bx
  BY <1>5
<1> HIDE DEF q
<1>13. Bit(M, 3 * j) = bz /\ Bit(M, 3 * j + 1) = by /\ Bit(M, 3 * j + 2) = bx
  BY <1>3, <1>10, <1>11, <1>12 DEF Bit, p
<1> QED
  BY <1>13 DEF M, bx, by, bz

\* An axis is found again in a code whose bits are its own.
LEMMA AxisBack ==
    ASSUME NEW m, NEW o, NEW v \in Nat, v <= AxisMax,
           \A i \in 0..AxisBits - 1 : Bit(m, 3 * i + o) = Bit(v, i)
    PROVE  AxisOf(m, o) = v
<1> DEFINE part == [i \in 0..AxisBits |-> v % Pow2[i]]
           add(i) == Pow2[i - 1] * Bit(m, 3 * (i - 1) + o)
           Sums(f) == f = [i \in 0..AxisBits |-> IF i = 0 THEN 0 ELSE f[i - 1] + add(i)]
           low == CHOOSE f : Sums(f)
<1>0. AxisBits \in Nat /\ 0 \in 0..AxisBits /\ AxisBits \in 0..AxisBits
  BY Widths
<1>1. AxisOf(m, o) = low[AxisBits]
  BY DEF AxisOf
<1>2. part[0] = 0
  <2>1. Pow2[0] = 1 /\ v % 1 = 0
    BY PowerLaw
  <2> QED
    BY <1>0, <2>1
<1>3. ASSUME NEW i \in 1..AxisBits PROVE part[i] = part[i - 1] + add(i)
  <2>1. /\ i \in 1..Word /\ i - 1 \in 0..AxisBits - 1 /\ i \in 0..AxisBits
        /\ i - 1 \in 0..AxisBits
    BY Widths
  <2>2. v % Pow2[i] = (v % Pow2[i - 1]) + Pow2[i - 1] * Bit(v, i - 1)
    BY <2>1, BitAdds
  <2>3. Bit(m, 3 * (i - 1) + o) = Bit(v, i - 1)
    BY <2>1
  <2> QED
    BY <2>1, <2>2, <2>3
<1>4. part[AxisBits] = v
  <2>1. v \in 0..Pow2[AxisBits] - 1 /\ Pow2[AxisBits] \in Nat \ {0}
    BY Widths, PowerPositive DEF AxisMax
  <2>2. v % Pow2[AxisBits] = v
    BY <2>1
  <2> QED
    BY <1>0, <2>2
<1>5. part = [i \in 0..AxisBits |-> part[i]]
  OBVIOUS
<1> HIDE DEF part, add
<1>6. Sums(part)
  <2>1. ASSUME NEW i \in 0..AxisBits PROVE part[i] = IF i = 0 THEN 0 ELSE part[i - 1] + add(i)
    <3>1. i = 0 \/ i \in 1..AxisBits
      BY <1>0
    <3> QED
      BY <1>2, <1>3, <3>1
  <2> QED
    BY <1>5, <2>1
<1>7. low = [i \in 0..AxisBits |-> IF i = 0 THEN 0 ELSE low[i - 1] + add(i)]
  BY <1>6
<1> HIDE DEF low
<1> DEFINE S == {i \in 0..AxisBits : low[i] = part[i]}
<1>8. 0 \in S
  BY <1>0, <1>2, <1>7
<1>9. ASSUME NEW i \in 1..AxisBits, i - 1 \in S PROVE i \in S
  <2>1. i \in 0..AxisBits /\ i # 0
    OBVIOUS
  <2> QED
    BY <1>3, <1>7, <1>9, <2>1
<1>10. 0..AxisBits \subseteq S
  <2> HIDE DEF S
  <2> QED
    BY <1>0, <1>8, <1>9, UpTo
<1> QED
  BY <1>0, <1>1, <1>4, <1>10

-----------------------------------------------------------------------------
(* Cells and their prefixes *)

\* The corner of a cell has the bits of the cell's points from s on.
LEMMA CornerBits ==
    ASSUME NEW v \in Nat, NEW s \in 0..AxisBits - 1, NEW i \in s..AxisBits - 1
    PROVE  Bit((v \div Pow2[s]) * Pow2[s], i) = Bit(v, i)
<1> DEFINE c == Pow2[s]
           d == Pow2[i - s]
           e == Pow2[i]
           u == v \div c
           w == u * c
<1>1. s \in 0..Word /\ i - s \in 0..Word /\ s + (i - s) = i /\ s \in Nat /\ i - s \in Nat /\ i \in 0..Word
  BY Widths
<1>2. c \in Nat \ {0} /\ d \in Nat \ {0} /\ e \in Nat \ {0}
  BY <1>1, PowerPositive
<1>3. e = c * d
  <2>1. s + (i - s) <= Word
    BY <1>1, Widths
  <2>2. Pow2[s + (i - s)] = Pow2[s] * Pow2[i - s]
    BY <1>1, <2>1, PowerAdds
  <2> QED
    BY <1>1, <2>2
<1> HIDE DEF c, d, e
<1>4. u \in Nat /\ v \in Int
  BY <1>2
<1> HIDE DEF u
<1>5. w \in Int /\ w \div c = u
  <2>1. w \in Int /\ 0 \in 0..c - 1 /\ w = c * u + 0 /\ u \in Int
    BY <1>2, <1>4
  <2> HIDE DEF w
  <2> QED
    BY <1>2, <2>1, DivisionIs
<1> HIDE DEF w
<1>6. (w \div c) \div d = w \div e /\ (v \div c) \div d = v \div e
  <2>1. c \in Int /\ d \in Int /\ e \in Int /\ c > 0 /\ d > 0
    BY <1>2
  <2> QED
    BY <1>3, <1>4, <1>5, <2>1, DivisionTwice
<1>7. w \div e = v \div e
  BY <1>5, <1>6 DEF u
<1>8. Bit(w, i) = Bit(v, i)
  BY <1>7 DEF Bit, e
<1> QED
  BY <1>8 DEF w, u, c

LEMMA PrefixWidth ==
    ASSUME NEW a \in 1..AxisBits
    PROVE  /\ AxisBits - a \in 0..AxisBits - 1
           /\ Word - 3 * a = 3 * (AxisBits - a) + 1
           /\ Pow2[Word - 3 * a] \in Nat \ {0}
           /\ Pow2[Word - 3 * a] = 2 * Pow2[3 * (AxisBits - a)]
<1> DEFINE s == AxisBits - a
<1>1. s \in 0..AxisBits - 1 /\ Word - 3 * a = 3 * s + 1 /\ Word - 3 * a \in 0..Word
  BY Widths DEF Word
<1> HIDE DEF s
<1>2. Pow2[3 * s + 1] = 2 * Pow2[3 * s]
  BY <1>1, PowerOctal
<1> QED
  BY <1>1, <1>2, PowerPositive DEF s

\* Points of one cell share their prefix.
OneCell(x, y, z, u, v, w, a) ==
    Prefix(Morton(x, y, z), a) = Prefix(Morton(u, v, w), a)

LEMMA SamePrefix ==
    ASSUME NEW x \in Nat, NEW y \in Nat, NEW z \in Nat,
           NEW u \in Nat, NEW v \in Nat, NEW w \in Nat,
           NEW a \in 1..AxisBits, Alike(x, y, z, u, v, w, AxisBits - a)
    PROVE  OneCell(x, y, z, u, v, w, a)
<1> DEFINE s == AxisBits - a
           p == Pow2[3 * s]
           d == Pow2[Word - 3 * a]
           M == Morton(x, y, z)
           N == Morton(u, v, w)
<1>1. PICK low \in [0..AxisBits -> Nat] : Interleaved(low, x, y, z) /\ M = low[AxisBits]
  BY MortonSums
<1>2. PICK mow \in [0..AxisBits -> Nat] : Interleaved(mow, u, v, w) /\ N = mow[AxisBits]
  BY MortonSums
<1>3. /\ s \in 0..AxisBits - 1 /\ s \in 0..AxisBits
      /\ d = 2 * p /\ d \in Nat \ {0} /\ p \in Nat \ {0}
  <2>1. s \in 0..AxisBits - 1 /\ s \in 0..AxisBits
    BY Widths
  <2> HIDE DEF s
  <2>2. p \in Nat \ {0}
    BY <2>1, PowerOctal
  <2> QED
    BY <2>1, <2>2, PrefixWidth DEF s
<1>4. M \in Int /\ N \in Int
  BY MortonTyped
<1> HIDE DEF s, p, d, M, N
<1>5. low[s] \in Nat /\ mow[s] \in Nat /\ low[s] < p /\ mow[s] < p
  BY <1>1, <1>2, <1>3, MortonBelow DEF p
<1>6. SameAbove(low, mow, s)
  BY <1>1, <1>2, <1>3, MortonAbove DEF s
<1>7. PICK k \in Nat : M = low[s] + p * k /\ N = mow[s] + p * k
  BY <1>1, <1>2, <1>6 DEF SameAbove, p
<1>8. M \div p = k /\ N \div p = k
  <2> DEFINE l == low[s]
             m == mow[s]
  <2>1. l \in 0..p - 1 /\ m \in 0..p - 1 /\ k \in Int /\ M = p * k + l /\ N = p * k + m
    <3> HIDE DEF l, m
    <3>1. l \in Nat /\ m \in Nat /\ l < p /\ m < p
      BY <1>5 DEF l, m
    <3>2. M = l + p * k /\ N = m + p * k
      BY <1>7 DEF l, m
    <3>3. p * k \in Nat
      BY <1>3
    <3> QED
      BY <1>3, <3>1, <3>2, <3>3
  <2> HIDE DEF l, m
  <2> QED
    BY <1>3, <1>4, <2>1, DivisionIs
<1>9. M \div d = N \div d
  <2>1. p \in Int /\ d \in Int /\ p > 0 /\ d = p * 2
    BY <1>3
  <2>2. (M \div p) \div 2 = M \div d /\ (N \div p) \div 2 = N \div d
    BY <1>4, <2>1, DivisionTwice
  <2> QED
    BY <1>8, <2>2
<1> QED
  BY <1>9 DEF OneCell, Prefix, M, N, d

\* A code lies in the range of its prefix, and of no other one.
LEMMA PrefixCovers ==
    ASSUME NEW m \in Nat, NEW a \in 1..AxisBits
    PROVE  /\ Prefix(m, a) \in Nat /\ Mask(a) \in Nat
           /\ Prefix(m, a) <= m /\ m <= Prefix(m, a) + Mask(a)
<1> DEFINE d == Pow2[Word - 3 * a]
           q == m \div d
<1>1. d \in Nat \ {0}
  BY PrefixWidth
<1> HIDE DEF d
<1>2. q \in Nat /\ m = d * q + (m % d) /\ m % d \in 0..d - 1
  BY <1>1
<1> HIDE DEF q
<1>3. q * d \in Nat /\ q * d = d * q
  BY <1>1, <1>2
<1>4. q * d <= m /\ m <= q * d + (d - 1)
  BY <1>1, <1>2, <1>3
<1> QED
  BY <1>1, <1>3, <1>4 DEF Prefix, Mask, d, q

LEMMA PrefixUnique ==
    ASSUME NEW m \in Nat, NEW n \in Nat, NEW a \in 1..AxisBits,
           Prefix(n, a) <= m, m <= Prefix(n, a) + Mask(a)
    PROVE  Prefix(n, a) = Prefix(m, a)
<1> DEFINE d == Pow2[Word - 3 * a]
           q == n \div d
           r == m - q * d
<1>1. d \in Nat \ {0} /\ q \in Nat
  <2>1. d \in Nat \ {0}
    BY PrefixWidth
  <2> HIDE DEF d
  <2> QED
    BY <2>1
<1>2. q * d <= m /\ m <= q * d + (d - 1)
  BY <1>1 DEF Prefix, Mask
<1> HIDE DEF d, q
<1>3. r \in 0..d - 1 /\ m = d * q + r /\ q \in Int /\ m \in Int
  BY <1>1, <1>2
<1> HIDE DEF r
<1>4. m \div d = q
  BY <1>1, <1>3, DivisionIs
<1> QED
  BY <1>4 DEF Prefix, d, q

-----------------------------------------------------------------------------
(* The grid, and keys decoded *)

LEMMA Grid ==
    /\ AxisMax \in Nat /\ MaxRange \in Nat /\ Scale \in Nat \ {0}
    /\ 2 * MaxRange = Scale * AxisMax /\ Pow2[AxisBits] = AxisMax + 1
<1>1. Scale \in Nat \ {0} /\ Scale % 2 = 0
  BY IndexerAssumption
<1>2. PICK h \in Nat : Scale = 2 * h
  BY <1>1
<1>3. AxisMax \in Nat /\ Pow2[AxisBits] = AxisMax + 1
  <2>1. Pow2[AxisBits] \in Nat \ {0}
    BY Widths, PowerPositive
  <2> QED
    BY <2>1 DEF AxisMax
<1> DEFINE g == h * AxisMax
<1>4. g \in Nat /\ Scale * AxisMax = 2 * g
  <2> DEFINE m == AxisMax
  <2>1. m \in Nat
    BY <1>3
  <2> HIDE DEF m
  <2>2. h * m \in Nat /\ (2 * h) * m = 2 * (h * m)
    BY <2>1
  <2> QED
    BY <1>2, <2>2 DEF m
<1> HIDE DEF g
<1>5. MaxRange = g
  <2>1. (2 * g) \div 2 = g
    BY <1>4
  <2> QED
    BY <1>4, <2>1 DEF MaxRange
<1> QED
  BY <1>1, <1>3, <1>4, <1>5

\* A grid point's coordinate is inside the space and comes back as its axis integer.
LEMMA NormalizeGrid ==
    ASSUME NEW n \in Axes
    PROVE  /\ Denormalize(n) \in -MaxRange..MaxRange
           /\ Normalize(Denormalize(n)) = n
<1> DEFINE c == n * Scale
           t == 2 * c + Scale
           d == 2 * Scale
<1>1. /\ n \in Nat /\ n <= AxisMax /\ AxisMax \in Nat /\ MaxRange \in Nat
      /\ Scale \in Nat \ {0} /\ 2 * MaxRange = Scale * AxisMax
  BY Grid DEF Axes
<1>2. c \in 0..2 * MaxRange
  <2> DEFINE m == AxisMax - n
  <2>1. m \in Nat /\ AxisMax = n + m
    BY <1>1
  <2> HIDE DEF m
  <2>2. n * Scale \in Nat /\ m * Scale \in Nat /\ Scale * (n + m) = n * Scale + m * Scale
    BY <1>1, <2>1
  <2>3. c \in Nat /\ c <= Scale * AxisMax
    BY <2>1, <2>2
  <2> HIDE DEF c
  <2> QED
    BY <1>1, <2>3
<1>3. Denormalize(n) = c - MaxRange
  BY DEF Denormalize
<1>4. t = d * n + Scale /\ t \in Int /\ d \in Nat \ {0} /\ Scale \in 0..d - 1 /\ n \in Int
  BY <1>1
<1> HIDE DEF c
<1>5. Denormalize(n) \in -MaxRange..MaxRange
  BY <1>1, <1>2, <1>3
<1>6. Clamp(Denormalize(n)) = c - MaxRange
  <2>1. ~(c - MaxRange < -MaxRange) /\ ~(c - MaxRange > MaxRange)
    BY <1>1, <1>2
  <2> QED
    BY <1>3, <2>1 DEF Clamp
<1>7. 2 * (Clamp(Denormalize(n)) + MaxRange) + Scale = t
  BY <1>1, <1>2, <1>6
<1>8. Normalize(Denormalize(n)) = t \div d
  BY <1>7 DEF Normalize
<1> HIDE DEF t, d
<1>9. t \div d = n
  BY <1>1, <1>4, DivisionIs
<1> QED
  BY <1>5, <1>8, <1>9

LEMMA NormalizeMonotone ==
    ASSUME NEW v \in Int, NEW w \in Int, v <= w
    PROVE  Normalize(v) <= Normalize(w) /\ Normalize(v) \in Int /\ Normalize(w) \in Int
<1>1. MaxRange \in Nat /\ Scale \in Nat \ {0}
  BY Grid
<1>2. Clamp(v) \in Int /\ Clamp(w) \in Int /\ Clamp(v) <= Clamp(w)
  BY <1>1 DEF Clamp
<1> DEFINE a == 2 * (Clamp(v) + MaxRange) + Scale
           b == 2 * (Clamp(w) + MaxRange) + Scale
           d == 2 * Scale
<1>3. a \in Int /\ b \in Int /\ a <= b /\ d \in Nat \ {0}
  BY <1>1, <1>2
<1>4. Normalize(v) = a \div d /\ Normalize(w) = b \div d
  BY DEF Normalize
<1> HIDE DEF a, b, d
<1>5. a \div d <= b \div d /\ a \div d \in Int /\ b \div d \in Int
  BY <1>3, DivisionMonotone, DivisionLaw
<1> QED
  BY <1>4, <1>5

LEMMA NormalizeTyped ==
    ASSUME NEW v \in Int
    PROVE  Normalize(v) \in Axes
<1>1. MaxRange \in Nat /\ AxisMax \in Nat /\ Scale \in Nat \ {0} /\ 2 * MaxRange = Scale * AxisMax
  BY Grid
<1>2. 0 \in Axes /\ AxisMax \in Axes
  BY <1>1 DEF Axes
<1>3. Denormalize(0) = -MaxRange /\ Denormalize(AxisMax) = MaxRange
  <2>1. AxisMax * Scale = 2 * MaxRange
    BY <1>1
  <2> QED
    BY <1>1, <2>1 DEF Denormalize
<1>4. Normalize(-MaxRange) = 0 /\ Normalize(MaxRange) = AxisMax
  BY <1>2, <1>3, NormalizeGrid
<1>5. Clamp(v) \in -MaxRange..MaxRange /\ Clamp(Clamp(v)) = Clamp(v)
  BY <1>1 DEF Clamp
<1>6. Normalize(Clamp(v)) = Normalize(v)
  BY <1>5 DEF Normalize
<1>7. /\ Normalize(-MaxRange) <= Normalize(Clamp(v)) /\ Normalize(Clamp(v)) \in Int
      /\ Normalize(Clamp(v)) <= Normalize(MaxRange)
  BY <1>1, <1>5, NormalizeMonotone
<1> QED
  BY <1>1, <1>4, <1>6, <1>7 DEF Axes

\* Rounding moves a coordinate by half a grid step at most, and not at all on
\* the grid.
LEMMA Rounding ==
    ASSUME NEW v \in Int
    PROVE  /\ Clamp(v) \in Int /\ Denormalize(Normalize(v)) \in Int
           /\ \E h \in Nat :
                /\ h = IF (Clamp(v) + MaxRange) % Scale = 0 THEN 0 ELSE Scale \div 2
                /\ -h <= Denormalize(Normalize(v)) - Clamp(v)
                /\ Denormalize(Normalize(v)) - Clamp(v) <= h
<1> DEFINE w == Clamp(v) + MaxRange
           t == 2 * w + Scale
           d == 2 * Scale
           n == t \div d
           g == n * Scale
<1>1. MaxRange \in Nat /\ Scale \in Nat \ {0} /\ Scale % 2 = 0
  BY Grid, IndexerAssumption
<1>2. Clamp(v) \in Int
  BY <1>1 DEF Clamp
<1>3. Normalize(v) = n /\ Denormalize(Normalize(v)) = g - MaxRange
  BY DEF Normalize, Denormalize
<1>4. w \in Int /\ Clamp(v) = w - MaxRange
  BY <1>1, <1>2
<1> HIDE DEF w
<1>5. t \in Int /\ d \in Nat \ {0}
  BY <1>1, <1>4
<1>6. n \in Int /\ \E e \in 0..d - 1 : t = d * n + e
  <2> HIDE DEF t, d
  <2> QED
    BY <1>5, DivisionLaw
<1>7. g \in Int /\ d * n = 2 * g
  <2> HIDE DEF n
  <2>1. n * Scale \in Int /\ (2 * Scale) * n = 2 * (n * Scale)
    BY <1>1, <1>6
  <2> QED
    BY <2>1
<1> HIDE DEF n, g
<1>8. 2 * g <= 2 * w + Scale /\ 2 * w + Scale < 2 * g + 2 * Scale
  <2>1. PICK e \in 0..d - 1 : t = 2 * g + e
    BY <1>6, <1>7
  <2> QED
    BY <1>1, <1>4, <1>7, <2>1
<1>9. CASE w % Scale = 0
  <2> DEFINE k == w \div Scale
             f == k * Scale
  <2>1. k \in Int /\ w = Scale * k
    BY <1>1, <1>4, <1>9, DivisionLaw
  <2> HIDE DEF k
  <2>2. t = d * k + Scale /\ Scale \in 0..d - 1 /\ k \in Int
    BY <1>1, <2>1
  <2> HIDE DEF t, d
  <2>3. t \div d = k
    BY <1>5, <2>2, DivisionIs
  <2>4. g = w
    BY <1>1, <2>1, <2>3 DEF g, n
  <2> QED
    BY <1>1, <1>2, <1>3, <1>4, <1>9, <2>4 DEF w
<1>10. CASE w % Scale # 0
  <2>1. PICK h \in Nat : Scale = 2 * h
    BY <1>1
  <2>2. Scale \div 2 = h
    BY <2>1
  <2>3. g - w <= h /\ -h <= g - w
    BY <1>4, <1>7, <1>8, <2>1
  <2> QED
    BY <1>1, <1>2, <1>3, <1>4, <1>7, <1>10, <2>1, <2>2, <2>3 DEF w
<1> QED
  BY <1>9, <1>10

\* The Morton code of where something is.
CodeOf(o) == Morton(Normalize(o.x), Normalize(o.y), Normalize(o.z))

\* What an observation is made of.
LEMMA ObservationParts ==
    ASSUME NEW p \in Observations
    PROVE  /\ p.x \in Int /\ p.y \in Int /\ p.z \in Int
           /\ p.secs \in Nat /\ p.tick \in 0..Ticks - 1
           /\ EpochSecs \in Nat \ {0} /\ Ticks \in Nat \ {0}
  BY IndexerAssumption DEF Observations

\* Axis integers of any place.
LEMMA AxesOf ==
    ASSUME NEW v \in Int
    PROVE  Normalize(v) \in Axes /\ Normalize(v) \in Nat /\ Normalize(v) <= AxisMax
<1>1. Normalize(v) \in Axes /\ AxisMax \in Nat
  BY NormalizeTyped, Grid
<1> QED
  BY <1>1 DEF Axes

\* The parts of an observation's key.
LEMMA KeyFields ==
    ASSUME NEW p \in Observations
    PROVE  /\ KeyOf[p].epoch = p.secs \div EpochSecs
           /\ KeyOf[p].morton = CodeOf(p) /\ KeyOf[p].morton \in Nat
           /\ KeyOf[p].offset = (p.secs % EpochSecs) * Ticks + p.tick
<1>1. KeyOf[p] = [epoch |-> p.secs \div EpochSecs,
                  morton |-> CodeOf(p),
                  offset |-> (p.secs % EpochSecs) * Ticks + p.tick]
  BY DEF KeyOf, GenerateKey, CodeOf
<1>2. CodeOf(p) \in Nat
  BY ObservationParts, AxesOf, MortonTyped DEF CodeOf
<1> QED
  BY <1>1, <1>2

\* A key decodes to the grid point nearest to where its observation was made,
\* and to its second and tick exactly (lib.rs:28-111).
THEOREM DecodeBack ==
    ASSUME NEW p \in Observations
    PROVE  DecodeKey(KeyOf[p]) =
              [x |-> Denormalize(Normalize(p.x)), y |-> Denormalize(Normalize(p.y)),
               z |-> Denormalize(Normalize(p.z)), secs |-> p.secs, tick |-> p.tick]
<1> DEFINE X == Normalize(p.x)
           Y == Normalize(p.y)
           Z == Normalize(p.z)
           M == Morton(X, Y, Z)
           s == p.secs
           k == p.tick
           e == s \div EpochSecs
           r == s % EpochSecs
           f == r * Ticks + k
           t == e * EpochSecs * Ticks + f
<1>1. /\ X \in Nat /\ Y \in Nat /\ Z \in Nat
      /\ X <= AxisMax /\ Y <= AxisMax /\ Z <= AxisMax
      /\ s \in Nat /\ k \in 0..Ticks - 1
      /\ EpochSecs \in Nat \ {0} /\ Ticks \in Nat \ {0}
  BY ObservationParts, AxesOf
<1>a. KeyOf[p].epoch = e /\ KeyOf[p].morton = M /\ KeyOf[p].offset = f
  BY KeyFields DEF CodeOf
<1> HIDE DEF X, Y, Z
<1>2. ASSUME NEW o \in {0, 1, 2}, NEW v \in Nat, v <= AxisMax,
             \A i \in 0..AxisBits - 1 : Bit(M, 3 * i + o) = Bit(v, i)
      PROVE  AxisOf(M, o) = v
  BY <1>2, AxisBack
<1>3. ASSUME NEW i \in 0..AxisBits - 1
      PROVE  /\ Bit(M, 3 * i + 0) = Bit(Z, i) /\ Bit(M, 3 * i + 1) = Bit(Y, i)
             /\ Bit(M, 3 * i + 2) = Bit(X, i)
  <2>1. 3 * i + 0 = 3 * i
    OBVIOUS
  <2>2. X \in Nat /\ Y \in Nat /\ Z \in Nat
    BY <1>1
  <2>3. /\ Bit(M, 3 * i) = Bit(Z, i) /\ Bit(M, 3 * i + 1) = Bit(Y, i)
        /\ Bit(M, 3 * i + 2) = Bit(X, i)
    BY <2>2, MortonBits
  <2> HIDE DEF M
  <2> QED
    BY <2>1, <2>3
<1>4. AxisOf(M, 2) = X /\ AxisOf(M, 1) = Y /\ AxisOf(M, 0) = Z
  BY <1>1, <1>2, <1>3
<1> HIDE DEF M, s, k
<1>5. t = Ticks * s + k
  <2>1. e \in Nat /\ r \in Nat /\ s = EpochSecs * e + r
    <3>1. s \in Nat /\ EpochSecs \in Nat \ {0}
      BY <1>1
    <3> QED
      BY ONLY <3>1, DivisionNat
  <2> HIDE DEF e, r
  <2>2. EpochSecs * e = e * EpochSecs /\ e * EpochSecs \in Nat
    BY <1>1, <2>1
  <2> DEFINE g == e * EpochSecs
  <2>3. g \in Nat /\ s = g + r
    BY <2>1, <2>2
  <2> HIDE DEF g
  <2>4. g * Ticks + r * Ticks = Ticks * (g + r) /\ g * Ticks \in Nat /\ r * Ticks \in Nat
    BY <1>1, <2>1, <2>3
  <2>5. t = g * Ticks + (r * Ticks + k)
    BY DEF g, k
  <2> QED
    BY <1>1, <2>3, <2>4, <2>5
<1>6. t \in Int /\ s \in Int
  BY <1>1, <1>5
<1>7. KeyOf[p].epoch * EpochSecs * Ticks + KeyOf[p].offset = t
  BY <1>a
<1> HIDE DEF t
<1>8. t \div Ticks = s /\ t % Ticks = k
  BY <1>1, <1>5, <1>6, DivisionIs
<1> QED
  BY <1>a, <1>4, <1>7, <1>8 DEF DecodeKey, s, k, X, Y, Z

-----------------------------------------------------------------------------
(* The depth and the cells of a query *)

\* A cell of the planned depth is wider than the search, or there are two an axis.
LEMMA LevelTyped ==
    ASSUME NEW radius \in Nat
    PROVE  /\ LevelFor(radius) \in 1..AxisBits
           /\ LevelFor(radius) = 1 \/ Pow2[LevelFor(radius)] * radius <= MaxRange
<1> DEFINE fits == {a \in 1..AxisBits : Pow2[a] * radius <= MaxRange}
<1>1. AxisBits \in Nat \ {0} /\ 1 \in 1..AxisBits
  BY Widths
<1>2. CASE fits = {}
  <2>1. LevelFor(radius) = 1
    BY <1>2 DEF LevelFor
  <2> QED
    BY <1>1, <2>1
<1>3. CASE fits # {}
  <2> DEFINE T == {AxisBits - a : a \in fits}
  <2>1. T \in SUBSET Nat /\ T # {}
    BY <1>1, <1>3
  <2>2. PICK m \in T : \A n \in T : m <= n
    <3> HIDE DEF T
    <3> QED
      BY <2>1, LeastNumber
  <2>3. PICK a \in fits : m = AxisBits - a
    BY <2>2
  <2>4. ASSUME NEW b \in fits PROVE b <= a
    <3>1. AxisBits - b \in T
      OBVIOUS
    <3>2. m <= AxisBits - b
      BY <2>2, <3>1
    <3> QED
      BY <1>1, <2>3, <3>2
  <2>5. LevelFor(radius) = CHOOSE c \in fits : \A b \in fits : b <= c
    BY <1>3 DEF LevelFor
  <2> HIDE DEF T
  <2>6. LevelFor(radius) \in fits
    <3> HIDE DEF fits
    <3> QED
      BY <2>3, <2>4, <2>5
  <2> QED
    BY <2>6
<1> QED
  BY <1>2, <1>3

\* The corner of the cell an axis integer is in.
CornerOf(v, a) == (v \div Pow2[AxisBits - a]) * Pow2[AxisBits - a]

LEMMA CornerTyped ==
    ASSUME NEW v \in Nat, NEW a \in 1..AxisBits
    PROVE  /\ CornerOf(v, a) \in Nat /\ CornerOf(v, a) <= v
           /\ CornerOf(v, a) % Pow2[AxisBits - a] = 0
<1> DEFINE d == Pow2[AxisBits - a]
           k == v \div d
           r == v % d
           c == k * d
<1>1. d \in Nat \ {0}
  BY PrefixWidth, PowerPositive, Widths
<1>2. k \in Nat /\ r \in Nat /\ v = d * k + r
  <2> HIDE DEF d
  <2> QED
    BY ONLY <1>1, v \in Nat, DivisionNat
<1> HIDE DEF d, k, r
<1>3. c \in Nat /\ c = d * k + 0 /\ d * k \in Nat
  BY <1>1, <1>2
<1>4. c \in Int /\ k \in Int /\ 0 \in 0..d - 1
  BY <1>1, <1>2, <1>3
<1>5. c <= v
  BY <1>2, <1>3
<1> HIDE DEF c
<1>6. c % d = 0
  BY ONLY <1>1, <1>3, <1>4, DivisionIs
<1> QED
  BY <1>3, <1>5, <1>6 DEF CornerOf, c, d, k

\* The walk over lo..hi reaches the cell of every integer between them.
LEMMA CornerReached ==
    ASSUME NEW lo \in Nat, NEW hi \in Nat, NEW v \in Nat, lo <= v, v <= hi,
           NEW a \in 1..AxisBits
    PROVE  CornerOf(v, a) \in Corners(lo, hi, a)
<1> DEFINE d == Pow2[AxisBits - a]
           k == v \div d
           l == lo \div d
<1>1. d \in Nat \ {0}
  BY PrefixWidth, PowerPositive, Widths
<1>2. k \in Nat /\ l \in Nat
  <2> HIDE DEF d
  <2> QED
    BY ONLY <1>1, v \in Nat, lo \in Nat, DivisionNat
<1>3. l <= k
  <2> HIDE DEF d
  <2>1. lo \in Int /\ v \in Int
    OBVIOUS
  <2> QED
    BY ONLY <1>1, <2>1, lo <= v, DivisionMonotone
<1>4. CornerOf(v, a) = k * d /\ CornerOf(v, a) \in Nat /\ CornerOf(v, a) <= v
      /\ CornerOf(v, a) % d = 0
  BY CornerTyped DEF CornerOf
<1> DEFINE c == CornerOf(v, a)
<1>5. Corners(lo, hi, a) = {w \in l * d..hi : w % d = 0}
  BY DEF Corners
<1> HIDE DEF c, d, k, l
<1>6. l * d <= k * d /\ l * d \in Nat
  BY <1>1, <1>2, <1>3
<1>7. c \in l * d..hi
  BY <1>4, <1>6 DEF c
<1> QED
  BY <1>4, <1>5, <1>7 DEF c

\* A coordinate in reach is between the ends of the walk.
LEMMA Reach ==
    \A d \in Int, r \in Nat : d * d <= r * r => -r <= d /\ d <= r
<1>1. SUFFICES ASSUME NEW d \in Int, NEW r \in Nat, d * d <= r * r
               PROVE  -r <= d /\ d <= r
  OBVIOUS
<1>2. ASSUME NEW u \in Nat, u > r PROVE u * u > r * r
  <2>1. u - r \in Nat \ {0} /\ u + r \in Nat \ {0}
    BY <1>2
  <2>2. u * u - r * r = (u - r) * (u + r)
    OBVIOUS
  <2>3. (u - r) * (u + r) > 0
    BY <2>1
  <2> QED
    BY <2>2, <2>3
<1>3. CASE d > r
  BY <1>1, <1>2, <1>3
<1>4. CASE -d > r
  <2>1. -d \in Nat /\ (-d) * (-d) = d * d
    BY <1>4
  <2> QED
    BY <1>1, <1>2, <1>4, <2>1
<1> QED
  BY <1>3, <1>4

LEMMA ReachSum ==
    \A a, b, c \in Int, r \in Nat :
        a * a + b * b + c * c <= r * r =>
            /\ -r <= a /\ a <= r /\ -r <= b /\ b <= r /\ -r <= c /\ c <= r
<1>1. SUFFICES ASSUME NEW a \in Int, NEW b \in Int, NEW c \in Int, NEW r \in Nat,
                      a * a + b * b + c * c <= r * r
               PROVE  /\ -r <= a /\ a <= r /\ -r <= b /\ b <= r /\ -r <= c /\ c <= r
  OBVIOUS
<1> DEFINE A == a * a
           B == b * b
           C == c * c
           R == r * r
<1>2. A >= 0 /\ B >= 0 /\ C >= 0 /\ A \in Int /\ B \in Int /\ C \in Int /\ R \in Int
  OBVIOUS
<1>3. A + B + C <= R
  BY <1>1
<1>4. A <= R /\ B <= R /\ C <= R
  <2> HIDE DEF A, B, C, R
  <2> QED
    BY <1>2, <1>3
<1> QED
  BY <1>4, Reach

-----------------------------------------------------------------------------
(* The cells of a query cover its sphere *)

QueryTyped(q) ==
    /\ q.centre \in Int \X Int \X Int /\ q.radius \in Nat
    /\ q.start \in Nat /\ q.end \in Nat

\* The walk along an axis, as SpatialPrefixes makes it.
Along(q, a, i) ==
    Corners(Normalize(q.centre[i] - q.radius), Normalize(q.centre[i] + q.radius), a)

\* The integer of a coordinate in reach is between those of the ends.
LEMMA AxisReached ==
    ASSUME NEW v \in Int, NEW c \in Int, NEW r \in Nat,
           -r <= v - c, v - c <= r,
           NEW a \in 1..AxisBits
    PROVE  CornerOf(Normalize(v), a) \in Corners(Normalize(c - r), Normalize(c + r), a)
<1> DEFINE n == Normalize(v)
           lo == Normalize(c - r)
           hi == Normalize(c + r)
<1>1. c - r \in Int /\ c + r \in Int /\ c - r <= v /\ v <= c + r
  OBVIOUS
<1>2. lo \in Nat /\ hi \in Nat /\ n \in Nat
  BY <1>1, AxesOf
<1>3. lo <= n
  BY <1>1, NormalizeMonotone
<1>4. n <= hi
  BY <1>1, NormalizeMonotone
<1> HIDE DEF lo, hi, n
<1>5. CornerOf(n, a) \in Corners(lo, hi, a)
  BY <1>2, <1>3, <1>4, CornerReached
<1> QED
  BY <1>5 DEF lo, hi, n

\* The corner of a point's cell shares the bits above the cell with the point.
LEMMA CornerAlike ==
    ASSUME NEW x \in Nat, NEW y \in Nat, NEW z \in Nat, NEW a \in 1..AxisBits
    PROVE  /\ CornerOf(x, a) \in Nat /\ CornerOf(y, a) \in Nat /\ CornerOf(z, a) \in Nat
           /\ Prefix(Morton(CornerOf(x, a), CornerOf(y, a), CornerOf(z, a)), a)
                 = Prefix(Morton(x, y, z), a)
<1>1. AxisBits - a \in 0..AxisBits - 1
  BY PrefixWidth
<1>2. CornerOf(x, a) \in Nat /\ CornerOf(y, a) \in Nat /\ CornerOf(z, a) \in Nat
  BY CornerTyped
<1>3. ASSUME NEW v \in Nat, NEW i \in (AxisBits - a)..AxisBits - 1
      PROVE  Bit(CornerOf(v, a), i) = Bit(v, i)
  BY <1>1, CornerBits DEF CornerOf
<1>4. Alike(CornerOf(x, a), CornerOf(y, a), CornerOf(z, a), x, y, z, AxisBits - a)
  BY <1>1, <1>2, <1>3 DEF Alike, Octal
<1>5. OneCell(CornerOf(x, a), CornerOf(y, a), CornerOf(z, a), x, y, z, a)
  BY <1>2, <1>4, SamePrefix
<1> QED
  BY <1>2, <1>5 DEF OneCell

\* What is in the sphere is in a cell of the query.
LEMMA SphereCovered ==
    ASSUME NEW q, QueryTyped(q), NEW o, o.x \in Int, o.y \in Int, o.z \in Int,
           InSphere(o, q), NEW a \in 1..AxisBits
    PROVE  Prefix(CodeOf(o), a) \in SpatialPrefixes(q, a)
<1> DEFINE r == q.radius
           c == q.centre
           X == o.x
           Y == o.y
           Z == o.z
           l == Normalize(X)
           m == Normalize(Y)
           n == Normalize(Z)
<1>1. X \in Int /\ Y \in Int /\ Z \in Int
  OBVIOUS
<1>2. l \in Nat /\ m \in Nat /\ n \in Nat
  BY <1>1, AxesOf
<1>3. c[1] \in Int /\ c[2] \in Int /\ c[3] \in Int /\ r \in Nat
  BY DEF QueryTyped
<1>4. X - c[1] \in Int /\ Y - c[2] \in Int /\ Z - c[3] \in Int
  BY <1>1, <1>3
<1>5. (X - c[1]) * (X - c[1]) + (Y - c[2]) * (Y - c[2]) + (Z - c[3]) * (Z - c[3]) <= r * r
  BY DEF InSphere
<1> HIDE DEF r, c, X, Y, Z
<1>6. /\ -r <= X - c[1] /\ X - c[1] <= r
      /\ -r <= Y - c[2] /\ Y - c[2] <= r
      /\ -r <= Z - c[3] /\ Z - c[3] <= r
  BY ONLY <1>3, <1>4, <1>5, ReachSum
<1>7. /\ CornerOf(l, a) \in Corners(Normalize(c[1] - r), Normalize(c[1] + r), a)
      /\ CornerOf(m, a) \in Corners(Normalize(c[2] - r), Normalize(c[2] + r), a)
      /\ CornerOf(n, a) \in Corners(Normalize(c[3] - r), Normalize(c[3] + r), a)
  BY <1>1, <1>3, <1>6, AxisReached
<1> HIDE DEF l, m, n
<1>8. /\ CornerOf(l, a) \in Along(q, a, 1)
      /\ CornerOf(m, a) \in Along(q, a, 2)
      /\ CornerOf(n, a) \in Along(q, a, 3)
  BY <1>7 DEF Along, c, r
<1>9. SpatialPrefixes(q, a) =
        {Prefix(Morton(x, y, z), a) :
           x \in Along(q, a, 1), y \in Along(q, a, 2), z \in Along(q, a, 3)}
  BY DEF SpatialPrefixes, Along
<1>10. Prefix(Morton(CornerOf(l, a), CornerOf(m, a), CornerOf(n, a)), a)
         \in SpatialPrefixes(q, a)
  BY <1>8, <1>9
<1>11. Prefix(Morton(l, m, n), a) \in SpatialPrefixes(q, a)
  BY <1>2, <1>10, CornerAlike
<1> QED
  BY <1>11 DEF CodeOf, l, m, n, X, Y, Z

\* Where a key is kept has the code of where its observation was made.
LEMMA KeptCode ==
    ASSUME NEW p \in Observations
    PROVE  LET o == DecodeKey(KeyOf[p])
           IN /\ o.x \in Int /\ o.y \in Int /\ o.z \in Int
              /\ CodeOf(o) = CodeOf(p) /\ o.secs = p.secs
<1> DEFINE o == DecodeKey(KeyOf[p])
<1>1. ASSUME NEW v \in Int
      PROVE  /\ Denormalize(Normalize(v)) \in Int
             /\ Normalize(Denormalize(Normalize(v))) = Normalize(v)
  <2>1. Normalize(v) \in Axes /\ MaxRange \in Nat
    BY AxesOf, Grid
  <2> QED
    BY <2>1, NormalizeGrid
<1>2. p.x \in Int /\ p.y \in Int /\ p.z \in Int
  BY ObservationParts
<1>3. o = [x |-> Denormalize(Normalize(p.x)), y |-> Denormalize(Normalize(p.y)),
           z |-> Denormalize(Normalize(p.z)), secs |-> p.secs, tick |-> p.tick]
  BY DecodeBack
<1> HIDE DEF o
<1>4. /\ o.x \in Int /\ o.y \in Int /\ o.z \in Int
      /\ Normalize(o.x) = Normalize(p.x) /\ Normalize(o.y) = Normalize(p.y)
      /\ Normalize(o.z) = Normalize(p.z)
  BY <1>1, <1>2, <1>3
<1> QED
  BY <1>3, <1>4 DEF CodeOf, o

\* A cell's prefix is that of a code.
LEMMA PrefixOfCode ==
    ASSUME NEW q, QueryTyped(q), NEW a \in 1..AxisBits, NEW f \in SpatialPrefixes(q, a)
    PROVE  \E m \in Nat : f = Prefix(m, a)
<1>1. SpatialPrefixes(q, a) =
        {Prefix(Morton(x, y, z), a) :
           x \in Along(q, a, 1), y \in Along(q, a, 2), z \in Along(q, a, 3)}
  BY DEF SpatialPrefixes, Along
<1>2. PICK x \in Along(q, a, 1), y \in Along(q, a, 2), z \in Along(q, a, 3) :
        f = Prefix(Morton(x, y, z), a)
  BY <1>1
<1>3. ASSUME NEW i \in {1, 2, 3}, NEW v \in Along(q, a, i) PROVE v \in Nat
  <2> DEFINE lo == Normalize(q.centre[i] - q.radius)
             hi == Normalize(q.centre[i] + q.radius)
             d == Pow2[AxisBits - a]
             k == lo \div d
  <2>1. q.centre[i] - q.radius \in Int
    BY <1>3 DEF QueryTyped
  <2>2. lo \in Axes
    BY <2>1, NormalizeTyped
  <2>3. lo \in Nat
    BY <2>2, Grid DEF Axes
  <2>4. d \in Nat \ {0}
    BY PrefixWidth, PowerPositive, Widths
  <2>5. v \in k * d..hi
    BY <1>3 DEF Along, Corners
  <2> HIDE DEF lo, hi, d
  <2>6. k \in Nat
    BY ONLY <2>3, <2>4, DivisionNat
  <2> HIDE DEF k
  <2>7. k * d \in Nat
    BY <2>4, <2>6
  <2> QED
    BY <2>5, <2>7
<1>4. x \in Nat /\ y \in Nat /\ z \in Nat
  BY <1>3
<1> QED
  BY <1>2, <1>4, MortonTyped

-----------------------------------------------------------------------------
(* The ranges of a query *)

\* Offsets of an epoch are below the largest, and in the order of the seconds.
LEMMA Offsets ==
    ASSUME NEW s \in Nat, NEW k \in 0..Ticks - 1
    PROVE  /\ s \div EpochSecs \in Nat
           /\ (s % EpochSecs) * Ticks + k \in Nat
           /\ (s % EpochSecs) * Ticks + k < MaxOffset
<1> DEFINE r == s % EpochSecs
<1>1. EpochSecs \in Nat \ {0} /\ Ticks \in Nat \ {0}
  BY IndexerAssumption
<1>2. s \div EpochSecs \in Nat /\ r \in Nat /\ r < EpochSecs
  BY ONLY <1>1, s \in Nat, DivisionNat
<1> HIDE DEF r
<1> DEFINE u == r * Ticks
           w == (EpochSecs - 1 - r) * Ticks
           m == EpochSecs * Ticks
<1>3. u \in Nat
  BY <1>1, <1>2
<1>4. w \in Nat
  <2>1. EpochSecs - 1 - r \in Nat
    BY <1>1, <1>2
  <2> QED
    BY <1>1, <2>1
<1>5. m = u + w + Ticks
  BY <1>1, <1>2
<1>6. m = MaxOffset
  BY DEF MaxOffset
<1> HIDE DEF u, w, m
<1>7. u + k \in Nat /\ u + k < m
  BY <1>1, <1>3, <1>4, <1>5
<1> QED
  BY <1>2, <1>6, <1>7 DEF u, r

LEMMA OffsetsGrow ==
    \A s, t \in Nat :
        s < t /\ s \div EpochSecs = t \div EpochSecs
          => (s % EpochSecs) * Ticks + Ticks <= (t % EpochSecs) * Ticks
<1> SUFFICES ASSUME NEW s \in Nat, NEW t \in Nat, s < t,
                    s \div EpochSecs = t \div EpochSecs
             PROVE  (s % EpochSecs) * Ticks + Ticks <= (t % EpochSecs) * Ticks
  OBVIOUS
<1> DEFINE q == s \div EpochSecs
           r == s % EpochSecs
           v == t % EpochSecs
<1>1. EpochSecs \in Nat \ {0} /\ Ticks \in Nat \ {0}
  BY IndexerAssumption
<1>2. s = EpochSecs * q + r /\ t = EpochSecs * (t \div EpochSecs) + v
      /\ q \in Nat /\ r \in Nat /\ v \in Nat
  BY ONLY <1>1, s \in Nat, t \in Nat, DivisionNat
<1>3. t \div EpochSecs = q
  OBVIOUS
<1> HIDE DEF q, r, v
<1>4. s = EpochSecs * q + r /\ t = EpochSecs * q + v /\ EpochSecs * q \in Nat
  BY <1>1, <1>2, <1>3
<1>5. v - r - 1 \in Nat
  <2> DEFINE g == EpochSecs * q
  <2>1. g \in Nat /\ s = g + r /\ t = g + v
    BY <1>4
  <2> HIDE DEF g
  <2> QED
    BY <1>2, <2>1
<1> DEFINE u == v - r - 1
<1>6. u * Ticks \in Nat
  <2> HIDE DEF u
  <2> QED
    BY <1>1, <1>5 DEF u
<1>7. v * Ticks = r * Ticks + Ticks + u * Ticks /\ r * Ticks \in Nat /\ v * Ticks \in Nat
  BY <1>1, <1>2
<1>8. r * Ticks + Ticks <= v * Ticks
  <2> DEFINE a == r * Ticks
             b == v * Ticks
             c == u * Ticks
  <2>1. a \in Nat /\ b \in Nat /\ c \in Nat /\ b = a + Ticks + c
    BY <1>6, <1>7
  <2> HIDE DEF a, b, c
  <2>2. a + Ticks <= b
    BY <1>1, <2>1
  <2> QED
    BY <2>2 DEF a, b
<1> QED
  BY <1>8 DEF r, v

\* A key whose code is in a cell is in the cell's range, unless it is cut off
\* by an offset at one of the ends.
LEMMA InCell ==
    ASSUME NEW key, key.epoch \in Nat, key.morton \in Nat, key.offset \in Nat,
           NEW a \in 1..AxisBits, NEW lo \in Nat, NEW hi \in Nat,
           lo <= key.offset, key.offset <= hi
    PROVE  InRange(key, Cell(key.epoch, Prefix(key.morton, a), lo, hi, a))
<1> DEFINE f == Prefix(key.morton, a)
<1>1. f \in Nat /\ Mask(a) \in Nat /\ f <= key.morton /\ key.morton <= f + Mask(a)
  BY PrefixCovers
<1> HIDE DEF f
<1>2. f < key.morton \/ f = key.morton
  BY <1>1
<1>3. key.morton < f + Mask(a) \/ key.morton = f + Mask(a)
  BY <1>1
<1>4. InRange(key, Cell(key.epoch, f, lo, hi, a))
  BY <1>2, <1>3 DEF InRange, AtMost, Cell
<1> QED
  BY <1>4 DEF f

\* The ranges of a window hold every observation in it, but for one that is
\* cut off in a cell's last code.
CutOff(p, q, r) == p.secs = q.end /\ p.tick > 0 /\ KeyOf[p].morton = r.last.morton

LEMMA RangesCover ==
    ASSUME NEW q, QueryTyped(q), NEW p \in Observations,
           InTime(p, q), InSphere(DecodeKey(KeyOf[p]), q)
    PROVE  \E r \in WindowRanges(q) : InRange(KeyOf[p], r) \/ CutOff(p, q, r)
<1> DEFINE a == LevelFor(q.radius)
           key == KeyOf[p]
           e == p.secs \div EpochSecs
           lo == OffsetLo(e, q)
           hi == OffsetHi(e, q)
           r == Cell(e, Prefix(key.morton, a), lo, hi, a)
<1>1. q.start \in Nat /\ q.end \in Nat /\ q.radius \in Nat
  BY DEF QueryTyped
<1>2. a \in 1..AxisBits
  BY <1>1, LevelTyped
<1>3. p.secs \in Nat /\ p.tick \in 0..Ticks - 1 /\ q.start <= p.secs /\ p.secs <= q.end
  BY ObservationParts DEF InTime
<1>4. EpochSecs \in Nat \ {0} /\ Ticks \in Nat \ {0} /\ 0 \in 0..Ticks - 1
  BY IndexerAssumption
<1>5. /\ key.epoch = e /\ key.morton = CodeOf(p)
      /\ key.offset = (p.secs % EpochSecs) * Ticks + p.tick
  BY KeyFields
<1>6. e \in Nat /\ key.offset \in Nat /\ key.offset < MaxOffset
  BY <1>3, <1>5, Offsets
<1>7. key.morton \in Nat
  BY KeyFields
<1>8. e \in (q.start \div EpochSecs)..(q.end \div EpochSecs)
  <2>1. q.start \in Int /\ q.end \in Int /\ p.secs \in Int
    BY <1>1, <1>3
  <2>2. q.start \div EpochSecs <= e
    BY ONLY <1>3, <1>4, <2>1, DivisionMonotone
  <2>3. e <= q.end \div EpochSecs
    BY ONLY <1>3, <1>4, <2>1, DivisionMonotone
  <2>4. q.start \div EpochSecs \in Nat /\ q.end \div EpochSecs \in Nat
    BY <1>1, <1>4, Offsets
  <2> QED
    BY <1>6, <2>2, <2>3, <2>4
<1>9. Prefix(key.morton, a) \in SpatialPrefixes(q, a)
  BY <1>2, <1>5, KeptCode, SphereCovered
<1>10. r \in WindowRanges(q)
  BY <1>8, <1>9 DEF WindowRanges
<1>11. (q.start % EpochSecs) * Ticks + 0 \in Nat /\ (q.end % EpochSecs) * Ticks + 0 \in Nat
  BY <1>1, <1>4, Offsets
<1>12. MaxOffset \in Nat
  BY <1>4 DEF MaxOffset
<1> HIDE DEF key
<1>13. lo \in Nat /\ lo <= key.offset
  <2>1. CASE e = q.start \div EpochSecs
    <3> DEFINE u == (q.start % EpochSecs) * Ticks
               w == (p.secs % EpochSecs) * Ticks
    <3>1. lo = u
      BY <2>1 DEF OffsetLo
    <3>2. u \in Nat
      <4>1. u + 0 \in Nat /\ u \in Int
        BY <1>1, <1>4, <1>11
      <4> QED
        BY <4>1
    <3>3. w + 0 \in Nat /\ w \in Int
      BY <1>3, <1>4, Offsets
    <3>4. key.offset = w + p.tick
      BY <1>5
    <3>5. q.start = p.secs \/ q.start < p.secs
      BY <1>1, <1>3
    <3>6. u = w \/ u + Ticks <= w
      BY <1>1, <1>3, <2>1, <3>5, OffsetsGrow
    <3> HIDE DEF u, w
    <3>7. u <= w + p.tick
      BY <1>3, <1>4, <3>2, <3>3, <3>6
    <3> QED
      BY <3>1, <3>2, <3>4, <3>7
  <2>2. CASE e # q.start \div EpochSecs
    <3>1. lo = 0
      BY <2>2 DEF OffsetLo
    <3> QED
      BY <1>6, <3>1
  <2> QED
    BY <2>1, <2>2
<1>14. hi \in Nat /\ (key.offset <= hi \/ (p.secs = q.end /\ p.tick > 0))
  <2>1. CASE e = q.end \div EpochSecs
    <3> DEFINE u == (q.end % EpochSecs) * Ticks
               w == (p.secs % EpochSecs) * Ticks
    <3>1. hi = u
      BY <2>1 DEF OffsetHi
    <3>2. u \in Nat
      <4>1. u + 0 \in Nat /\ u \in Int
        BY <1>1, <1>4, <1>11
      <4> QED
        BY <4>1
    <3>3. w + 0 \in Nat /\ w \in Int
      BY <1>3, <1>4, Offsets
    <3>4. key.offset = w + p.tick
      BY <1>5
    <3>5. CASE p.secs < q.end
      <4>1. w + Ticks <= u
        BY <1>1, <1>3, <2>1, <3>5, OffsetsGrow
      <4> HIDE DEF u, w
      <4> QED
        BY <1>3, <1>4, <3>1, <3>2, <3>3, <3>4, <4>1
    <3>6. CASE p.secs = q.end
      <4>1. u = w
        BY <3>6
      <4> HIDE DEF u, w
      <4> QED
        BY <1>3, <1>4, <3>1, <3>2, <3>3, <3>4, <3>6, <4>1
    <3> QED
      BY <1>1, <1>3, <3>5, <3>6
  <2>2. CASE e # q.end \div EpochSecs
    <3>1. hi = MaxOffset
      BY <2>2 DEF OffsetHi
    <3> QED
      BY <1>6, <1>12, <3>1
  <2> QED
    BY <2>1, <2>2
<1>15. CASE key.offset <= hi
  <2> HIDE DEF a, e, lo, hi
  <2>1. InRange(key, Cell(key.epoch, Prefix(key.morton, a), lo, hi, a))
    BY <1>2, <1>5, <1>6, <1>7, <1>13, <1>14, <1>15, InCell
  <2>2. InRange(key, r)
    BY <1>5, <2>1
  <2> QED
    BY <1>10, <2>2 DEF key
<1>16. CASE p.secs = q.end /\ p.tick > 0 /\ ~ key.offset <= hi
  <2> DEFINE f == Prefix(key.morton, a)
  <2> HIDE DEF a, e, lo, hi
  <2>1. f \in Nat /\ Mask(a) \in Nat /\ f <= key.morton /\ key.morton <= f + Mask(a)
    BY <1>2, <1>7, PrefixCovers
  <2>2. r.first = [epoch |-> e, morton |-> f, offset |-> lo]
        /\ r.last = [epoch |-> e, morton |-> f + Mask(a), offset |-> hi]
    BY DEF Cell
  <2> HIDE DEF f, r
  <2>3. AtMost(r.first, key)
    BY <1>5, <1>7, <1>13, <2>1, <2>2 DEF AtMost
  <2>4. CASE key.morton = f + Mask(a)
    <3>1. CutOff(p, q, r)
      BY <1>16, <2>2, <2>4 DEF CutOff, key
    <3> QED
      BY <1>10, <3>1 DEF r, f
  <2>5. CASE key.morton < f + Mask(a)
    <3>1. AtMost(key, r.last)
      BY <1>5, <2>2, <2>5 DEF AtMost
    <3>2. InRange(key, r)
      BY <2>3, <3>1 DEF InRange
    <3> QED
      BY <1>10, <3>2 DEF r, f, key
  <2> QED
    BY <1>7, <2>1, <2>4, <2>5
<1> QED
  BY <1>14, <1>15, <1>16

\* The single-epoch plan covers its epoch.
LEMMA EpochCover ==
    ASSUME NEW q, QueryTyped(q), NEW p \in Observations, InSphere(p, q),
           p.secs \div EpochSecs = q.start \div EpochSecs
    PROVE  \E r \in EpochRanges(q) : InRange(KeyOf[p], r)
<1> DEFINE a == LevelFor(q.radius)
           key == KeyOf[p]
           r == Cell(key.epoch, Prefix(key.morton, a), 0, MaxOffset, a)
<1>1. a \in 1..AxisBits
  BY LevelTyped DEF QueryTyped
<1>2. p.secs \in Nat /\ p.tick \in 0..Ticks - 1
      /\ EpochSecs \in Nat \ {0} /\ Ticks \in Nat \ {0}
  BY ObservationParts
<1>3. /\ key.epoch = p.secs \div EpochSecs /\ key.morton = CodeOf(p)
      /\ key.offset = (p.secs % EpochSecs) * Ticks + p.tick
  BY KeyFields
<1>4. key.epoch \in Nat /\ key.offset \in Nat /\ key.offset < MaxOffset
  BY <1>2, <1>3, Offsets
<1>5. key.morton \in Nat
  BY KeyFields
<1>6. Prefix(key.morton, a) \in SpatialPrefixes(q, a)
  BY <1>1, <1>3, ObservationParts, SphereCovered
<1>7. r \in EpochRanges(q)
  BY <1>3, <1>6 DEF EpochRanges
<1>8. MaxOffset \in Nat /\ 0 \in Nat /\ 0 <= key.offset /\ key.offset <= MaxOffset
  BY <1>2, <1>4 DEF MaxOffset
<1> HIDE DEF a, key
<1>9. InRange(key, r)
  BY <1>1, <1>4, <1>5, <1>8, InCell
<1> QED
  BY <1>7, <1>9 DEF key

\* A range of the plan that holds a key is the one of the key's epoch and cell.
LEMMA OneRange ==
    ASSUME NEW q, QueryTyped(q), NEW p \in Observations, NEW r \in WindowRanges(q),
           InRange(KeyOf[p], r)
    PROVE  LET a == LevelFor(q.radius)
               e == KeyOf[p].epoch
           IN r = Cell(e, Prefix(KeyOf[p].morton, a), OffsetLo(e, q), OffsetHi(e, q), a)
<1> DEFINE a == LevelFor(q.radius)
           key == KeyOf[p]
<1>1. a \in 1..AxisBits
  BY LevelTyped DEF QueryTyped
<1>2. p.secs \in Nat /\ p.tick \in 0..Ticks - 1
  BY ObservationParts
<1>3. key.epoch = p.secs \div EpochSecs /\ key.morton \in Nat
  BY KeyFields
<1>4. key.epoch \in Nat
  BY <1>2, <1>3, Offsets
<1>5. PICK e \in (q.start \div EpochSecs)..(q.end \div EpochSecs),
           f \in SpatialPrefixes(q, a) :
        r = Cell(e, f, OffsetLo(e, q), OffsetHi(e, q), a)
  BY DEF WindowRanges
<1>6. PICK n \in Nat : f = Prefix(n, a)
  BY <1>1, PrefixOfCode
<1>7. e \in Int
  <2>1. q.start \in Nat /\ 0 \in 0..Ticks - 1
    BY IndexerAssumption DEF QueryTyped
  <2> QED
    BY <1>5
<1> HIDE DEF a, key
<1>8. AtMost(r.first, key) /\ AtMost(key, r.last)
  BY DEF InRange, key
<1>9. /\ r.first.epoch = e /\ r.first.morton = f
      /\ r.last.epoch = e /\ r.last.morton = f + Mask(a)
  BY <1>5 DEF Cell
<1>10. f \in Nat /\ Mask(a) \in Nat
  BY <1>1, <1>6, PrefixCovers
<1>11. e = key.epoch
  BY <1>4, <1>7, <1>8, <1>9 DEF AtMost
<1>12. f <= key.morton /\ key.morton <= f + Mask(a)
  BY <1>3, <1>4, <1>8, <1>9, <1>10 DEF AtMost
<1>13. f = Prefix(key.morton, a)
  BY <1>1, <1>3, <1>6, <1>12, PrefixUnique
<1> QED
  BY <1>5, <1>11, <1>13 DEF a, key

\* At most n of them.
Few(S, n) == IsFiniteSet(S) /\ Cardinality(S) \in 0..n

LEMMA FewSubset ==
    ASSUME NEW n \in Nat, NEW S, Few(S, n), NEW T \in SUBSET S
    PROVE  Few(T, n)
<1>1. IsFiniteSet(S) /\ Cardinality(S) \in 0..n
  BY DEF Few
<1>2. IsFiniteSet(T) /\ Cardinality(T) <= Cardinality(S)
  BY <1>1, FS_Subset
<1>3. Cardinality(T) \in Nat
  BY <1>2, FS_CardinalityType
<1> QED
  BY <1>1, <1>2, <1>3 DEF Few

LEMMA FewMore ==
    ASSUME NEW n \in Nat, NEW S, Few(S, n), NEW x
    PROVE  Few(S \union {x}, n + 1)
<1>1. IsFiniteSet(S) /\ Cardinality(S) \in 0..n
  BY DEF Few
<1>2. /\ IsFiniteSet(S \union {x})
      /\ \/ Cardinality(S \union {x}) = Cardinality(S)
         \/ Cardinality(S \union {x}) = Cardinality(S) + 1
  BY <1>1, FS_AddElement
<1> QED
  BY <1>1, <1>2 DEF Few

LEMMA FewOne == ASSUME NEW x PROVE Few({x}, 1)
<1>1. IsFiniteSet({x}) /\ Cardinality({x}) = 1
  BY FS_Singleton
<1> QED
  BY <1>1 DEF Few

LEMMA FewEight ==
    ASSUME NEW a, NEW b, NEW c, NEW d, NEW e, NEW f, NEW g, NEW h
    PROVE  Few({a, b, c, d, e, f, g, h}, 8)
<1>1. Few({a}, 1)
  BY FewOne
<1>2. Few({a} \union {b}, 1 + 1)
  BY <1>1, FewMore
<1>3. Few({a, b}, 2)
  <2>1. {a} \union {b} = {a, b} /\ 1 + 1 = 2
    OBVIOUS
  <2> QED
    BY <1>2, <2>1
<1>4. Few({a, b} \union {c}, 2 + 1)
  BY <1>3, FewMore
<1>5. Few({a, b, c}, 3)
  <2>1. {a, b} \union {c} = {a, b, c} /\ 2 + 1 = 3
    OBVIOUS
  <2> QED
    BY <1>4, <2>1
<1>6. Few({a, b, c} \union {d}, 3 + 1)
  BY <1>5, FewMore
<1>7. Few({a, b, c, d}, 4)
  <2>1. {a, b, c} \union {d} = {a, b, c, d} /\ 3 + 1 = 4
    OBVIOUS
  <2> QED
    BY <1>6, <2>1
<1>8. Few({a, b, c, d} \union {e}, 4 + 1)
  BY <1>7, FewMore
<1>9. Few({a, b, c, d, e}, 5)
  <2>1. {a, b, c, d} \union {e} = {a, b, c, d, e} /\ 4 + 1 = 5
    OBVIOUS
  <2> QED
    BY <1>8, <2>1
<1>10. Few({a, b, c, d, e} \union {f}, 5 + 1)
  BY <1>9, FewMore
<1>11. Few({a, b, c, d, e, f}, 6)
  <2>1. {a, b, c, d, e} \union {f} = {a, b, c, d, e, f} /\ 5 + 1 = 6
    OBVIOUS
  <2> QED
    BY <1>10, <2>1
<1>12. Few({a, b, c, d, e, f} \union {g}, 6 + 1)
  BY <1>11, FewMore
<1>13. Few({a, b, c, d, e, f, g}, 7)
  <2>1. {a, b, c, d, e, f} \union {g} = {a, b, c, d, e, f, g} /\ 6 + 1 = 7
    OBVIOUS
  <2> QED
    BY <1>12, <2>1
<1>14. Few({a, b, c, d, e, f, g} \union {h}, 7 + 1)
  BY <1>13, FewMore
<1> QED
  <2>1. {a, b, c, d, e, f, g} \union {h} = {a, b, c, d, e, f, g, h} /\ 7 + 1 = 8
    OBVIOUS
  <2> QED
    BY <1>14, <2>1

\* A key is in at most one range of the plan.
LEMMA RangesApart ==
    ASSUME NEW q, QueryTyped(q), NEW p \in Observations
    PROVE  Cardinality({r \in WindowRanges(q) : InRange(KeyOf[p], r)}) <= 1
<1> DEFINE a == LevelFor(q.radius)
           e == KeyOf[p].epoch
           only == Cell(e, Prefix(KeyOf[p].morton, a), OffsetLo(e, q), OffsetHi(e, q), a)
           S == {r \in WindowRanges(q) : InRange(KeyOf[p], r)}
<1>1. S \in SUBSET {only}
  BY OneRange
<1> HIDE DEF only, S
<1>2. Few(S, 1)
  BY <1>1, FewOne, FewSubset
<1>3. Cardinality(S) <= 1
  BY <1>2 DEF Few
<1> QED
  BY <1>3 DEF S

-----------------------------------------------------------------------------
(* The cells of a query are few *)

\* A walk that ends before the second corner after its first has two.
LEMMA TwoCorners ==
    \A lo, hi \in Nat, a \in 1..AxisBits :
        hi < (lo \div Pow2[AxisBits - a] + 2) * Pow2[AxisBits - a]
          => \E f, g \in Nat : Corners(lo, hi, a) \subseteq {f, g}
<1> SUFFICES ASSUME NEW lo \in Nat, NEW hi \in Nat, NEW a \in 1..AxisBits,
                    hi < (lo \div Pow2[AxisBits - a] + 2) * Pow2[AxisBits - a]
             PROVE  \E f, g \in Nat : Corners(lo, hi, a) \subseteq {f, g}
  OBVIOUS
<1> DEFINE d == Pow2[AxisBits - a]
           k == lo \div d
<1>1. d \in Nat \ {0}
  BY PrefixWidth, PowerPositive, Widths
<1>2. k \in Nat
  <2> HIDE DEF d
  <2> QED
    BY ONLY <1>1, lo \in Nat, DivisionNat
<1>3. Corners(lo, hi, a) = {w \in k * d..hi : w % d = 0}
  BY DEF Corners
<1>4. hi < (k + 2) * d
  OBVIOUS
<1> HIDE DEF d, k
<1>5. k * d \in Nat /\ (k + 1) * d \in Nat /\ (k + 1) * d = k * d + d
      /\ (k + 2) * d = k * d + d + d
  BY <1>1, <1>2
<1>6. ASSUME NEW w \in k * d..hi, w % d = 0 PROVE w \in {k * d, (k + 1) * d}
  <2> DEFINE m == w \div d
  <2>1. w \in Nat
    BY <1>5
  <2>2. m \in Nat /\ w = d * m + (w % d)
    BY ONLY <1>1, <2>1, DivisionNat
  <2> HIDE DEF m
  <2>3. w = m * d
    BY <1>1, <1>6, <2>2
  <2>4. m >= k
    <3> SUFFICES ASSUME m < k PROVE FALSE
      BY <1>2, <2>2
    <3>1. k - m - 1 \in Nat
      BY <1>2, <2>2
    <3>2. (k - m - 1) * d \in Nat
      BY <1>1, <3>1
    <3>3. (k - m - 1) * d = k * d - m * d - d /\ m * d \in Nat
      BY <1>1, <1>2, <2>2
    <3>4. m * d >= k * d
      BY <1>5, <2>3
    <3> QED
      BY <1>1, <1>5, <3>2, <3>3, <3>4
  <2>5. m < k + 2
    <3> SUFFICES ASSUME m >= k + 2 PROVE FALSE
      BY <1>2, <2>2
    <3>1. m - k - 2 \in Nat
      BY <1>2, <2>2
    <3>2. (m - k - 2) * d \in Nat
      BY <1>1, <3>1
    <3>3. (m - k - 2) * d = m * d - (k * d + d + d) /\ m * d \in Nat
      BY <1>1, <1>2, <2>2
    <3>4. m * d < k * d + d + d
      <4>1. w <= hi /\ hi < k * d + d + d
        BY <1>4, <1>5
      <4> QED
        BY <1>1, <1>5, <2>1, <2>3, <4>1
    <3> QED
      BY <1>1, <1>5, <3>2, <3>3, <3>4
  <2>6. m = k \/ m = k + 1
    BY <1>2, <2>2, <2>4, <2>5
  <2> QED
    BY <2>3, <2>6
<1> QED
  BY <1>3, <1>5, <1>6

\* Between the ends of the walk there is at most the width of a cell.
LEMMA SpanBelow ==
    \A c \in Int, r \in Nat, a \in 1..AxisBits :
        Pow2[a] * r <= MaxRange
          => Normalize(c + r) <= Normalize(c - r) + Pow2[AxisBits - a]
<1> SUFFICES ASSUME NEW c \in Int, NEW r \in Nat, NEW a \in 1..AxisBits,
                    Pow2[a] * r <= MaxRange
             PROVE  Normalize(c + r) <= Normalize(c - r) + Pow2[AxisBits - a]
  OBVIOUS
<1> DEFINE d == Pow2[AxisBits - a]
           b == Pow2[a]
           t == Scale * d
           u == 2 * (Clamp(c - r) + MaxRange) + Scale
           w == 2 * (Clamp(c + r) + MaxRange) + Scale
           n == 2 * Scale
<1>1. d \in Nat \ {0} /\ b \in Nat \ {0}
  BY PrefixWidth, PowerPositive, Widths
<1>2. /\ AxisMax \in Nat /\ MaxRange \in Nat /\ Scale \in Nat \ {0}
      /\ 2 * MaxRange = Scale * AxisMax /\ Pow2[AxisBits] = AxisMax + 1
  BY Grid
<1>3. b * d = AxisMax + 1
  <2>1. a + (AxisBits - a) = AxisBits /\ a \in Nat /\ AxisBits - a \in Nat
        /\ AxisBits <= Word
    BY Widths
  <2>2. Pow2[a + (AxisBits - a)] = Pow2[a] * Pow2[AxisBits - a]
    BY <2>1, PowerAdds
  <2> QED
    BY <1>2, <2>1, <2>2
<1>4. 2 * r <= t
  <2>1. b * r <= MaxRange
    OBVIOUS
  <2> HIDE DEF b, d
  <2>2. b * t = Scale * (b * d) /\ b * t \in Nat /\ t \in Nat
    BY <1>1, <1>2
  <2>3. Scale * (AxisMax + 1) = Scale * AxisMax + Scale
    BY <1>2
  <2>4. b * t = Scale * AxisMax + Scale
    BY <1>3, <2>2, <2>3
  <2>5. b * (2 * r) = 2 * (b * r) /\ b * r \in Nat
    BY <1>1
  <2>6. b * (2 * r) < b * t
    BY <1>2, <2>1, <2>4, <2>5
  <2> HIDE DEF t
  <2> SUFFICES ASSUME 2 * r > t PROVE FALSE
    BY <2>2
  <2>7. 2 * r - t \in Nat /\ b * (2 * r - t) \in Nat
    BY <1>1, <2>2
  <2>8. b * (2 * r - t) = b * (2 * r) - b * t
    BY <1>1, <2>2
  <2> QED
    BY <2>2, <2>5, <2>6, <2>7, <2>8
<1>5. Clamp(c + r) \in Int /\ Clamp(c - r) \in Int /\ Clamp(c + r) <= Clamp(c - r) + 2 * r
  BY <1>2 DEF Clamp
<1>6. n * d = 2 * t /\ n * d \in Nat /\ t \in Nat /\ n \in Nat \ {0}
  BY <1>1, <1>2
<1>7. u \in Int /\ w \in Int /\ w <= u + n * d
  <2>1. w <= u + 4 * r /\ u \in Int /\ w \in Int
    BY <1>2, <1>5
  <2>2. 4 * r <= n * d
    <3> HIDE DEF t, n
    <3> QED
      BY <1>4, <1>6
  <2> HIDE DEF u, w, n, d
  <2> QED
    BY <1>6, <2>1, <2>2
<1>8. Normalize(c - r) = u \div n /\ Normalize(c + r) = w \div n
  BY DEF Normalize
<1> HIDE DEF u, w, n, d
<1> DEFINE p == u \div n
           s == u % n
<1>9. p \in Int /\ s \in 0..n - 1 /\ u = n * p + s
  BY ONLY <1>6, <1>7, DivisionLaw
<1>10. w \div n <= (u + n * d) \div n
  <2>1. u + n * d \in Int
    BY <1>6, <1>7
  <2> QED
    BY <1>6, <1>7, <2>1, DivisionMonotone
<1>11. (u + n * d) \div n = p + d
  <2> HIDE DEF p, s
  <2> DEFINE v == u + n * d
  <2>1. v \in Int /\ p + d \in Int
    BY <1>1, <1>6, <1>7, <1>9
  <2>2. n * (p + d) = n * p + n * d /\ n * p \in Int
    BY <1>1, <1>6, <1>9
  <2>3. v = n * (p + d) + s
    BY <1>6, <1>9, <2>2
  <2> HIDE DEF v
  <2>4. v \div n = p + d
    BY <1>6, <1>9, <2>1, <2>3, DivisionIs
  <2> QED
    BY <2>4 DEF v
<1> QED
  BY <1>8, <1>10, <1>11 DEF d

\* At the planned depth the walk along an axis has two corners at most.
LEMMA AlongTwo ==
    ASSUME NEW q, QueryTyped(q), NEW i \in {1, 2, 3}
    PROVE  \E f, g \in Nat : Along(q, LevelFor(q.radius), i) \subseteq {f, g}
<1> DEFINE a == LevelFor(q.radius)
           c == q.centre[i]
           r == q.radius
           lo == Normalize(c - r)
           hi == Normalize(c + r)
           d == Pow2[AxisBits - a]
           k == lo \div d
<1>1. c \in Int /\ r \in Nat
  BY DEF QueryTyped
<1>2. a \in 1..AxisBits /\ (a = 1 \/ Pow2[a] * r <= MaxRange)
  BY <1>1, LevelTyped
<1> HIDE DEF c, r, a
<1>3. lo \in Axes /\ hi \in Axes
  <2>1. c - r \in Int /\ c + r \in Int
    BY <1>1
  <2> QED
    BY <2>1, NormalizeTyped
<1>4. lo \in Nat /\ hi \in Nat /\ hi <= AxisMax
  BY <1>3, Grid DEF Axes
<1>5. d \in Nat \ {0}
  BY <1>2, PrefixWidth, PowerPositive, Widths
<1>6. a = 1 => 2 * d = AxisMax + 1
  <2> SUFFICES ASSUME a = 1 PROVE 2 * d = AxisMax + 1
    OBVIOUS
  <2>1. AxisBits \in 1..Word /\ d = Pow2[AxisBits - 1]
    BY Widths
  <2> QED
    BY <2>1, PowerLaw, Grid
<1>7. a # 1 => hi <= lo + d
  BY <1>1, <1>2, SpanBelow
<1>8. hi < (k + 2) * d
  <2> DEFINE s == lo % d
  <2> HIDE DEF lo, hi, d
  <2>1. k \in Nat /\ s \in Nat /\ s < d /\ lo = d * k + s
    BY ONLY <1>4, <1>5, DivisionNat
  <2> HIDE DEF k, s
  <2>2. (k + 2) * d = d * k + 2 * d /\ d * k \in Nat
    BY <1>5, <2>1
  <2> DEFINE g == d * k
  <2> HIDE DEF g
  <2>3. (k + 2) * d = g + 2 * d /\ g \in Nat /\ lo = g + s
    BY <2>1, <2>2 DEF g
  <2>4. AxisMax \in Nat
    BY Grid
  <2>5. hi < g + 2 * d
    BY <1>4, <1>5, <1>6, <1>7, <2>1, <2>3, <2>4
  <2> QED
    BY <2>3, <2>5
<1>9. Along(q, a, i) = Corners(lo, hi, a)
  BY DEF Along, c, r
<1> HIDE DEF lo, hi
<1>10. \E f, g \in Nat : Corners(lo, hi, a) \subseteq {f, g}
  BY <1>2, <1>4, <1>8, TwoCorners DEF k, d
<1> QED
  BY <1>9, <1>10 DEF a

\* The prefixes of a query are eight at most.
LEMMA PrefixesFew ==
    ASSUME NEW q, QueryTyped(q)
    PROVE  \E f1, f2, f3, f4, f5, f6, f7, f8 :
              SpatialPrefixes(q, LevelFor(q.radius))
                \subseteq {f1, f2, f3, f4, f5, f6, f7, f8}
<1> DEFINE a == LevelFor(q.radius)
           P(x, y, z) == Prefix(Morton(x, y, z), a)
<1>1. PICK x1, x2 \in Nat : Along(q, a, 1) \subseteq {x1, x2}
  BY AlongTwo
<1>2. PICK y1, y2 \in Nat : Along(q, a, 2) \subseteq {y1, y2}
  BY AlongTwo
<1>3. PICK z1, z2 \in Nat : Along(q, a, 3) \subseteq {z1, z2}
  BY AlongTwo
<1>4. SpatialPrefixes(q, a) =
        {P(x, y, z) : x \in Along(q, a, 1), y \in Along(q, a, 2), z \in Along(q, a, 3)}
  BY DEF SpatialPrefixes, Along
<1> HIDE DEF P, a
<1>5. SpatialPrefixes(q, a) \subseteq
        {P(x1, y1, z1), P(x1, y1, z2), P(x1, y2, z1), P(x1, y2, z2),
         P(x2, y1, z1), P(x2, y1, z2), P(x2, y2, z1), P(x2, y2, z2)}
  BY <1>1, <1>2, <1>3, <1>4
<1> QED
  BY <1>5 DEF a

\* Of an epoch, a plan has eight ranges at most.
LEMMA RangesFew ==
    ASSUME NEW q, QueryTyped(q), NEW e
    PROVE  Few({r \in WindowRanges(q) : r.first.epoch = e}, 8)
<1> DEFINE a == LevelFor(q.radius)
           C(f) == Cell(e, f, OffsetLo(e, q), OffsetHi(e, q), a)
           S == {r \in WindowRanges(q) : r.first.epoch = e}
<1>1. PICK f1, f2, f3, f4, f5, f6, f7, f8 :
        SpatialPrefixes(q, a) \subseteq {f1, f2, f3, f4, f5, f6, f7, f8}
  BY PrefixesFew
<1>2. ASSUME NEW r \in S PROVE \E f \in SpatialPrefixes(q, a) : r = C(f)
  <2>1. PICK x \in (q.start \div EpochSecs)..(q.end \div EpochSecs),
             f \in SpatialPrefixes(q, a) :
          r = Cell(x, f, OffsetLo(x, q), OffsetHi(x, q), a)
    BY DEF WindowRanges
  <2>2. r.first.epoch = x
    BY <2>1 DEF Cell
  <2>3. x = e
    BY <2>2
  <2> QED
    BY <2>1, <2>3
<1> HIDE DEF S, C, a
<1>3. S \in SUBSET {C(f1), C(f2), C(f3), C(f4), C(f5), C(f6), C(f7), C(f8)}
  BY <1>1, <1>2
<1>4. Few({C(f1), C(f2), C(f3), C(f4), C(f5), C(f6), C(f7), C(f8)}, 8)
  BY FewEight
<1>5. Few(S, 8)
  BY <1>3, <1>4, FewSubset
<1> QED
  BY <1>5 DEF S
=============================================================================
