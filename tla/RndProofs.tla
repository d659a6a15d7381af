----------------------------- MODULE RndProofs -----------------------------
(***************************************************************************)
(* Theorems about the streams of ssb-dbgen, for every width of the word    *)
(* and every multiplier that is a primitive element: however draws and     *)
(* jumps are mixed, a stream is where as many draws lead, and it comes     *)
(* back to its start only after the whole period.  Then the digits of      *)
(* bcd2.c, for every number of digits in a word: sums, products and        *)
(* quotients are those of the numbers they stand for, and hd_sparse's      *)
(* keys, computed and printed with digits, keep their blocks.              *)
(***************************************************************************)
EXTENDS MCRnd, NatFacts, TLAPS

-----------------------------------------------------------------------------
(* Quotient and remainder. *)

LEMMA Divided ==
  ASSUME NEW a \in Int, NEW n \in Nat \ {0}
  PROVE  /\ a \div n \in Int /\ a % n \in 0..(n - 1)
         /\ a = (a \div n) * n + (a % n)
BY SMT

(* A multiple of n is not closer to 0 than n, unless it is 0. *)
LEMMA MultipleFar ==
  ASSUME NEW d \in Int, NEW n \in Nat \ {0}, d * n < n, d * n > -n
  PROVE  d = 0
<1>1. CASE d >= 1
  <2>1. PICK e \in Nat : d = e + 1
    BY <1>1
  <2>2. d * n = e * n + n /\ e * n >= 0
    BY <2>1
  <2> QED
    BY <2>2
<1>2. CASE d <= -1
  <2>1. PICK e \in Nat : d = -(e + 1)
    BY <1>2
  <2>2. d * n = -(e * n) - n /\ e * n >= 0
    BY <2>1
  <2> QED
    BY <2>2
<1> QED
  BY <1>1, <1>2

(* There is only one quotient with its remainder. *)
LEMMA DivUnique ==
  ASSUME NEW q \in Int, NEW n \in Nat \ {0}, NEW r \in 0..(n - 1), NEW a \in Int, a = q * n + r
  PROVE  a \div n = q /\ a % n = r
<1> DEFINE u == a \div n
           v == a % n
<1>1. u \in Int /\ v \in 0..(n - 1) /\ a = u * n + v
  BY Divided
<1> HIDE DEF u, v
<1>2. (q - u) * n = v - r
  BY <1>1
<1>3. q - u \in Int /\ v - r < n /\ v - r > -n
  BY <1>1
<1>4. q - u = 0
  BY <1>2, <1>3, MultipleFar
<1> QED
  BY <1>1, <1>2, <1>4 DEF u, v

LEMMA ModIs ==
  ASSUME NEW n \in Nat \ {0}
  PROVE  \A a, q \in Int, r \in 0..(n - 1) : a = q * n + r => a % n = r
BY DivUnique

(* Equal modulo n. *)
LEMMA ModEqual ==
  ASSUME NEW n \in Nat \ {0}
  PROVE  \A a, b, m \in Int : a = m * n + b => a % n = b % n
<1> SUFFICES ASSUME NEW a \in Int, NEW b \in Int, NEW m \in Int, a = m * n + b
             PROVE  a % n = b % n
  OBVIOUS
<1> DEFINE u == b \div n
           v == b % n
<1>1. u \in Int /\ v \in 0..(n - 1) /\ b = u * n + v
  BY Divided
<1> HIDE DEF u, v
<1>2. a = (m + u) * n + v
  BY <1>1
<1>3. m + u \in Int
  BY <1>1
<1>4. a % n = v
  BY <1>1, <1>2, <1>3, DivUnique
<1> QED
  BY <1>4 DEF v

LEMMA ModSmall ==
  ASSUME NEW n \in Nat \ {0}, NEW a \in 0..(n - 1)
  PROVE  a % n = a
BY SMT

(* A factor may be reduced before or after the product. *)
LEMMA ModFactor ==
  ASSUME NEW a \in Int, NEW b \in Int, NEW n \in Nat \ {0}
  PROVE  ((a % n) * b) % n = (a * b) % n
<1> DEFINE u == a \div n
           v == a % n
<1>1. u \in Int /\ v \in 0..(n - 1) /\ a = u * n + v
  BY Divided
<1> HIDE DEF u, v
<1>2. a * b = (u * b) * n + v * b
  BY <1>1
<1>3. u * b \in Int /\ v * b \in Int /\ a * b \in Int
  BY <1>1
<1>4. (a * b) % n = (v * b) % n
  <2> DEFINE x == a * b
             y == v * b
             z == u * b
  <2>1. x \in Int /\ y \in Int /\ z \in Int /\ x = z * n + y
    BY <1>2, <1>3
  <2> HIDE DEF x, y, z
  <2>2. \A c, d, m \in Int : c = m * n + d => c % n = d % n
    BY ModEqual, Zenon
  <2>3. x % n = y % n
    BY <2>1, <2>2
  <2> QED
    BY <2>3 DEF x, y
<1> QED
  BY <1>4 DEF v

LEMMA ModFactorRight ==
  ASSUME NEW a \in Int, NEW b \in Int, NEW n \in Nat \ {0}
  PROVE  (a * (b % n)) % n = (a * b) % n
<1>1. b % n \in Int
  BY Divided
<1>2. a * (b % n) = (b % n) * a /\ a * b = b * a
  BY <1>1
<1> QED
  BY <1>2, ModFactor

-----------------------------------------------------------------------------
(* The masks. *)

LEMMA MaskIs ==
  /\ Mask \in [0..Bits -> Nat \ {0}] /\ Mask[0] = 1
  /\ \A k \in 1..Bits : Mask[k] = 2 * Mask[k - 1]
<1> DEFINE S == Nat \ {0}
           F == [z \in Nat \X S |-> 2 * z[2]]
           Is(f) == f = [k \in 0..Bits |-> IF k = 0 THEN 1 ELSE 2 * f[k - 1]]
<1>1. Bits \in Nat
  BY WidthAssumption
<1>2. 1 \in S /\ F \in [Nat \X S -> S]
  OBVIOUS
<1>3. \A x \in S, k \in Nat : F[<<k, x>>] = 2 * x
  OBVIOUS
<1> HIDE DEF S, F
<1>4. PICK f : Iterated(f, Bits, S, 1, F)
  BY <1>1, <1>2, Recursion
<1>5. Is(f)
  <2>1. f \in [0..Bits -> S] /\ f[0] = 1 /\ \A k \in 1..Bits : f[k] = F[<<k, f[k - 1]>>]
    BY <1>4 DEF Iterated
  <2>2. ASSUME NEW k \in 1..Bits
        PROVE  f[k] = 2 * f[k - 1]
    <3>1. k \in Nat /\ k - 1 \in 0..Bits
      BY <1>1
    <3>2. f[k - 1] \in S
      BY <2>1, <3>1
    <3> QED
      BY <1>3, <2>1, <3>1, <3>2
  <2>3. \A k \in 0..Bits : k # 0 => k \in 1..Bits
    BY <1>1
  <2>4. \A k \in 0..Bits : f[k] = IF k = 0 THEN 1 ELSE 2 * f[k - 1]
    BY <2>1, <2>2, <2>3
  <2> QED
    BY <2>1, <2>4
<1>6. Mask = CHOOSE g : Is(g)
  BY DEF Mask
<1>7. Is(Mask)
  BY <1>5, <1>6
<1>8. Mask[0] = 1 /\ \A k \in 1..Bits : Mask[k] = 2 * Mask[k - 1]
  <2>1. ASSUME NEW k \in 0..Bits
        PROVE  Mask[k] = IF k = 0 THEN 1 ELSE 2 * Mask[k - 1]
    BY <1>7, Zenon
  <2>2. 0 \in 0..Bits /\ \A k \in 1..Bits : k \in 0..Bits /\ k # 0
    BY <1>1
  <2> QED
    BY <2>1, <2>2
<1> DEFINE T == {k \in 0..Bits : Mask[k] \in S}
<1>9. 0..Bits \subseteq T
  <2>1. 0 \in T
    BY <1>1, <1>2, <1>8
  <2>2. \A n \in 0..(Bits - 1) : n \in T => n + 1 \in T
    <3> SUFFICES ASSUME NEW n \in 0..(Bits - 1), Mask[n] \in S
                 PROVE  n + 1 \in 0..Bits /\ Mask[n + 1] \in S
      OBVIOUS
    <3>1. n + 1 \in 1..Bits /\ (n + 1) - 1 = n
      BY <1>1
    <3>2. Mask[n + 1] = 2 * Mask[n]
      BY <1>8, <3>1
    <3> QED
      BY <3>1, <3>2 DEF S
  <2> HIDE DEF T
  <2> QED
    BY <1>1, <2>1, <2>2, UptoInduction
<1> QED
  BY <1>7, <1>8, <1>9 DEF S

(* The bits of a word are those of its halves. *)
LEMMA MaskAdd ==
  ASSUME NEW j \in 0..Bits
  PROVE  \A k \in 0..(Bits - j) : Mask[j + k] = Mask[j] * Mask[k]
<1> DEFINE c == Bits - j
           S == {k \in 0..c : Mask[j + k] = Mask[j] * Mask[k]}
<1>1. Bits \in Nat /\ j \in Nat /\ c \in Nat
  BY WidthAssumption
<1>2. 0 \in S
  BY <1>1, MaskIs
<1>3. \A n \in 0..(c - 1) : n \in S => n + 1 \in S
  <2> SUFFICES ASSUME NEW n \in 0..(c - 1), Mask[j + n] = Mask[j] * Mask[n]
               PROVE  n + 1 \in 0..c /\ Mask[j + (n + 1)] = Mask[j] * Mask[n + 1]
    OBVIOUS
  <2>1. /\ n + 1 \in 1..Bits /\ j + (n + 1) \in 1..Bits /\ n \in 0..Bits /\ j + n \in 0..Bits
        /\ (n + 1) - 1 = n /\ (j + (n + 1)) - 1 = j + n /\ n + 1 \in 0..c
    BY <1>1
  <2>2. Mask[n + 1] = 2 * Mask[n] /\ Mask[j + (n + 1)] = 2 * Mask[j + n]
    BY <2>1, MaskIs
  <2>3. Mask[n] \in Nat /\ Mask[j] \in Nat
    BY <2>1, MaskIs
  <2> DEFINE x == Mask[n]
             y == Mask[j]
  <2>4. 2 * (y * x) = y * (2 * x)
    <3>1. x \in Nat /\ y \in Nat
      BY <2>3
    <3> HIDE DEF x, y
    <3> QED
      BY <3>1
  <2> QED
    BY <2>1, <2>2, <2>4
<1> HIDE DEF S, c
<1>4. 0..c \subseteq S
  BY <1>1, <1>2, <1>3, UptoInduction
<1> QED
  BY <1>4 DEF S, c

LEMMA ModulusIs ==
  /\ Mask[Bits] \in Nat \ {0} /\ Modulus = Mask[Bits] - 1
  /\ Modulus \in Nat \ {0} /\ Modulus > nA /\ nA \in Nat /\ nA >= 2
  /\ Period \in Nat \ {0} /\ Period = Modulus - 1
<1>1. Bits \in 0..Bits
  BY WidthAssumption
<1>2. Mask[Bits] \in Nat \ {0}
  BY <1>1, MaskIs
<1> QED
  BY <1>2, WidthAssumption DEF Modulus, Period
-----------------------------------------------------------------------------
(* The powers of nA. *)

Units == 1..(Modulus - 1)

LEMMA UnitsClosed ==
  ASSUME NEW a \in Units, NEW b \in Units
  PROVE  (a * b) % Modulus \in Units
<1>1. Modulus \in Nat \ {0} /\ a \in Int /\ b \in Int
  BY ModulusIs DEF Units
<1>2. a * b \in Int
  BY <1>1
<1>3. (a * b) % Modulus \in 0..(Modulus - 1)
  BY <1>1, <1>2, Divided
<1>4. (a * b) % Modulus # 0
  BY PrimeAssumption DEF Units
<1> QED
  BY <1>1, <1>3, <1>4 DEF Units

LEMMA OneIsUnit == 1 \in Units /\ nA \in Units
  BY ModulusIs DEF Units

LEMMA PowerIs ==
  /\ Power \in [0..Period -> Units] /\ Power[0] = 1
  /\ \A k \in 1..Period : Power[k] = (nA * Power[k - 1]) % Modulus
<1> DEFINE F == [z \in Nat \X Units |-> (nA * z[2]) % Modulus]
           Is(f) == f = [k \in 0..Period |-> IF k = 0 THEN 1 ELSE (nA * f[k - 1]) % Modulus]
<1>1. Period \in Nat
  BY ModulusIs
<1>2. F \in [Nat \X Units -> Units]
  BY OneIsUnit, UnitsClosed
<1>3. \A x \in Units, k \in Nat : F[<<k, x>>] = (nA * x) % Modulus
  OBVIOUS
<1> HIDE DEF F
<1>4. PICK f : Iterated(f, Period, Units, 1, F)
  BY <1>1, <1>2, OneIsUnit, Recursion
<1>5. Is(f)
  <2>1. f \in [0..Period -> Units] /\ f[0] = 1 /\ \A k \in 1..Period : f[k] = F[<<k, f[k - 1]>>]
    BY <1>4 DEF Iterated
  <2>2. ASSUME NEW k \in 1..Period
        PROVE  f[k] = (nA * f[k - 1]) % Modulus
    <3>1. k \in Nat /\ k - 1 \in 0..Period
      BY <1>1
    <3>2. f[k - 1] \in Units
      BY <2>1, <3>1
    <3> QED
      BY <1>3, <2>1, <3>1, <3>2
  <2>3. \A k \in 0..Period : k # 0 => k \in 1..Period
    BY <1>1
  <2>4. \A k \in 0..Period : f[k] = IF k = 0 THEN 1 ELSE (nA * f[k - 1]) % Modulus
    BY <2>1, <2>2, <2>3
  <2> QED
    BY <2>1, <2>4
<1>6. Power = CHOOSE g : Is(g)
  BY DEF Power
<1>7. Is(Power)
  BY <1>5, <1>6
<1>8. Power[0] = 1 /\ \A k \in 1..Period : Power[k] = (nA * Power[k - 1]) % Modulus
  <2>1. ASSUME NEW k \in 0..Period
        PROVE  Power[k] = IF k = 0 THEN 1 ELSE (nA * Power[k - 1]) % Modulus
    BY <1>7, Zenon
  <2>2. 0 \in 0..Period /\ \A k \in 1..Period : k \in 0..Period /\ k # 0
    BY <1>1
  <2> QED
    BY <2>1, <2>2
<1> DEFINE T == {k \in 0..Period : Power[k] \in Units}
<1>9. 0..Period \subseteq T
  <2>1. 0 \in T
    BY <1>1, <1>8, OneIsUnit
  <2>2. \A n \in 0..(Period - 1) : n \in T => n + 1 \in T
    <3> SUFFICES ASSUME NEW n \in 0..(Period - 1), Power[n] \in Units
                 PROVE  n + 1 \in 0..Period /\ Power[n + 1] \in Units
      OBVIOUS
    <3>1. n + 1 \in 1..Period /\ (n + 1) - 1 = n /\ n + 1 \in 0..Period
      BY <1>1
    <3>2. Power[n + 1] = (nA * Power[n]) % Modulus
      BY <1>8, <3>1
    <3> QED
      BY <3>1, <3>2, OneIsUnit, UnitsClosed
  <2> HIDE DEF T
  <2> QED
    BY <1>1, <2>1, <2>2, UptoInduction
<1> QED
  BY <1>7, <1>8, <1>9

(* The product modulo Modulus is associative. *)
LEMMA ModAssociates ==
  ASSUME NEW a \in Int, NEW b \in Int, NEW c \in Int
  PROVE  (((a * b) % Modulus) * c) % Modulus = (a * ((b * c) % Modulus)) % Modulus
<1>1. Modulus \in Nat \ {0} /\ a * b \in Int /\ b * c \in Int
  BY ModulusIs
<1>2. (((a * b) % Modulus) * c) % Modulus = ((a * b) * c) % Modulus
  BY <1>1, ModFactor
<1>3. (a * ((b * c) % Modulus)) % Modulus = (a * (b * c)) % Modulus
  BY <1>1, ModFactorRight
<1>4. (a * b) * c = a * (b * c)
  OBVIOUS
<1> QED
  BY <1>2, <1>3, <1>4

LEMMA PowerAdd ==
  ASSUME NEW k \in 0..Period
  PROVE  \A j \in 0..(Period - k) : Power[j + k] = (Power[j] * Power[k]) % Modulus
<1> DEFINE c == Period - k
           S == {j \in 0..c : Power[j + k] = (Power[j] * Power[k]) % Modulus}
<1>1. Period \in Nat /\ k \in Nat /\ c \in Nat
  BY ModulusIs
<1>2. 0 \in S
  <2>1. Power[k] \in 0..(Modulus - 1) /\ Power[0] = 1 /\ 0 + k = k
    BY <1>1, PowerIs DEF Units
  <2>2. Power[k] % Modulus = Power[k] /\ 1 * Power[k] = Power[k]
    BY <2>1, ModulusIs, ModSmall
  <2> QED
    BY <1>1, <2>1, <2>2
<1>3. \A j \in 0..(c - 1) : j \in S => j + 1 \in S
  <2> SUFFICES ASSUME NEW j \in 0..(c - 1), Power[j + k] = (Power[j] * Power[k]) % Modulus
               PROVE  j + 1 \in 0..c /\ Power[(j + 1) + k] = (Power[j + 1] * Power[k]) % Modulus
    OBVIOUS
  <2>1. /\ j + 1 \in 1..Period /\ (j + 1) + k \in 1..Period /\ j \in 0..Period /\ j + k \in 0..Period
        /\ (j + 1) - 1 = j /\ ((j + 1) + k) - 1 = j + k /\ j + 1 \in 0..c
    BY <1>1
  <2>2. Power[j + 1] = (nA * Power[j]) % Modulus /\ Power[(j + 1) + k] = (nA * Power[j + k]) % Modulus
    BY <2>1, PowerIs
  <2>3. Power[j] \in Int /\ Power[k] \in Int /\ nA \in Int
    <3>1. Power[j] \in Units /\ Power[k] \in Units
      BY <2>1, PowerIs
    <3> QED
      BY <3>1, ModulusIs DEF Units
  <2>4. (((nA * Power[j]) % Modulus) * Power[k]) % Modulus = (nA * ((Power[j] * Power[k]) % Modulus)) % Modulus
    BY <2>3, ModAssociates
  <2> QED
    BY <2>1, <2>2, <2>4
<1> HIDE DEF S, c
<1>4. 0..c \subseteq S
  BY <1>1, <1>2, <1>3, UptoInduction
<1> QED
  BY <1>4 DEF S, c
(* After a whole period the powers begin again. *)
LEMMA PowerWraps ==
  ASSUME NEW j \in 0..Period, NEW k \in 0..Period, j + k >= Period
  PROVE  Power[j + k - Period] = (Power[j] * Power[k]) % Modulus
<1> DEFINE i == j + k - Period
           l == Period - j
<1>0. Period \in Nat /\ j \in Nat /\ k \in Nat /\ j <= Period /\ k <= Period
  BY ModulusIs
<1>a. i \in Nat /\ l \in Nat /\ i <= Period /\ l <= Period /\ l + i = k /\ j + l = Period
  BY <1>0
<1> HIDE DEF i, l
<1>1. i \in 0..Period /\ l \in 0..Period /\ l + i = k /\ j + l = Period /\ l \in 0..(Period - i) /\ j \in 0..(Period - l)
  BY <1>0, <1>a
<1>2. Power[k] = (Power[l] * Power[i]) % Modulus
  BY <1>1, PowerAdd
<1>3. (Power[j] * Power[l]) % Modulus = 1
  BY <1>1, PowerAdd, PrimitiveAssumption
<1>4. Power[i] \in Units /\ Power[j] \in Units /\ Power[l] \in Units
  BY <1>1, PowerIs
<1>5. Power[i] \in Int /\ Power[j] \in Int /\ Power[l] \in Int /\ Power[i] \in 0..(Modulus - 1)
  BY <1>4 DEF Units
<1>6. (((Power[j] * Power[l]) % Modulus) * Power[i]) % Modulus = (Power[j] * Power[k]) % Modulus
  BY <1>2, <1>5, ModAssociates
<1>7. (1 * Power[i]) % Modulus = Power[i]
  <2>1. 1 * Power[i] = Power[i]
    BY <1>5
  <2> QED
    BY <2>1, <1>5, ModulusIs, ModSmall
<1> QED
  BY <1>3, <1>6, <1>7 DEF i

(* Positions along the period add up as draws do. *)
LEMMA PowerMoves ==
  ASSUME NEW j \in 0..(Period - 1), NEW k \in 0..Period
  PROVE  (j + k) % Period \in 0..(Period - 1) /\ Power[(j + k) % Period] = (Power[j] * Power[k]) % Modulus
<1>1. Period \in Nat \ {0} /\ j \in 0..Period
  BY ModulusIs
<1>2. CASE j + k < Period
  <2>1. j + k \in 0..(Period - 1) /\ j \in 0..(Period - k)
    BY <1>1, <1>2
  <2>2. (j + k) % Period = j + k
    BY <1>1, <2>1, ModSmall
  <2> QED
    BY <2>1, <2>2, PowerAdd
<1>3. CASE j + k >= Period
  <2>1. j + k - Period \in 0..(Period - 1) /\ j + k \in Int /\ j + k = 1 * Period + (j + k - Period)
    BY <1>1, <1>3
  <2>2. (j + k) % Period = j + k - Period
    <3> DEFINE a == j + k
               r == j + k - Period
    <3>1. a \in Int /\ r \in 0..(Period - 1) /\ a = 1 * Period + r
      BY <2>1
    <3> HIDE DEF a, r
    <3>2. a % Period = r
      BY <1>1, <3>1, DivUnique
    <3> QED
      BY <3>2 DEF a, r
  <2> QED
    BY <1>1, <1>3, <2>1, <2>2, PowerWraps
<1> QED
  BY <1>1, <1>2, <1>3

-----------------------------------------------------------------------------
(* NextRand. *)

(* Schrage's trick: the product with nA without leaving the word. *)
LEMMA NextRandIs ==
  ASSUME NEW v \in Units
  PROVE  NextRand(v) = (nA * v) % Modulus
<1> DEFINE u == v \div nQ
           w == v % nQ
           next == nA * w - u * nR
<1>1. /\ Modulus \in Nat \ {0} /\ nA \in Nat \ {0} /\ v \in Nat /\ v < Modulus /\ nR < nQ
  BY ModulusIs, WidthAssumption DEF Units, nQ, nR
<1>2. nQ \in Int /\ nR \in 0..(nA - 1) /\ Modulus = nQ * nA + nR
  BY <1>1, Divided DEF nQ, nR
<1>3. nQ \in Nat \ {0} /\ nR \in Nat
  BY <1>1, <1>2
<1>4. u \in Int /\ w \in 0..(nQ - 1) /\ v = u * nQ + w
  BY <1>1, <1>3, Divided
<1>5. NextRand(v) = IF next < 0 THEN next + Modulus ELSE next
  BY DEF NextRand
<1> HIDE DEF u, w
<1>6. u \in Nat
  <2>1. SUFFICES ASSUME u <= -1 PROVE FALSE
    BY <1>4
  <2>2. PICK e \in Nat : u = -(e + 1)
    BY <1>4, <2>1
  <2>3. u * nQ = -(e * nQ) - nQ /\ e * nQ >= 0
    BY <1>3, <2>2
  <2> QED
    BY <1>1, <1>3, <1>4, <2>3
<1>7. nA * w <= nA * nQ - nA /\ nA * w >= 0
  <2>1. PICK e \in Nat : nQ = w + 1 + e
    BY <1>3, <1>4
  <2>2. nA * nQ = nA * w + nA + nA * e /\ nA * e >= 0 /\ nA * w >= 0
    BY <1>1, <1>4, <2>1
  <2>3. nA * w \in Int /\ nA * nQ \in Int /\ nA * e \in Int
    BY <1>1, <1>3, <1>4
  <2> QED
    BY <1>1, <2>2, <2>3
<1>8. u * nR <= u * nQ /\ u * nR >= 0
  <2>1. PICK e \in Nat : nQ = nR + e
    BY <1>1, <1>3
  <2>2. u * nQ = u * nR + u * e /\ u * e >= 0 /\ u * nR >= 0
    BY <1>3, <1>6, <2>1
  <2> QED
    BY <1>3, <1>6, <2>2
<1>9. nA * w \in Int /\ u * nR \in Int /\ u * nQ \in Int /\ nA * nQ \in Int /\ nQ * nA = nA * nQ
  BY <1>1, <1>3, <1>4, <1>6
<1>10. next \in Int /\ next < Modulus /\ next > -Modulus
  BY <1>1, <1>2, <1>3, <1>4, <1>7, <1>8, <1>9
<1>11. nA * v = u * Modulus + next
  <2>1. nA * v = nA * (u * nQ) + nA * w
    BY <1>1, <1>4, <1>9
  <2>2. u * Modulus = u * (nQ * nA) + u * nR
    BY <1>2, <1>3, <1>6, <1>1
  <2>3. nA * (u * nQ) = u * (nQ * nA)
    BY <1>1, <1>3, <1>6
  <2>4. u * (nQ * nA) \in Int /\ u * Modulus \in Int
    BY <1>1, <1>3, <1>6
  <2> QED
    BY <2>1, <2>2, <2>3, <2>4, <1>9
<1> DEFINE a == nA * v
<1>12. a \in Int /\ a = u * Modulus + next
  BY <1>1, <1>11
<1> HIDE DEF next, a
<1>13. CASE next < 0
  <2> DEFINE r == next + Modulus
             q == u - 1
  <2>1. r \in 0..(Modulus - 1) /\ q \in Int /\ a = q * Modulus + r
    BY <1>1, <1>6, <1>10, <1>12, <1>13
  <2> HIDE DEF r, q
  <2>2. a % Modulus = r
    BY <1>1, <1>12, <2>1, ModIs, Zenon
  <2> QED
    BY <1>5, <1>13, <2>2 DEF r, a
<1>14. CASE ~(next < 0)
  <2>1. next \in 0..(Modulus - 1)
    BY <1>1, <1>10, <1>14
  <2>2. a % Modulus = next
    BY <1>1, <1>6, <1>12, <2>1, DivUnique
  <2> QED
    BY <1>5, <1>14, <2>2 DEF a
<1> QED
  BY <1>13, <1>14
-----------------------------------------------------------------------------
(* RND_ModMult. *)

LEMMA QuotientBound ==
  ASSUME NEW a \in Nat, NEW n \in Nat \ {0}, NEW c \in Nat, a <= c * n
  PROVE  a \div n \in Nat /\ a \div n <= c
<1> DEFINE u == a \div n
           v == a % n
<1>1. u \in Int /\ v \in 0..(n - 1) /\ a = u * n + v
  BY Divided
<1> HIDE DEF u, v
<1>2. u >= 0
  <2>1. SUFFICES ASSUME u <= -1 PROVE FALSE
    BY <1>1
  <2>2. PICK e \in Nat : u = -(e + 1)
    BY <1>1, <2>1
  <2>3. u * n = -(e * n) - n /\ e * n >= 0
    BY <2>2
  <2> QED
    BY <1>1, <2>3
<1>3. u <= c
  <2>1. SUFFICES ASSUME u >= c + 1 PROVE FALSE
    BY <1>1
  <2>2. PICK e \in Nat : u = c + 1 + e
    BY <1>1, <2>1
  <2>3. u * n = c * n + n + e * n /\ e * n >= 0
    BY <2>2
  <2> QED
    BY <1>1, <2>3
<1> QED
  BY <1>1, <1>2, <1>3 DEF u

(* A number of at most one bit more than a word carries that bit. *)
LEMMA CarryIs ==
  ASSUME NEW x \in Nat, x < 2 * Mask[Bits]
  PROVE  IF x < Mask[Bits] THEN Carry(x) = 0 ELSE Carry(x) = 1
<1> DEFINE W == Mask[Bits]
<1>1. W \in Nat \ {0} /\ x < 2 * W
  BY ModulusIs
<1>2. Carry(x) = (x \div W) % 2
  BY DEF Carry
<1> HIDE DEF W
<1>3. CASE x < W
  <2>1. x = 0 * W + x /\ x \in 0..(W - 1)
    BY <1>1, <1>3
  <2>2. x \div W = 0
    BY <1>1, <2>1, DivUnique
  <2> QED
    BY <1>2, <1>3, <2>2 DEF W
<1>4. CASE ~(x < W)
  <2> DEFINE r == x - W
  <2>1. x = 1 * W + r /\ r \in 0..(W - 1)
    BY <1>1, <1>4
  <2> HIDE DEF r
  <2>2. x \div W = 1
    BY <1>1, <2>1, DivUnique
  <2> QED
    BY <1>2, <1>4, <2>2 DEF W
<1> QED
  BY <1>3, <1>4

(* Multiplying by the halves of b. *)
LEMMA SplitProduct ==
  ASSUME NEW a \in Nat, NEW L \in Nat, NEW H \in Nat, NEW W \in Nat, W = L * H,
         NEW b \in Int, NEW bl \in Int, NEW bh \in Int, b = bh * L + bl,
         NEW z \in Int, NEW w \in Int, a * bl = z * W + w,
         NEW x \in Int, NEW y \in Int, a * bh = x * H + y
  PROVE  a * b = (x + z) * W + (w + y * L)
<1>1. a * b = (a * bh) * L + a * bl
  OBVIOUS
<1>2. (a * bh) * L = (x * H) * L + y * L
  OBVIOUS
<1>3. (x * H) * L = x * W
  OBVIOUS
<1>4. (x + z) * W = x * W + z * W
  OBVIOUS
<1>5. x * W \in Int /\ z * W \in Int /\ y * L \in Int /\ (x + z) * W \in Int /\ (a * bh) * L \in Int
  OBVIOUS
<1> QED
  BY <1>1, <1>2, <1>3, <1>4, <1>5
LEMMA QuotientBelow ==
  ASSUME NEW a \in Nat, NEW n \in Nat \ {0}, NEW c \in Nat, a < c * n
  PROVE  a \div n \in Nat /\ a \div n <= c - 1
<1>1. a <= c * n
  OBVIOUS
<1>2. a \div n \in Nat /\ a \div n <= c
  BY <1>1, QuotientBound
<1>3. a \div n # c
  <2> DEFINE u == a \div n
             v == a % n
  <2>1. u \in Int /\ v \in 0..(n - 1) /\ a = u * n + v
    BY Divided
  <2> HIDE DEF u, v
  <2>2. u # c
    BY <2>1
  <2> QED
    BY <2>2 DEF u
<1> QED
  BY <1>2, <1>3

(* Products of numbers grow with them. *)
LEMMA ProductBound ==
  ASSUME NEW a \in Nat, NEW b \in Nat, NEW c \in Nat, NEW d \in Nat, a <= c, b <= d
  PROVE  a * b \in Nat /\ a * b <= c * d
<1>1. PICK e \in Nat : c = a + e
  OBVIOUS
<1>2. PICK f \in Nat : d = b + f
  OBVIOUS
<1>3. c * d = a * b + a * f + e * b + e * f
  BY <1>1, <1>2
<1>4. a * b \in Nat /\ a * f \in Nat /\ e * b \in Nat /\ e * f \in Nat
  OBVIOUS
<1> QED
  BY <1>3, <1>4

(* The widths of the two halves. *)
LEMMA HalvesOfWord ==
  /\ Mask[LowBits] \in Nat /\ Mask[LowBits] >= 2 /\ Mask[Bits - LowBits] \in Nat \ {0}
  /\ Mask[Bits] = Mask[LowBits] * Mask[Bits - LowBits]
<1>1. /\ Bits \in Nat /\ LowBits \in 0..Bits /\ LowBits \in 1..Bits /\ Bits - LowBits \in 0..(Bits - LowBits)
      /\ Bits - LowBits \in 0..Bits /\ LowBits + (Bits - LowBits) = Bits /\ LowBits - 1 \in 0..Bits
  BY WidthAssumption
<1>2. Mask[LowBits] = 2 * Mask[LowBits - 1] /\ Mask[LowBits - 1] \in Nat \ {0} /\ Mask[Bits - LowBits] \in Nat \ {0}
  BY <1>1, MaskIs
<1>3. Mask[LowBits + (Bits - LowBits)] = Mask[LowBits] * Mask[Bits - LowBits]
  BY <1>1, MaskAdd
<1>4. Mask[LowBits] \in Nat /\ Mask[LowBits] >= 2
  BY <1>2
<1> QED
  BY <1>1, <1>2, <1>3, <1>4

(* How large the words are that RND_ModMult adds. *)
LEMMA WordBounds ==
  ASSUME NEW L \in Nat, L >= 2, NEW H \in Nat \ {0}, NEW W \in Nat, W = L * H,
         NEW a \in Nat, a < W, NEW bl \in 0..(L - 1), NEW bh \in 0..(H - 1)
  PROVE  /\ a * bl \in Nat /\ (a * bl) \div W \in Nat /\ (a * bl) \div W <= L - 2
         /\ a * bh \in Nat /\ (a * bh) \div H \in Nat /\ (a * bh) \div H <= W - L
<1>1. W \in Nat \ {0} /\ L - 1 \in Nat /\ H - 1 \in Nat /\ W - 1 \in Nat /\ a <= W - 1 /\ a <= W
  OBVIOUS
<1>2. bl \in Nat /\ bl <= L - 1 /\ bh \in Nat /\ bh <= H - 1
  BY <1>1
<1> DEFINE al == a * bl
           ah == a * bh
<1>3. al \in Nat /\ al <= (W - 1) * (L - 1)
  BY <1>1, <1>2, ProductBound
<1>4. ah \in Nat /\ ah <= W * (H - 1)
  BY <1>1, <1>2, ProductBound
<1> HIDE DEF al, ah
<1>5. (W - 1) * (L - 1) = (L - 1) * W - (L - 1) /\ (L - 1) * W \in Nat
  BY <1>1
<1>6. al < (L - 1) * W
  BY <1>1, <1>3, <1>5
<1>7. al \div W \in Nat /\ al \div W <= (L - 1) - 1
  BY <1>1, <1>3, <1>6, QuotientBelow
<1>8. W * (H - 1) = (L * (H - 1)) * H /\ L * (H - 1) = W - L /\ L * (H - 1) \in Nat
  BY <1>1
<1>9. ah \div H \in Nat /\ ah \div H <= L * (H - 1)
  BY <1>4, <1>8, QuotientBound
<1> QED
  BY <1>3, <1>4, <1>7, <1>8, <1>9 DEF al, ah
(* RND_ModMult multiplies modulo Modulus. *)
LEMMA ModMultIs ==
  ASSUME NEW a \in Units, NEW b \in Units
  PROVE  RND_ModMult(a, b) = (a * b) % Modulus
<1> DEFINE W == Mask[Bits]
           L == Mask[LowBits]
           H == Mask[Bits - LowBits]
           bl == b % L
           bh == b \div L
           al == a * bl
           ah == a * bh
           z == al \div W
           w == al % W
           x == ah \div H
           y == ah % H
           q == w + y * L
           p == x + z + Carry(q)
           r == p + (q - Carry(q) * W)
           m == a * b
<1>1. /\ W \in Nat \ {0} /\ Modulus = W - 1 /\ Modulus \in Nat \ {0}
      /\ L \in Nat \ {0} /\ L >= 2 /\ H \in Nat \ {0} /\ W = L * H
  BY ModulusIs, HalvesOfWord
<1>2. a \in Nat /\ a < W /\ b \in Nat /\ b < W /\ m \in Int /\ m % Modulus \in Units
  <2>1. a \in Nat /\ a < W /\ b \in Nat /\ b < W
    BY <1>1 DEF Units
  <2>2. m \in Int
    BY <2>1
  <2> QED
    BY <2>1, <2>2, UnitsClosed
<1>3. RND_ModMult(a, b) = r - Carry(r) * W + Carry(r)
  BY DEF RND_ModMult
<1> HIDE DEF W, L, H
<1>4. bh \in Nat /\ bh <= H - 1 /\ bl \in 0..(L - 1) /\ b = bh * L + bl
  <2>1. b < H * L
    BY <1>1, <1>2
  <2>2. bh \in Nat /\ bh <= H - 1
    BY <1>1, <1>2, <2>1, QuotientBelow
  <2>3. bl \in 0..(L - 1) /\ b = bh * L + bl
    BY <1>1, <1>2, Divided
  <2> QED
    BY <2>2, <2>3
<1> HIDE DEF bl, bh
<1>5. /\ al \in Nat /\ z \in Nat /\ z <= L - 2
      /\ ah \in Nat /\ x \in Nat /\ x <= W - L
  <2>1. bh \in 0..(H - 1)
    BY <1>1, <1>4
  <2> QED
    BY <1>1, <1>2, <1>4, <2>1, WordBounds
<1>6. w \in 0..(W - 1) /\ al = z * W + w /\ y \in 0..(H - 1) /\ ah = x * H + y
  <2>1. al \in Int /\ ah \in Int
    BY <1>5
  <2> HIDE DEF al, ah
  <2>2. w \in 0..(W - 1) /\ al = z * W + w
    BY <1>1, <2>1, Divided
  <2>3. y \in 0..(H - 1) /\ ah = x * H + y
    BY <1>1, <2>1, Divided
  <2> QED
    BY <2>2, <2>3
<1> HIDE DEF z, w, x, y
<1>7. m = (x + z) * W + q
  <2>1. a * bl = z * W + w /\ a * bh = x * H + y
    BY <1>6
  <2>2. w \in Int /\ y \in Int /\ bl \in Int
    BY <1>1, <1>4, <1>6
  <2> QED
    BY <1>1, <1>2, <1>4, <1>5, <2>1, <2>2, SplitProduct
<1> HIDE DEF al, ah, m
<1>8. q \in Nat /\ q < 2 * W
  <2>1. y * L \in Nat /\ y * L <= H * L
    BY <1>1, <1>6, ProductBound
  <2>2. H * L = W
    BY <1>1
  <2> QED
    BY <1>1, <1>6, <2>1, <2>2
<1> HIDE DEF q
<1> DEFINE c == Carry(q)
           s == q - c * W
<1>9. c \in {0, 1} /\ s \in 0..(W - 1)
  <2>1. CASE q < W
    <3>1. c = 0
      BY <1>8, <2>1, CarryIs DEF W
    <3> HIDE DEF c
    <3> QED
      BY <1>1, <1>8, <2>1, <3>1
  <2>2. CASE ~(q < W)
    <3>1. c = 1
      BY <1>8, <2>2, CarryIs DEF W
    <3> HIDE DEF c
    <3> QED
      BY <1>1, <1>8, <2>2, <3>1
  <2> QED
    BY <2>1, <2>2
<1>10. p = x + z + c /\ r = p + s
  OBVIOUS
<1>11. p \in Nat /\ p <= W - 1
  BY <1>1, <1>5, <1>9, <1>10
<1>12. m = p * W + s
  <2>1. q = c * W + s /\ c * W \in Int
    BY <1>1, <1>8, <1>9
  <2>2. p * W = (x + z) * W + c * W
    BY <1>1, <1>5, <1>9, <1>10
  <2> HIDE DEF c, s, p
  <2>3. (x + z) * W \in Int /\ p * W \in Int
    BY <1>1, <1>5, <1>11
  <2> QED
    BY <1>7, <1>8, <1>9, <2>1, <2>2, <2>3
<1> HIDE DEF c, s, p
<1>13. r \in Nat /\ r < 2 * W - 1 /\ m = p * Modulus + r
  <2>1. p * Modulus = p * W - p
    BY <1>1, <1>11
  <2>2. p * W \in Int
    BY <1>1, <1>11
  <2> QED
    BY <1>1, <1>9, <1>10, <1>11, <1>12, <2>1, <2>2
<1> HIDE DEF r
<1> DEFINE t == r - Carry(r) * W + Carry(r)
<1>14. \E n \in Int : m = n * Modulus + t /\ t \in 0..Modulus
  <2>0. r < 2 * W
    BY <1>1, <1>13
  <2>1. CASE r < W
    <3>1. Carry(r) = 0
      BY <1>13, <2>0, <2>1, CarryIs DEF W
    <3>2. t = r
      BY <1>1, <1>13, <3>1
    <3> HIDE DEF t
    <3>3. t \in 0..Modulus /\ m = p * Modulus + t /\ p \in Int
      BY <1>1, <1>11, <1>13, <2>1, <3>2
    <3> QED
      BY <3>3
  <2>2. CASE ~(r < W)
    <3>1. Carry(r) = 1
      BY <1>13, <2>0, <2>2, CarryIs DEF W
    <3>2. t = r - Modulus
      BY <1>1, <1>13, <3>1
    <3> HIDE DEF t
    <3>3. t \in 0..Modulus
      BY <1>1, <1>13, <2>2, <3>2
    <3>4. m = (p + 1) * Modulus + t
      BY <1>1, <1>11, <1>13, <3>2
    <3> QED
      BY <1>11, <3>3, <3>4
  <2> QED
    BY <2>1, <2>2
<1> HIDE DEF t
<1>15. PICK n \in Int : m = n * Modulus + t /\ t \in 0..Modulus
  BY <1>14
<1>16. t # Modulus
  <2>1. SUFFICES ASSUME t = Modulus PROVE FALSE
    OBVIOUS
  <2>2. m = (n + 1) * Modulus + 0 /\ n + 1 \in Int /\ 0 \in 0..(Modulus - 1)
    BY <1>1, <1>15, <2>1
  <2>3. m % Modulus = 0
    BY <1>1, <1>2, <2>2, ModIs, Zenon
  <2> QED
    BY <1>2, <2>3 DEF Units
<1>17. t \in 0..(Modulus - 1)
  BY <1>1, <1>15, <1>16
<1>18. m % Modulus = t
  BY <1>1, <1>2, <1>15, <1>17, ModIs, Zenon
<1> QED
  BY <1>3, <1>18 DEF t, m
-----------------------------------------------------------------------------
(* RND_seed. *)

(* Shifting by one bit less appends the next bit of n. *)
LEMMA NextBit ==
  ASSUME NEW n \in Nat, NEW m \in Nat \ {0}
  PROVE  LET h == n \div (2 * m)
         IN /\ h \in Nat
            /\ \/ n \div m = 2 * h /\ (n \div m) % 2 = 0
               \/ n \div m = 2 * h + 1 /\ (n \div m) % 2 = 1
<1> DEFINE h == n \div (2 * m)
           d == 2 * m
           s == n % (2 * m)
<1>1. d \in Nat \ {0} /\ n <= n * d /\ n \in Int
  OBVIOUS
<1>2. h = n \div d /\ s = n % d /\ d = 2 * m
  OBVIOUS
<1> HIDE DEF h, s, d
<1>a. h \in Nat
  BY <1>1, <1>2, QuotientBound
<1>3. s \in 0..(d - 1) /\ n = h * d + s
  BY <1>1, <1>2, Divided
<1>b. h * d = (2 * h) * m /\ s \in Nat /\ s < 2 * m /\ h * d \in Int
  <2>1. s \in Nat /\ s < 2 * m
    BY <1>2, <1>3
  <2>2. h * (2 * m) = (2 * h) * m /\ h * (2 * m) \in Int
    BY <1>a
  <2> QED
    BY <1>2, <2>1, <2>2
<1>4. CASE s < m
  <2> DEFINE q == 2 * h
  <2>1. n = q * m + s /\ s \in 0..(m - 1) /\ q \in Int
    BY <1>a, <1>b, <1>3, <1>4
  <2>2. q % 2 = 0
    BY <1>a
  <2> HIDE DEF q
  <2>3. n \div m = q
    BY <2>1, DivUnique
  <2> QED
    BY <1>a, <2>2, <2>3 DEF h, q
<1>5. CASE ~(s < m)
  <2> DEFINE q == 2 * h + 1
             r == s - m
  <2>0. q * m = (2 * h) * m + m /\ (2 * h) * m \in Int
    BY <1>a
  <2>1. n = q * m + r /\ r \in 0..(m - 1) /\ q \in Int
    BY <1>a, <1>b, <1>3, <1>5, <2>0
  <2>2. q % 2 = 1
    BY <1>a
  <2> HIDE DEF q, r
  <2>3. n \div m = q
    BY <2>1, DivUnique
  <2> QED
    BY <1>a, <2>2, <2>3 DEF h, q
<1> QED
  BY <1>4, <1>5

(* The bits of n from bit k on. *)
Shifted(n, k) == n \div Mask[k]

LEMMA ShiftedIs ==
  ASSUME NEW n \in 0..Period, NEW k \in 0..Bits
  PROVE  Shifted(n, k) \in 0..Period /\ (Mask[k] > n => Shifted(n, k) = 0)
<1>1. Mask[k] \in Nat \ {0} /\ n \in Nat /\ Period \in Nat /\ n <= Period
  BY MaskIs, ModulusIs
<1> DEFINE m == Mask[k]
<1> HIDE DEF m
<1>2. m \in Nat \ {0} /\ Shifted(n, k) = n \div m
  BY <1>1 DEF m, Shifted
<1>3. n <= n * m
  BY <1>1, <1>2
<1>4. n \div m \in Nat /\ n \div m <= n
  BY <1>1, <1>2, <1>3, QuotientBound
<1>5. ASSUME m > n
      PROVE  n \div m = 0
  BY <1>1, <1>2, <1>5, SMT
<1>6. n \div m \in 0..Period
  BY <1>1, <1>4
<1> QED
  BY <1>2, <1>5, <1>6 DEF m

(* One round of RND_seed's loop: square, and multiply if the bit is set. *)
Round(n, k, half) ==
  IF (n \div Mask[k]) % 2 = 1 THEN RND_ModMult(RND_ModMult(half, half), nA) ELSE RND_ModMult(half, half)

LEMMA RoundIs ==
  ASSUME NEW n \in 0..Period, NEW k \in 0..(Bits - 1)
  PROVE  Round(n, k, Power[Shifted(n, k + 1)]) = Power[Shifted(n, k)]
<1> DEFINE h == Shifted(n, k + 1)
           half == Power[h]
           g == Shifted(n, k)
<1>1. Bits \in Nat /\ k \in 0..Bits /\ k + 1 \in 1..Bits /\ k + 1 \in 0..Bits /\ (k + 1) - 1 = k
  BY WidthAssumption
<1>2. Mask[k + 1] = 2 * Mask[k] /\ Mask[k] \in Nat \ {0} /\ n \in Nat
  BY <1>1, MaskIs, ModulusIs
<1>3. h \in 0..Period /\ g \in 0..Period /\ Period \in Nat
  BY <1>1, ShiftedIs, ModulusIs
<1>4. \/ g = 2 * h /\ g % 2 = 0
      \/ g = 2 * h + 1 /\ g % 2 = 1
  BY <1>2, NextBit DEF Shifted
<1>5. Round(n, k, half) = IF g % 2 = 1 THEN RND_ModMult(RND_ModMult(half, half), nA) ELSE RND_ModMult(half, half)
  BY DEF Round, Shifted
<1> HIDE DEF h, g
<1>6. half \in Units /\ nA \in Units
  BY <1>3, PowerIs, OneIsUnit
<1>7. h + h <= Period /\ h \in 0..(Period - h) /\ h + h \in 0..Period
  BY <1>3, <1>4
<1>8. RND_ModMult(half, half) = Power[h + h]
  BY <1>3, <1>6, <1>7, PowerAdd, ModMultIs
<1>9. CASE g = 2 * h /\ g % 2 = 0
  <2>1. g = h + h
    BY <1>3, <1>9
  <2> QED
    BY <1>5, <1>8, <1>9, <2>1 DEF h, g
<1>10. CASE g = 2 * h + 1 /\ g % 2 = 1
  <2> DEFINE d == h + h
  <2>1. g = d + 1 /\ g \in 1..Period /\ g - 1 = d /\ d \in 0..Period
    BY <1>3, <1>7, <1>10
  <2> HIDE DEF d
  <2>2. Power[g] = (nA * Power[d]) % Modulus /\ Power[d] \in Units
    BY <2>1, PowerIs
  <2>3. RND_ModMult(Power[d], nA) = (Power[d] * nA) % Modulus
    BY <2>2, <1>6, ModMultIs
  <2>4. Power[d] * nA = nA * Power[d]
    BY <2>2, <1>6 DEF Units
  <2> QED
    BY <1>5, <1>8, <1>10, <2>2, <2>3, <2>4 DEF h, g, d
<1> QED
  BY <1>4, <1>9, <1>10

LEMMA ForwardIs ==
  ASSUME NEW k \in (1 - Modulus)..(Modulus - 1)
  PROVE  Forward(k) \in 0..Period /\ \A j \in 0..(Period - 1) : (j + k) % Period = (j + Forward(k)) % Period
<1>1. Modulus \in Nat /\ Period \in Nat \ {0} /\ Period = Modulus - 1 /\ k \in Int
  BY ModulusIs
<1>2. CASE k < 0
  <2>1. Forward(k) = Period + k /\ Forward(k) \in 0..Period
    BY <1>1, <1>2 DEF Forward
  <2>2. ASSUME NEW j \in 0..(Period - 1)
        PROVE  (j + k) % Period = (j + Forward(k)) % Period
    <3> DEFINE a == j + k
               b == j + Forward(k)
    <3>1. 1 \in Int /\ a \in Int /\ b \in Int /\ b = 1 * Period + a
      BY <1>1, <2>1
    <3> HIDE DEF a, b
    <3>2. b % Period = a % Period
      BY <1>1, <3>1, ModEqual, Zenon
    <3> QED
      BY <3>2 DEF a, b
  <2> QED
    BY <2>1, <2>2
<1>3. CASE ~(k < 0)
  BY <1>1, <1>3 DEF Forward
<1> QED
  BY <1>2, <1>3
(* The loop of RND_seed raises nA to the power that the jump stands for:   *)
(* after the round for bit k it holds the power of the bits from k on.     *)
LEMMA SeedIs ==
  ASSUME NEW d \in (1 - Modulus)..(Modulus - 1)
  PROVE  RND_seed(d) = Power[Forward(d)]
<1> DEFINE n == Forward(d)
           Is(f) == f = [k \in 0..Bits |->
                           IF Mask[k] > n THEN 1
                           ELSE LET half == f[k + 1]
                                    square == RND_ModMult(half, half)
                                IN IF (n \div Mask[k]) % 2 = 1 THEN RND_ModMult(square, nA) ELSE square]
           result == CHOOSE f : Is(f)
           closed == [k \in 0..Bits |-> Power[Shifted(n, k)]]
<1>1. RND_seed(d) = result[0]
  BY DEF RND_seed
<1>2. n \in 0..Period /\ Bits \in Nat
  BY ForwardIs, WidthAssumption
<1> HIDE DEF n
<1>3. \A k \in 0..Bits : Mask[k] <= n => k \in 0..(Bits - 1) /\ k + 1 \in 0..Bits
  <2> SUFFICES ASSUME NEW k \in 0..Bits, Mask[k] <= n
               PROVE  k # Bits
    BY <1>2
  <2> QED
    BY <1>2, ModulusIs
<1>4. \A k \in 0..Bits : Mask[k] > n => Power[Shifted(n, k)] = 1
  BY <1>2, ShiftedIs, PowerIs
<1>5. \A k \in 0..Bits : Mask[k] \in Nat /\ n \in Nat
  BY <1>2, MaskIs, ModulusIs
<1>6. \A f : Is(f) <=> f = [k \in 0..Bits |-> IF Mask[k] > n THEN 1 ELSE Round(n, k, f[k + 1])]
  BY DEF Round
<1>7. Is(closed)
  <2>1. \A k \in 0..Bits : closed[k] = IF Mask[k] > n THEN 1 ELSE Round(n, k, closed[k + 1])
    <3> SUFFICES ASSUME NEW k \in 0..Bits
                 PROVE  closed[k] = IF Mask[k] > n THEN 1 ELSE Round(n, k, closed[k + 1])
      OBVIOUS
    <3>1. CASE Mask[k] > n
      BY <1>4, <3>1
    <3>2. CASE ~(Mask[k] > n)
      <4>1. k \in 0..(Bits - 1) /\ k + 1 \in 0..Bits
        BY <1>3, <1>5, <3>2
      <4>2. closed[k + 1] = Power[Shifted(n, k + 1)] /\ closed[k] = Power[Shifted(n, k)]
        BY <4>1
      <4> QED
        BY <1>2, <3>2, <4>1, <4>2, RoundIs
    <3> QED
      BY <3>1, <3>2
  <2>2. closed = [k \in 0..Bits |-> closed[k]]
    OBVIOUS
  <2> HIDE DEF closed, Is
  <2>3. [k \in 0..Bits |-> closed[k]] = [k \in 0..Bits |-> IF Mask[k] > n THEN 1 ELSE Round(n, k, closed[k + 1])]
    BY <2>1
  <2> QED
    BY <1>6, <2>2, <2>3
<1>8. Is(result)
  <2> HIDE DEF closed, Is
  <2> QED
    BY <1>7
<1>9. ASSUME NEW k \in 0..Bits
      PROVE  result[k] = IF Mask[k] > n THEN 1 ELSE Round(n, k, result[k + 1])
  <2> HIDE DEF Is, result
  <2>1. result = [i \in 0..Bits |-> IF Mask[i] > n THEN 1 ELSE Round(n, i, result[i + 1])]
    BY <1>6, <1>8
  <2> QED
    BY <2>1, Zenon
<1> HIDE DEF result, Is, closed
<1> DEFINE S == {j \in 0..Bits : result[Bits - j] = Power[Shifted(n, Bits - j)]}
<1>10. 0 \in S
  <2>1. Bits - 0 = Bits /\ Bits \in 0..Bits /\ 0 \in 0..Bits /\ ~(Bits \in 0..(Bits - 1))
    BY <1>2
  <2>2. Mask[Bits] > n
    BY <1>3, <1>5, <2>1
  <2> QED
    BY <1>4, <1>9, <2>1, <2>2
<1>11. \A j \in 0..(Bits - 1) : j \in S => j + 1 \in S
  <2> SUFFICES ASSUME NEW j \in 0..(Bits - 1), result[Bits - j] = Power[Shifted(n, Bits - j)]
               PROVE  j + 1 \in 0..Bits /\ result[Bits - (j + 1)] = Power[Shifted(n, Bits - (j + 1))]
    OBVIOUS
  <2> DEFINE k == Bits - (j + 1)
  <2>1. k \in 0..(Bits - 1) /\ k \in 0..Bits /\ k + 1 = Bits - j /\ j + 1 \in 0..Bits
    BY <1>2
  <2> HIDE DEF k
  <2>2. CASE Mask[k] > n
    BY <1>4, <1>9, <2>1, <2>2 DEF k
  <2>3. CASE ~(Mask[k] > n)
    <3>1. result[k] = Round(n, k, Power[Shifted(n, k + 1)])
      BY <1>9, <2>1, <2>3
    <3> QED
      BY <1>2, <2>1, <3>1, RoundIs DEF k
  <2> QED
    BY <2>2, <2>3
<1> HIDE DEF S
<1>12. 0..Bits \subseteq S
  BY <1>2, <1>10, <1>11, UptoInduction
<1>13. Bits \in S
  BY <1>2, <1>12
<1>14. result[0] = Power[Shifted(n, 0)]
  <2>1. Bits - Bits = 0
    BY <1>2
  <2> QED
    BY <1>13, <2>1 DEF S
<1>15. Shifted(n, 0) = n
  BY <1>2, MaskIs, ModulusIs DEF Shifted
<1> QED
  BY <1>1, <1>14, <1>15 DEF n

LEMMA NthElementIs ==
  ASSUME NEW d \in (1 - Modulus)..(Modulus - 1), NEW v \in Units
  PROVE  NthElement(d, v) = (v * Power[Forward(d)]) % Modulus
<1>1. Power[Forward(d)] \in Units
  BY ForwardIs, PowerIs
<1> QED
  BY <1>1, SeedIs, ModMultIs DEF NthElement

-----------------------------------------------------------------------------
(* The streams. *)

Inv ==
  /\ start \in Units /\ at \in 0..(Period - 1)
  /\ Positioned

LEMMA InvInit == Init => Inv
<1> SUFFICES ASSUME Init
             PROVE  Inv
  OBVIOUS
<1>1. start \in Units /\ at = 0 /\ value = start /\ start \in 0..(Modulus - 1)
  BY DEF Init, Units
<1>2. Power[0] = 1 /\ start * 1 = start /\ start % Modulus = start /\ 0 \in 0..(Period - 1)
  BY <1>1, PowerIs, ModulusIs, ModSmall
<1> QED
  BY <1>1, <1>2 DEF Inv, Positioned

LEMMA PowerHere == ASSUME Inv PROVE Power[at] \in Units
<1>1. at \in 0..Period
  BY ModulusIs DEF Inv
<1> QED
  BY <1>1, PowerIs

(* A stream that moves on by k draws. *)
LEMMA Moves ==
  ASSUME Inv, NEW k \in 0..Period,
         at' = (at + k) % Period, value' = (value * Power[k]) % Modulus, start' = start
  PROVE  Inv'
<1>1. at' \in 0..(Period - 1) /\ Power[at'] = (Power[at] * Power[k]) % Modulus
  BY PowerMoves DEF Inv
<1>2. Power[at] \in Units /\ Power[k] \in Units /\ start \in Units
  BY PowerHere, PowerIs DEF Inv
<1>3. Power[at] \in Int /\ Power[k] \in Int /\ start \in Int
  BY <1>2 DEF Units
<1>4. value' = (((start * Power[at]) % Modulus) * Power[k]) % Modulus
  BY DEF Inv, Positioned
<1>5. value' = (start * ((Power[at] * Power[k]) % Modulus)) % Modulus
  BY <1>3, <1>4, ModAssociates
<1> QED
  BY <1>1, <1>2, <1>5 DEF Inv, Positioned

LEMMA ValueIsUnit == ASSUME Inv PROVE value \in Units
  BY PowerHere, UnitsClosed DEF Inv, Positioned

LEMMA InvNext == Inv /\ [Next]_vars => Inv'
<1> SUFFICES ASSUME Inv, [Next]_vars
             PROVE  Inv'
  OBVIOUS
<1>1. CASE Draw
  <2>1. value \in Units /\ NextRand(value) = (nA * value) % Modulus
    BY ValueIsUnit, NextRandIs
  <2>2. 1 \in 0..Period /\ 1 \in 1..Period /\ 1 - 1 = 0
    BY ModulusIs
  <2>3. Power[1] = nA
    <3>1. Power[1] = (nA * 1) % Modulus
      BY <2>2, PowerIs
    <3>2. nA * 1 = nA /\ nA \in 0..(Modulus - 1)
      BY ModulusIs
    <3>3. nA % Modulus = nA
      BY <3>2, ModulusIs, ModSmall
    <3> QED
      BY <3>1, <3>2, <3>3
  <2>4. nA * value = value * nA
    BY <2>1, ModulusIs DEF Units
  <2> QED
    BY <1>1, <2>1, <2>2, <2>3, <2>4, Moves DEF Draw
<1>2. ASSUME NEW n \in Shifts, Advance(n)
      PROVE  Inv'
  <2>1. n \in (1 - Modulus)..(Modulus - 1)
    BY WidthAssumption
  <2>2. value \in Units /\ NthElement(n, value) = (value * Power[Forward(n)]) % Modulus
    BY <2>1, ValueIsUnit, NthElementIs
  <2>3. Forward(n) \in 0..Period /\ (at + n) % Period = (at + Forward(n)) % Period
    BY <2>1, ForwardIs DEF Inv
  <2> QED
    BY <1>2, <2>2, <2>3, Moves DEF Advance
<1>3. CASE UNCHANGED vars
  BY <1>3 DEF vars, Inv, Positioned
<1> QED
  BY <1>1, <1>2, <1>3 DEF Next

(* However draws and jumps of set_state and row_stop are mixed, forwards   *)
(* or backwards, a stream of rnd.c has the value that as many calls of     *)
(* NextRand give: a part that is skipped leaves the streams where          *)
(* generating it would.                                                    *)
THEOREM JumpsAreDraws == Spec => []Positioned
<1>1. Inv => Positioned
  BY DEF Inv
<1> QED
  BY <1>1, InvInit, InvNext, PTL DEF Spec

(* NextRand and NthElement never hit 0 or nM, and a stream comes back to   *)
(* its start only at a multiple of the whole period, as rnd.c's comment    *)
(* says.                                                                   *)
THEOREM PeriodIsFull == Spec => []FullPeriod
<1>1. ASSUME Inv
      PROVE  FullPeriod
  <2>1. value \in Units
    BY <1>1, ValueIsUnit
  <2>2. ASSUME value = start
        PROVE  at = 0
    <3> DEFINE s == start
               p == Power[at]
               m == s * (p - 1)
    <3>1. s \in Units /\ p \in Units /\ (s * p) % Modulus = s /\ at \in 0..(Period - 1)
      BY <1>1, <2>2, PowerHere DEF Inv, Positioned
    <3> HIDE DEF s, p
    <3>2. s \in Int /\ p \in Int /\ p >= 1 /\ Modulus \in Nat \ {0}
      BY <3>1, ModulusIs DEF Units
    <3>3. ASSUME p # 1
          PROVE  FALSE
      <4>1. p - 1 \in Units
        BY <3>1, <3>2, <3>3 DEF Units
      <4>2. (s * (p - 1)) % Modulus # 0
        BY <3>1, <4>1, PrimeAssumption DEF Units
      <4> DEFINE c == s * p
                 u == c \div Modulus
      <4>3. c \in Int
        BY <3>2
      <4>4. u \in Int /\ c = u * Modulus + s
        BY <3>1, <3>2, <4>3, Divided
      <4>5. m = c - s /\ m \in Int
        BY <3>2
      <4>6. m = u * Modulus + 0 /\ 0 \in Int /\ 0 \in 0..(Modulus - 1)
        <5> HIDE DEF m, u, c
        <5> QED
          BY <3>2, <4>3, <4>4, <4>5
      <4> HIDE DEF m, u
      <4>7. m % Modulus = 0
        BY <3>2, <4>4, <4>5, <4>6, ModIs, Zenon
      <4> QED
        BY <4>2, <4>7 DEF m
    <3>4. at \notin 1..(Period - 1)
      BY <3>3, PrimitiveAssumption DEF p
    <3> QED
      BY <3>1, <3>4, ModulusIs
  <2> QED
    BY <2>1, <2>2 DEF FullPeriod, Units
<1> QED
  BY <1>1, InvInit, InvNext, PTL DEF Spec

(* RND_ModMult, with its halves and its two carries, is the product modulo *)
(* nM of any two values that a stream can have.                            *)
THEOREM ModMultMultiplies == Spec => []ModMultIsProduct
<1>1. ASSUME Inv
      PROVE  ModMultIsProduct
  <2>1. value \in Units /\ start \in Units
    BY <1>1, ValueIsUnit DEF Inv
  <2> QED
    BY <2>1, ModMultIs DEF ModMultIsProduct
<1> QED
  BY <1>1, InvInit, InvNext, PTL DEF Spec

-----------------------------------------------------------------------------
(* Decimal digits. *)

(* A function that obeys its recursive equation as long as it stays in S   *)
(* does stay in S.                                                         *)
LEMMA Computed ==
  ASSUME NEW c \in Nat, NEW S, NEW f, f[0] \in S,
         \A k \in 1..c : f[k - 1] \in S => f[k] \in S
  PROVE  \A k \in 0..c : f[k] \in S
<1> DEFINE T == {k \in 0..c : f[k] \in S}
<1>1. 0 \in T
  OBVIOUS
<1>2. ASSUME NEW n \in 0..(c - 1), n \in T
      PROVE  n + 1 \in T
  <2>1. n + 1 \in 1..c /\ (n + 1) - 1 = n /\ n + 1 \in 0..c
    OBVIOUS
  <2> QED
    BY <1>2, <2>1
<1> HIDE DEF T
<1>3. 0..c \subseteq T
  BY <1>1, <1>2, UptoInduction
<1> QED
  BY <1>3 DEF T

LEMMA NumDigitsIs == DIGITS_PER_LONG \in Nat \ {0} /\ NumDigits \in Nat \ {0} /\ NumDigits = DIGITS_PER_LONG + DIGITS_PER_LONG
BY DigitsAssumption DEF NumDigits

LEMMA TenIs ==
  /\ Ten[0] = 1
  /\ \A k \in 0..NumDigits : Ten[k] \in Nat \ {0}
  /\ \A k \in Digit : Ten[k + 1] = 10 * Ten[k]
<1> DEFINE S == Nat \ {0}
           F == [z \in Nat \X S |-> 10 * z[2]]
           Is(f) == f = [k \in 0..NumDigits |-> IF k = 0 THEN 1 ELSE 10 * f[k - 1]]
<1>1. NumDigits \in Nat
  BY NumDigitsIs
<1>2. 1 \in S /\ F \in [Nat \X S -> S]
  OBVIOUS
<1>3. \A x \in S, k \in Nat : F[<<k, x>>] = 10 * x
  OBVIOUS
<1> HIDE DEF S, F
<1>4. PICK f : Iterated(f, NumDigits, S, 1, F)
  BY <1>1, <1>2, Recursion
<1>5. Is(f)
  <2>1. f \in [0..NumDigits -> S] /\ f[0] = 1 /\ \A k \in 1..NumDigits : f[k] = F[<<k, f[k - 1]>>]
    BY <1>4 DEF Iterated
  <2>2. ASSUME NEW k \in 1..NumDigits
        PROVE  f[k] = 10 * f[k - 1]
    <3>1. k \in Nat /\ k - 1 \in 0..NumDigits
      BY <1>1
    <3>2. f[k - 1] \in S
      BY <2>1, <3>1
    <3> QED
      BY <1>3, <2>1, <3>1, <3>2
  <2>3. \A k \in 0..NumDigits : k # 0 => k \in 1..NumDigits
    BY <1>1
  <2>4. \A k \in 0..NumDigits : f[k] = IF k = 0 THEN 1 ELSE 10 * f[k - 1]
    BY <2>1, <2>2, <2>3
  <2> QED
    BY <2>1, <2>4
<1>6. Ten = CHOOSE g : Is(g)
  BY DEF Ten
<1>7. Is(Ten)
  BY <1>5, <1>6
<1>8. Ten[0] = 1 /\ \A k \in 1..NumDigits : Ten[k] = 10 * Ten[k - 1]
  <2>1. ASSUME NEW k \in 0..NumDigits
        PROVE  Ten[k] = IF k = 0 THEN 1 ELSE 10 * Ten[k - 1]
    BY <1>7, Zenon
  <2>2. 0 \in 0..NumDigits /\ \A k \in 1..NumDigits : k \in 0..NumDigits /\ k # 0
    BY <1>1
  <2> QED
    BY <2>1, <2>2
<1>9. \A k \in 0..NumDigits : Ten[k] \in S
  <2>1. Ten[0] \in S /\ \A k \in 1..NumDigits : Ten[k - 1] \in S => Ten[k] \in S
    BY <1>8 DEF S
  <2> QED
    BY <1>1, <2>1, Computed
<1>10. ASSUME NEW k \in Digit
       PROVE  Ten[k + 1] = 10 * Ten[k]
  <2>1. k + 1 \in 1..NumDigits /\ (k + 1) - 1 = k
    BY <1>1 DEF Digit
  <2> QED
    BY <1>8, <2>1
<1> QED
  BY <1>8, <1>9, <1>10 DEF S

(* The words of a number are digits. *)
Bcds == [Digit -> 0..9]

(* The value of the digits below k. *)
IsSums(v, bcd) ==
  /\ v \in [0..NumDigits -> Nat] /\ v[0] = 0
  /\ \A k \in Digit : v[k + 1] = v[k] + bcd[k] * Ten[k]
Sums(bcd) == CHOOSE v : IsSums(v, bcd)

LEMMA DigitIs ==
  ASSUME NEW k \in Digit
  PROVE  k \in Nat /\ k + 1 \in 1..NumDigits /\ k \in 0..NumDigits /\ k + 1 \in 0..NumDigits
BY NumDigitsIs DEF Digit

LEMMA SumsExist ==
  ASSUME NEW bcd \in Bcds
  PROVE  IsSums(Sums(bcd), bcd)
<1> DEFINE F == [z \in Nat \X Nat |-> IF z[1] - 1 \in Digit THEN z[2] + bcd[z[1] - 1] * Ten[z[1] - 1] ELSE 0]
<1>1. NumDigits \in Nat
  BY NumDigitsIs
<1>2. F \in [Nat \X Nat -> Nat]
  <2> SUFFICES ASSUME NEW k \in Nat, NEW x \in Nat, k - 1 \in Digit
               PROVE  x + bcd[k - 1] * Ten[k - 1] \in Nat
    OBVIOUS
  <2>1. bcd[k - 1] \in 0..9 /\ Ten[k - 1] \in Nat
    BY DigitIs, TenIs DEF Bcds
  <2> QED
    BY <2>1
<1>3. \A x \in Nat, k \in Nat : k - 1 \in Digit => F[<<k, x>>] = x + bcd[k - 1] * Ten[k - 1]
  OBVIOUS
<1> HIDE DEF F
<1>4. PICK f : Iterated(f, NumDigits, Nat, 0, F)
  BY <1>1, <1>2, Recursion
<1>5. f \in [0..NumDigits -> Nat] /\ f[0] = 0 /\ \A k \in 1..NumDigits : f[k] = F[<<k, f[k - 1]>>]
  BY <1>4 DEF Iterated
<1>6. ASSUME NEW k \in Digit
      PROVE  f[k + 1] = f[k] + bcd[k] * Ten[k]
  <2>1. k + 1 \in 1..NumDigits /\ (k + 1) - 1 = k /\ k \in 0..NumDigits /\ k + 1 \in Nat
    BY DigitIs, NumDigitsIs
  <2>2. f[k + 1] = F[<<k + 1, f[k]>>] /\ f[k] \in Nat
    BY <1>5, <2>1
  <2> QED
    BY <1>3, <2>1, <2>2
<1>7. IsSums(f, bcd)
  BY <1>5, <1>6 DEF IsSums
<1> QED
  BY <1>7 DEF Sums

(* The digits below k are less than the weight of digit k. *)
LEMMA SumsBound ==
  ASSUME NEW bcd \in Bcds
  PROVE  \A k \in 0..NumDigits : Sums(bcd)[k] \in Nat /\ Sums(bcd)[k] < Ten[k]
<1> DEFINE v == Sums(bcd)
           S == {k \in 0..NumDigits : v[k] < Ten[k]}
<1>1. IsSums(v, bcd)
  BY SumsExist
<1> HIDE DEF v
<1>2. 0 \in S
  BY <1>1, NumDigitsIs, TenIs DEF IsSums
<1>3. ASSUME NEW n \in 0..(NumDigits - 1), n \in S
      PROVE  n + 1 \in S
  <2>1. n \in Digit
    BY DEF Digit
  <2>2. v[n + 1] = v[n] + bcd[n] * Ten[n] /\ Ten[n + 1] = 10 * Ten[n] /\ bcd[n] \in 0..9
    BY <1>1, <2>1, TenIs DEF IsSums, Bcds
  <2>3. v[n] \in Nat /\ Ten[n] \in Nat /\ v[n] < Ten[n] /\ n + 1 \in 0..NumDigits
    BY <1>1, <1>3, <2>1, DigitIs, TenIs DEF IsSums
  <2> DEFINE b == bcd[n]
             t == Ten[n]
  <2>4. b * t <= 9 * t
    <3>1. b \in 0..9 /\ t \in Nat
      BY <2>2, <2>3
    <3> HIDE DEF b, t
    <3> QED
      BY <3>1, SMT
  <2>5. b * t \in Int
    BY <2>2, <2>3
  <2> QED
    BY <2>2, <2>3, <2>4, <2>5
<1> HIDE DEF S
<1>4. 0..NumDigits \subseteq S
  BY <1>2, <1>3, NumDigitsIs, UptoInduction
<1> QED
  BY <1>1, <1>4 DEF S, IsSums, v

(* bcd2_bin reads the digits of a word off, the highest first. *)
LEMMA DestIs ==
  ASSUME NEW bcd \in Bcds, NEW low \in {0, DIGITS_PER_LONG}
  PROVE  \E dest :
           /\ bcd2_bin(bcd, low) = dest[DIGITS_PER_LONG]
           /\ dest[0] = 0 /\ \A k \in 0..DIGITS_PER_LONG : dest[k] \in Nat
           /\ \A k \in 1..DIGITS_PER_LONG : dest[k] = dest[k - 1] * 10 + bcd[low + DIGITS_PER_LONG - k]
<1> DEFINE D == DIGITS_PER_LONG
           F == [z \in Nat \X Nat |-> IF low + D - z[1] \in Digit THEN z[2] * 10 + bcd[low + D - z[1]] ELSE 0]
           Is(f) == f = [k \in 0..DIGITS_PER_LONG |->
                           IF k = 0 THEN 0 ELSE f[k - 1] * 10 + bcd[low + DIGITS_PER_LONG - k]]
           dest == CHOOSE f : Is(f)
<1>1. D \in Nat \ {0} /\ low \in Nat /\ low + D <= NumDigits
  BY NumDigitsIs
<1>2. F \in [Nat \X Nat -> Nat]
  BY DEF Bcds
<1>3. \A x \in Nat, k \in Nat : low + D - k \in Digit => F[<<k, x>>] = x * 10 + bcd[low + D - k]
  OBVIOUS
<1>4. \A k \in 1..D : low + D - k \in Digit /\ bcd[low + D - k] \in Nat
  <2> SUFFICES ASSUME NEW k \in 1..D
               PROVE  low + D - k \in Digit /\ bcd[low + D - k] \in Nat
    OBVIOUS
  <2>1. low + D - k \in Digit
    BY <1>1, NumDigitsIs DEF Digit
  <2> QED
    BY <2>1 DEF Bcds
<1> HIDE DEF F, D
<1>5. PICK f : Iterated(f, D, Nat, 0, F)
  BY <1>1, <1>2, Recursion
<1>6. Is(f)
  <2>1. f \in [0..D -> Nat] /\ f[0] = 0 /\ \A k \in 1..D : f[k] = F[<<k, f[k - 1]>>]
    BY <1>5 DEF Iterated
  <2>2. ASSUME NEW k \in 1..D
        PROVE  f[k] = f[k - 1] * 10 + bcd[low + D - k]
    <3>1. k \in Nat /\ k - 1 \in 0..D
      BY <1>1
    <3>2. f[k - 1] \in Nat
      BY <2>1, <3>1
    <3> QED
      BY <1>3, <1>4, <2>1, <3>1, <3>2
  <2>3. \A k \in 0..D : k # 0 => k \in 1..D
    BY <1>1
  <2>4. \A k \in 0..D : f[k] = IF k = 0 THEN 0 ELSE f[k - 1] * 10 + bcd[low + D - k]
    BY <2>1, <2>2, <2>3
  <2> QED
    BY <2>1, <2>4 DEF D
<1>7. bcd2_bin(bcd, low) = dest[D]
  BY DEF bcd2_bin, D
<1>8. Is(dest)
  BY <1>6
<1> HIDE DEF dest
<1>9. dest[0] = 0 /\ \A k \in 1..D : dest[k] = dest[k - 1] * 10 + bcd[low + D - k]
  <2>1. ASSUME NEW k \in 0..D
        PROVE  dest[k] = IF k = 0 THEN 0 ELSE dest[k - 1] * 10 + bcd[low + D - k]
    BY <1>8, Zenon DEF D
  <2>2. 0 \in 0..D /\ \A k \in 1..D : k \in 0..D /\ k # 0
    BY <1>1
  <2> QED
    BY <2>1, <2>2
<1>10. \A k \in 0..D : dest[k] \in Nat
  <2>1. dest[0] \in Nat /\ \A k \in 1..D : dest[k - 1] \in Nat => dest[k] \in Nat
    BY <1>4, <1>9
  <2> QED
    BY <1>1, <2>1, Computed
<1> QED
  BY <1>7, <1>9, <1>10 DEF D

LEMMA Factored ==
  ASSUME NEW d \in Int, NEW t \in Int, NEW b \in Int
  PROVE  (d * 10 + b) * t = d * (10 * t) + b * t
OBVIOUS

(* The value of a word, in its place. *)
LEMMA BinIs ==
  ASSUME NEW bcd \in Bcds, NEW low \in {0, DIGITS_PER_LONG}
  PROVE  /\ bcd2_bin(bcd, low) \in Nat
         /\ bcd2_bin(bcd, low) * Ten[low] = Sums(bcd)[low + DIGITS_PER_LONG] - Sums(bcd)[low]
<1> DEFINE D == DIGITS_PER_LONG
           v == Sums(bcd)
<1>1. PICK dest : /\ bcd2_bin(bcd, low) = dest[D]
                  /\ dest[0] = 0 /\ \A k \in 0..D : dest[k] \in Nat
                  /\ \A k \in 1..D : dest[k] = dest[k - 1] * 10 + bcd[low + D - k]
  BY DestIs
<1>2. IsSums(v, bcd)
  BY SumsExist
<1>3. D \in Nat \ {0} /\ low \in Nat /\ low + D <= NumDigits /\ low + D \in Nat
  BY NumDigitsIs
<1> DEFINE S == {k \in 0..D : dest[k] * Ten[low + D - k] = v[low + D] - v[low + D - k]}
<1> HIDE DEF D, v
<1>4. 0 \in S
  <2>1. low + D - 0 = low + D /\ low + D \in 0..NumDigits /\ 0 \in 0..D
    BY <1>3, NumDigitsIs
  <2>2. Ten[low + D] \in Int /\ v[low + D] \in Int
    BY <1>2, <2>1, TenIs DEF IsSums
  <2> QED
    BY <1>1, <2>1, <2>2
<1>5. ASSUME NEW n \in 0..(D - 1), n \in S
      PROVE  n + 1 \in S
  <2> DEFINE d == low + D - (n + 1)
  <2>1. /\ n + 1 \in 1..D /\ n + 1 \in 0..D /\ (n + 1) - 1 = n /\ n \in 0..D
        /\ d \in Digit /\ low + D - n = d + 1
    BY <1>3, NumDigitsIs DEF Digit
  <2>2. dest[n + 1] = dest[n] * 10 + bcd[d] /\ dest[n] \in Nat
    BY <1>1, <2>1
  <2>3. v[d + 1] = v[d] + bcd[d] * Ten[d] /\ Ten[d + 1] = 10 * Ten[d] /\ bcd[d] \in 0..9
    BY <1>2, <2>1, TenIs DEF IsSums, Bcds
  <2>4. Ten[d] \in Int /\ v[d] \in Int /\ v[low + D] \in Int /\ v[d + 1] \in Int
    <3>1. d \in 0..NumDigits /\ d + 1 \in 0..NumDigits /\ low + D \in 0..NumDigits
      BY <1>3, <2>1, DigitIs, NumDigitsIs
    <3> QED
      BY <1>2, <3>1, TenIs DEF IsSums
  <2>5. dest[n] * Ten[d + 1] = v[low + D] - v[d + 1]
    BY <1>5, <2>1
  <2> HIDE DEF d
  <2>6. (dest[n] * 10 + bcd[d]) * Ten[d] = dest[n] * (10 * Ten[d]) + bcd[d] * Ten[d]
    BY <2>2, <2>3, <2>4, Factored
  <2>7. dest[n] * (10 * Ten[d]) = v[low + D] - v[d + 1] /\ bcd[d] * Ten[d] = v[d + 1] - v[d]
    <3>1. bcd[d] * Ten[d] \in Int
      BY <2>3, <2>4
    <3> QED
      BY <2>3, <2>4, <2>5, <3>1
  <2>8. dest[n + 1] * Ten[d] = v[low + D] - v[d]
    BY <2>2, <2>4, <2>6, <2>7
  <2> QED
    BY <2>1, <2>8 DEF d
<1> HIDE DEF S
<1>6. 0..D \subseteq S
  BY <1>3, <1>4, <1>5, UptoInduction
<1>7. D \in S /\ D \in 0..D /\ low + D - D = low
  BY <1>3, <1>6
<1>8. dest[D] * Ten[low] = v[low + D] - v[low] /\ dest[D] \in Nat
  BY <1>1, <1>7 DEF S
<1> QED
  BY <1>1, <1>8 DEF D, v

(* The number of some digits is the sum over all of them. *)
LEMMA NumberIs ==
  ASSUME NEW bcd \in Bcds
  PROVE  /\ Number(bcd) = Sums(bcd)[NumDigits]
         /\ Number(bcd) \in 0..(Ten[NumDigits] - 1)
<1> DEFINE D == DIGITS_PER_LONG
           v == Sums(bcd)
<1>1. D \in Nat /\ NumDigits = D + D /\ 0 + D = D /\ D \in 0..NumDigits /\ NumDigits \in 0..NumDigits /\ 0 \in 0..NumDigits
  BY NumDigitsIs
<1>2. IsSums(v, bcd) /\ v[NumDigits] \in Nat /\ v[NumDigits] < Ten[NumDigits]
  BY <1>1, SumsExist, SumsBound
<1>3. v[D] \in Int /\ v[0] = 0 /\ Ten[0] = 1 /\ Ten[NumDigits] \in Nat
  BY <1>1, <1>2, TenIs DEF IsSums
<1>4. /\ bcd2_bin(bcd, D) \in Nat /\ bcd2_bin(bcd, D) * Ten[D] = v[D + D] - v[D]
      /\ bcd2_bin(bcd, 0) \in Nat /\ bcd2_bin(bcd, 0) * Ten[0] = v[0 + D] - v[0]
  BY BinIs
<1> HIDE DEF D, v
<1>5. bcd2_bin(bcd, 0) = v[D]
  BY <1>1, <1>3, <1>4
<1>6. bcd2_bin(bcd, D) * Ten[D] + bcd2_bin(bcd, 0) = v[NumDigits]
  BY <1>1, <1>2, <1>3, <1>4, <1>5
<1>7. Number(bcd) = v[NumDigits]
  BY <1>6 DEF Number, D
<1> QED
  BY <1>2, <1>3, <1>7 DEF v

(* The digits of a number: those below k are its remainder. *)
LEMMA RemainderGrows ==
  ASSUME NEW n \in Int, NEW t \in Nat \ {0}
  PROVE  n % (10 * t) = (n % t) + ((n \div t) % 10) * t
<1> DEFINE q == n \div t
           r == n % t
           p == q \div 10
           d == q % 10
<1>1. q \in Int /\ r \in 0..(t - 1) /\ n = q * t + r
  BY Divided
<1> HIDE DEF q, r
<1>2. p \in Int /\ d \in 0..9 /\ q = p * 10 + d
  BY <1>1, Divided
<1> HIDE DEF p, d
<1>3. q * t = p * (10 * t) + d * t
  BY <1>2, Factored
<1>4. d * t \in Int /\ p * (10 * t) \in Int /\ d * t >= 0 /\ d * t <= 9 * t
  BY <1>2, SMT
<1>5. n = p * (10 * t) + (d * t + r) /\ d * t + r \in 0..(10 * t - 1)
  BY <1>1, <1>3, <1>4
<1>6. n % (10 * t) = d * t + r
  <2> DEFINE m == 10 * t
             e == d * t + r
  <2>1. m \in Nat \ {0} /\ e \in 0..(m - 1) /\ n = p * m + e
    BY <1>5
  <2> HIDE DEF m, e
  <2>2. n % m = e
    BY <1>2, <2>1, DivUnique
  <2> QED
    BY <2>2 DEF m, e
<1> QED
  BY <1>1, <1>4, <1>6 DEF q, r, d

LEMMA BinBcdIs ==
  ASSUME NEW n \in Nat
  PROVE  /\ bin_bcd2(n) \in Bcds
         /\ \A k \in 0..NumDigits : Sums(bin_bcd2(n))[k] = n % Ten[k]
<1>1. ASSUME NEW d \in Digit
      PROVE  (n \div Ten[d]) % 10 \in 0..9
  <2>1. Ten[d] \in Nat \ {0}
    BY DigitIs, TenIs
  <2> DEFINE q == n \div Ten[d]
  <2>2. q \in Int
    BY <2>1, n \in Int, Divided
  <2> HIDE DEF q
  <2>3. q % 10 \in 0..9
    BY <2>2
  <2> QED
    BY <2>3 DEF q
<1>2. bin_bcd2(n) \in Bcds
  BY <1>1 DEF bin_bcd2, Bcds
<1> DEFINE bcd == bin_bcd2(n)
           v == Sums(bcd)
           S == {k \in 0..NumDigits : v[k] = n % Ten[k]}
<1>3. IsSums(v, bcd) /\ \A d \in Digit : bcd[d] = (n \div Ten[d]) % 10
  BY <1>2, SumsExist DEF bin_bcd2
<1> HIDE DEF bcd, v
<1>4. 0 \in S
  BY <1>3, TenIs, NumDigitsIs DEF IsSums
<1>5. ASSUME NEW k \in 0..(NumDigits - 1), k \in S
      PROVE  k + 1 \in S
  <2>1. k \in Digit /\ k + 1 \in 0..NumDigits /\ k \in 0..NumDigits
    BY NumDigitsIs DEF Digit
  <2>2. v[k + 1] = v[k] + bcd[k] * Ten[k] /\ Ten[k + 1] = 10 * Ten[k] /\ Ten[k] \in Nat \ {0}
    BY <1>3, <2>1, TenIs DEF IsSums
  <2>3. n % (10 * Ten[k]) = (n % Ten[k]) + ((n \div Ten[k]) % 10) * Ten[k]
    BY <2>2, n \in Int, RemainderGrows
  <2> QED
    BY <1>3, <1>5, <2>1, <2>2, <2>3
<1> HIDE DEF S
<1>6. 0..NumDigits \subseteq S
  BY <1>4, <1>5, NumDigitsIs, UptoInduction
<1> QED
  BY <1>2, <1>6 DEF S, v, bcd

-----------------------------------------------------------------------------
(* Sums. *)

LEMMA QuotientIn ==
  ASSUME NEW a \in Nat, NEW n \in Nat \ {0}
  PROVE  a \div n \in Nat /\ a % n \in 0..(n - 1) /\ a = (a \div n) * n + (a % n)
BY SMT

LEMMA AddCarry ==
  ASSUME NEW bcd \in Bcds, NEW addend \in Nat
  PROVE  \E carry :
           /\ bcd2_add(bcd, addend) = [d \in Digit |-> (bcd[d] + bin_bcd2(addend)[d] + carry[d]) % 10]
           /\ carry[0] = 0 /\ \A k \in 0..NumDigits : carry[k] \in Nat
           /\ \A d \in Digit : carry[d + 1] = (bcd[d] + bin_bcd2(addend)[d] + carry[d]) \div 10
<1> DEFINE tmp == bin_bcd2(addend)
           F == [z \in Nat \X Nat |-> IF z[1] - 1 \in Digit THEN (bcd[z[1] - 1] + tmp[z[1] - 1] + z[2]) \div 10 ELSE 0]
           Is(f) == f = [d \in 0..NumDigits |-> IF d = 0 THEN 0 ELSE (bcd[d - 1] + tmp[d - 1] + f[d - 1]) \div 10]
           carry == CHOOSE f : Is(f)
<1>1. NumDigits \in Nat /\ tmp \in Bcds
  BY NumDigitsIs, BinBcdIs
<1>2. bcd2_add(bcd, addend) = [d \in Digit |-> (bcd[d] + tmp[d] + carry[d]) % 10]
  BY DEF bcd2_add
<1> HIDE DEF tmp
<1>3. \A d \in Digit : bcd[d] \in Nat /\ tmp[d] \in Nat
  BY <1>1 DEF Bcds
<1>4. F \in [Nat \X Nat -> Nat]
  BY <1>3
<1>5. \A x \in Nat, k \in Nat : k - 1 \in Digit => F[<<k, x>>] = (bcd[k - 1] + tmp[k - 1] + x) \div 10
  OBVIOUS
<1> HIDE DEF F
<1>6. \A k \in 1..NumDigits : k \in Nat /\ k - 1 \in Digit /\ k - 1 \in 0..NumDigits
  BY <1>1 DEF Digit
<1>7. PICK f : Iterated(f, NumDigits, Nat, 0, F)
  BY <1>1, <1>4, Recursion
<1>8. Is(f)
  <2>1. f \in [0..NumDigits -> Nat] /\ f[0] = 0 /\ \A k \in 1..NumDigits : f[k] = F[<<k, f[k - 1]>>]
    BY <1>7 DEF Iterated
  <2>2. ASSUME NEW k \in 1..NumDigits
        PROVE  f[k] = (bcd[k - 1] + tmp[k - 1] + f[k - 1]) \div 10
    <3>1. f[k - 1] \in Nat
      BY <1>6, <2>1
    <3> QED
      BY <1>5, <1>6, <2>1, <3>1
  <2>3. \A k \in 0..NumDigits : k # 0 => k \in 1..NumDigits
    BY <1>1
  <2>4. \A k \in 0..NumDigits : f[k] = IF k = 0 THEN 0 ELSE (bcd[k - 1] + tmp[k - 1] + f[k - 1]) \div 10
    BY <2>1, <2>2, <2>3
  <2> QED
    BY <2>1, <2>4
<1>9. Is(carry)
  BY <1>8
<1> HIDE DEF carry
<1>10. carry[0] = 0 /\ \A k \in 1..NumDigits : carry[k] = (bcd[k - 1] + tmp[k - 1] + carry[k - 1]) \div 10
  <2>1. ASSUME NEW k \in 0..NumDigits
        PROVE  carry[k] = IF k = 0 THEN 0 ELSE (bcd[k - 1] + tmp[k - 1] + carry[k - 1]) \div 10
    BY <1>9, Zenon
  <2>2. 0 \in 0..NumDigits /\ \A k \in 1..NumDigits : k \in 0..NumDigits /\ k # 0
    BY <1>1
  <2> QED
    BY <2>1, <2>2
<1>11. \A k \in 0..NumDigits : carry[k] \in Nat
  <2>1. carry[0] \in Nat /\ \A k \in 1..NumDigits : carry[k - 1] \in Nat => carry[k] \in Nat
    BY <1>3, <1>6, <1>10
  <2> QED
    BY <1>1, <2>1, Computed
<1>12. ASSUME NEW d \in Digit
       PROVE  carry[d + 1] = (bcd[d] + tmp[d] + carry[d]) \div 10
  <2>1. d + 1 \in 1..NumDigits /\ (d + 1) - 1 = d
    BY <1>1 DEF Digit
  <2> QED
    BY <1>10, <2>1
<1> QED
  BY <1>2, <1>10, <1>11, <1>12 DEF tmp

LEMMA CarryStep ==
  ASSUME NEW t \in Nat, NEW s \in Nat, NEW v \in Int, NEW u \in Int, NEW w \in Int, NEW c \in Int,
         NEW a \in Int, NEW b \in Int,
         w + c * t = v + u, s = a + b + c
  PROVE  (w + (s % 10) * t) + (s \div 10) * (10 * t) = (v + a * t) + (u + b * t)
<1> DEFINE q == s \div 10
           r == s % 10
<1>1. q \in Int /\ r \in Int /\ s = q * 10 + r
  BY SMT
<1> HIDE DEF q, r
<1>2. s * t = q * (10 * t) + r * t
  BY <1>1, Factored
<1>3. s * t = a * t + b * t + c * t
  OBVIOUS
<1>4. /\ s * t \in Int /\ a * t \in Int /\ b * t \in Int /\ c * t \in Int
      /\ q * (10 * t) \in Int /\ r * t \in Int
  BY <1>1
<1>5. (w + r * t) + q * (10 * t) = (v + a * t) + (u + b * t)
  BY <1>2, <1>3, <1>4
<1> QED
  BY <1>5 DEF q, r

(* bcd2_add adds, modulo the digits that there are. *)
LEMMA AddIs ==
  ASSUME NEW bcd \in Bcds, NEW addend \in Nat
  PROVE  /\ bcd2_add(bcd, addend) \in Bcds
         /\ Number(bcd2_add(bcd, addend)) = (Number(bcd) + addend) % Ten[NumDigits]
<1> DEFINE tmp == bin_bcd2(addend)
           res == bcd2_add(bcd, addend)
           v == Sums(bcd)
           u == Sums(tmp)
           w == Sums(res)
<1>1. PICK carry :
           /\ res = [d \in Digit |-> (bcd[d] + tmp[d] + carry[d]) % 10]
           /\ carry[0] = 0 /\ \A k \in 0..NumDigits : carry[k] \in Nat
           /\ \A d \in Digit : carry[d + 1] = (bcd[d] + tmp[d] + carry[d]) \div 10
  BY AddCarry
<1>2. tmp \in Bcds /\ \A k \in 0..NumDigits : u[k] = addend % Ten[k]
  BY BinBcdIs
<1> HIDE DEF tmp
<1>3. ASSUME NEW d \in Digit
      PROVE  bcd[d] + tmp[d] + carry[d] \in Nat /\ bcd[d] \in Nat /\ tmp[d] \in Nat /\ carry[d] \in Nat
  BY <1>1, <1>2, DigitIs DEF Bcds
<1>4. res \in Bcds
  <2>1. ASSUME NEW d \in Digit
        PROVE  (bcd[d] + tmp[d] + carry[d]) % 10 \in 0..9
    <3> DEFINE s == bcd[d] + tmp[d] + carry[d]
    <3>1. s \in Nat
      BY <1>3
    <3> HIDE DEF s
    <3>2. s % 10 \in 0..9
      BY <3>1
    <3> QED
      BY <3>2 DEF s
  <2> QED
    BY <1>1, <2>1 DEF Bcds
<1> HIDE DEF res
<1>5. IsSums(v, bcd) /\ IsSums(u, tmp) /\ IsSums(w, res)
  BY <1>2, <1>4, SumsExist
<1>6. w[NumDigits] \in 0..(Ten[NumDigits] - 1) /\ Number(res) = w[NumDigits] /\ Number(bcd) = v[NumDigits]
  BY <1>4, NumberIs
<1> HIDE DEF v, u, w
<1> DEFINE S == {k \in 0..NumDigits : w[k] + carry[k] * Ten[k] = v[k] + u[k]}
<1>7. 0 \in S
  <2>1. w[0] = 0 /\ v[0] = 0 /\ u[0] = 0 /\ carry[0] = 0 /\ Ten[0] = 1 /\ 0 \in 0..NumDigits
    BY <1>1, <1>5, TenIs, NumDigitsIs DEF IsSums
  <2> QED
    BY <2>1
<1>8. ASSUME NEW k \in 0..(NumDigits - 1), k \in S
      PROVE  k + 1 \in S
  <2>1. k \in Digit /\ k + 1 \in 0..NumDigits /\ k \in 0..NumDigits
    BY NumDigitsIs DEF Digit
  <2>2. /\ v[k + 1] = v[k] + bcd[k] * Ten[k] /\ u[k + 1] = u[k] + tmp[k] * Ten[k]
        /\ w[k + 1] = w[k] + res[k] * Ten[k] /\ Ten[k + 1] = 10 * Ten[k] /\ Ten[k] \in Nat
    BY <1>5, <2>1, TenIs DEF IsSums
  <2>3. v[k] \in Int /\ u[k] \in Int /\ w[k] \in Int /\ carry[k] \in Int
    BY <1>1, <1>5, <2>1 DEF IsSums
  <2> DEFINE s == bcd[k] + tmp[k] + carry[k]
  <2>4. s \in Nat /\ bcd[k] \in Int /\ tmp[k] \in Int /\ s = bcd[k] + tmp[k] + carry[k]
    BY <1>3, <2>1
  <2>5. res[k] = s % 10 /\ carry[k + 1] = s \div 10
    BY <1>1, <2>1
  <2>6. w[k] + carry[k] * Ten[k] = v[k] + u[k]
    BY <1>8
  <2> HIDE DEF s
  <2>7. (w[k] + (s % 10) * Ten[k]) + (s \div 10) * (10 * Ten[k]) = (v[k] + bcd[k] * Ten[k]) + (u[k] + tmp[k] * Ten[k])
    <3> DEFINE t == Ten[k]
               v0 == v[k]
               u0 == u[k]
               w0 == w[k]
               c == carry[k]
               a == bcd[k]
               b == tmp[k]
    <3>1. /\ t \in Nat /\ s \in Nat /\ v0 \in Int /\ u0 \in Int /\ w0 \in Int /\ c \in Int /\ a \in Int /\ b \in Int
          /\ w0 + c * t = v0 + u0 /\ s = a + b + c
      BY <2>2, <2>3, <2>4, <2>6
    <3> HIDE DEF t, v0, u0, w0, c, a, b
    <3>2. (w0 + (s % 10) * t) + (s \div 10) * (10 * t) = (v0 + a * t) + (u0 + b * t)
      BY <3>1, CarryStep
    <3> QED
      BY <3>2 DEF t, v0, u0, w0, a, b
  <2> QED
    BY <2>1, <2>2, <2>5, <2>7
<1> HIDE DEF S
<1>9. 0..NumDigits \subseteq S
  BY <1>7, <1>8, NumDigitsIs, UptoInduction
<1> DEFINE N == NumDigits
           t == Ten[N]
           q == addend \div t
<1>10. N \in 0..NumDigits /\ t \in Nat \ {0}
  BY NumDigitsIs, TenIs
<1>11. q \in Int /\ u[N] \in Int /\ addend = q * t + u[N]
  <2>1. u[N] = addend % t
    BY <1>2, <1>10
  <2> HIDE DEF N, t
  <2>2. addend \div t \in Nat /\ addend % t \in 0..(t - 1) /\ addend = (addend \div t) * t + (addend % t)
    BY <1>10, QuotientIn
  <2> QED
    BY <2>1, <2>2
<1>12. w[N] + carry[N] * t = v[N] + u[N]
  BY <1>9, <1>10 DEF S
<1>13. w[N] \in 0..(t - 1) /\ v[N] \in Int /\ carry[N] \in Int
  BY <1>1, <1>5, <1>6, <1>10 DEF IsSums
<1> HIDE DEF N, t, q
<1>14. v[N] + addend = (carry[N] + q) * t + w[N]
  <2>1. (carry[N] + q) * t = carry[N] * t + q * t
    BY <1>10, <1>11, <1>13
  <2>2. carry[N] * t \in Int /\ q * t \in Int
    BY <1>10, <1>11, <1>13
  <2> QED
    BY <1>11, <1>12, <1>13, <2>1, <2>2
<1>15. (v[N] + addend) % t = w[N]
  <2> DEFINE a == v[N] + addend
             p == carry[N] + q
  <2>1. a \in Int /\ p \in Int /\ a = p * t + w[N]
    BY <1>11, <1>13, <1>14
  <2> HIDE DEF a, p
  <2>2. \A x, y \in Int, r \in 0..(t - 1) : x = y * t + r => x % t = r
    BY <1>10, ModIs, Zenon
  <2>3. a % t = w[N]
    BY <1>13, <2>1, <2>2
  <2> QED
    BY <2>3 DEF a
<1> QED
  BY <1>4, <1>6, <1>15 DEF res, N, t

-----------------------------------------------------------------------------
(* Products. *)

LEMMA TenAdd ==
  ASSUME NEW j \in 0..NumDigits
  PROVE  \A k \in 0..(NumDigits - j) : Ten[j + k] = Ten[j] * Ten[k]
<1> DEFINE c == NumDigits - j
           S == {k \in 0..c : Ten[j + k] = Ten[j] * Ten[k]}
<1>1. NumDigits \in Nat /\ j \in Nat /\ c \in Nat
  BY NumDigitsIs
<1>2. 0 \in S
  BY <1>1, TenIs
<1>3. \A n \in 0..(c - 1) : n \in S => n + 1 \in S
  <2> SUFFICES ASSUME NEW n \in 0..(c - 1), Ten[j + n] = Ten[j] * Ten[n]
               PROVE  n + 1 \in 0..c /\ Ten[j + (n + 1)] = Ten[j] * Ten[n + 1]
    OBVIOUS
  <2>1. /\ n \in Digit /\ j + n \in Digit /\ n \in 0..NumDigits /\ n + 1 \in 0..c
        /\ j + (n + 1) = (j + n) + 1
    BY <1>1 DEF Digit
  <2>2. Ten[n + 1] = 10 * Ten[n] /\ Ten[j + (n + 1)] = 10 * Ten[j + n]
    BY <2>1, TenIs
  <2>3. Ten[n] \in Nat /\ Ten[j] \in Nat
    BY <2>1, TenIs
  <2> DEFINE x == Ten[n]
             y == Ten[j]
  <2>4. 10 * (y * x) = y * (10 * x)
    <3>1. x \in Nat /\ y \in Nat
      BY <2>3
    <3> HIDE DEF x, y
    <3> QED
      BY <3>1
  <2> QED
    BY <2>1, <2>2, <2>4
<1> HIDE DEF S, c
<1>4. 0..c \subseteq S
  BY <1>1, <1>2, <1>3, UptoInduction
<1> QED
  BY <1>4 DEF S, c

(* The digits from k on are a multiple of the weight of digit k. *)
LEMMA SumsAbove ==
  ASSUME NEW bcd \in Bcds, NEW k \in 0..NumDigits
  PROVE  \E x \in Int : Sums(bcd)[NumDigits] = Sums(bcd)[k] + x * Ten[k]
<1> DEFINE c == NumDigits - k
           v == Sums(bcd)
           S == {j \in 0..c : \E x \in Int : v[k + j] = v[k] + x * Ten[k]}
<1>1. NumDigits \in Nat /\ k \in Nat /\ c \in Nat /\ k + 0 = k /\ k + c = NumDigits
  BY NumDigitsIs
<1>2. IsSums(v, bcd)
  BY SumsExist
<1> HIDE DEF v
<1>3. v[k] \in Int /\ Ten[k] \in Int
  BY <1>2, TenIs DEF IsSums
<1>4. 0 \in S
  <2>1. v[k + 0] = v[k] + 0 * Ten[k] /\ 0 \in 0..c /\ 0 \in Int
    BY <1>1, <1>3
  <2> QED
    BY <2>1
<1>5. ASSUME NEW j \in 0..(c - 1), j \in S
      PROVE  j + 1 \in S
  <2>1. PICK x \in Int : v[k + j] = v[k] + x * Ten[k]
    BY <1>5
  <2> DEFINE d == k + j
             b == bcd[d]
             y == Ten[j]
             t == Ten[k]
  <2>2. d \in Digit /\ k + (j + 1) = d + 1 /\ j + 1 \in 0..c /\ j \in 0..c /\ j \in 0..NumDigits
    BY <1>1 DEF Digit
  <2>3. v[d + 1] = v[d] + b * Ten[d] /\ b \in 0..9
    BY <1>2, <2>2 DEF IsSums, Bcds
  <2>4. Ten[d] = t * y /\ t \in Int /\ y \in Int /\ v[k] \in Int
    BY <1>3, <2>2, TenAdd, TenIs DEF c
  <2>5. v[d] = v[k] + x * t
    BY <2>1
  <2> HIDE DEF d, b, y, t
  <2>6. v[d + 1] = v[k] + (x + b * y) * t /\ x + b * y \in Int
    <3>1. b * (t * y) = (b * y) * t /\ (x + b * y) * t = x * t + (b * y) * t
      BY <2>3, <2>4
    <3>2. x * t \in Int /\ (b * y) * t \in Int /\ b * y \in Int
      BY <2>3, <2>4
    <3> QED
      BY <2>3, <2>4, <2>5, <3>1, <3>2
  <2>7. \E z \in Int : v[d + 1] = v[k] + z * t
    BY <2>6
  <2> QED
    BY <2>2, <2>7 DEF t
<1> HIDE DEF S
<1>6. 0..c \subseteq S
  BY <1>1, <1>4, <1>5, UptoInduction
<1>7. c \in S
  BY <1>1, <1>6
<1> QED
  BY <1>1, <1>7 DEF S, v

(* The sums and carries of a round of bcd2_mul, for the digit m1 in place l. *)
MulSteps(acc, tmp, m1, l, carry, add) ==
  /\ \A u \in Digit : add[u] = m1 * tmp[u] + carry[u] + (IF u + l \in Digit THEN acc[u + l] ELSE 0)
  /\ \A u \in Digit : add[u] \in Nat
  /\ multiply_digit(acc, tmp, m1, l) = [d \in Digit |-> IF d < l THEN acc[d] ELSE add[d - l] % 10]
  /\ carry[0] = 0 /\ \A k \in 0..NumDigits : carry[k] \in Nat
  /\ \A u \in Digit : carry[u + 1] = add[u] \div 10

LEMMA MulCarry ==
  ASSUME NEW acc \in Bcds, NEW tmp \in Bcds, NEW m1 \in 0..9, NEW l \in Digit
  PROVE  \E carry, add : MulSteps(acc, tmp, m1, l, carry, add)
<1> DEFINE sum(u, c) == m1 * tmp[u] + c + (IF u + l \in Digit THEN acc[u + l] ELSE 0)
           F == [z \in Nat \X Nat |-> IF z[1] - 1 \in Digit THEN sum(z[1] - 1, z[2]) \div 10 ELSE 0]
           Is(f) == f = [u \in 0..NumDigits |-> IF u = 0 THEN 0 ELSE sum(u - 1, f[u - 1]) \div 10]
           carry == CHOOSE f : Is(f)
           add == [u \in Digit |-> sum(u, carry[u])]
<1>1. NumDigits \in Nat
  BY NumDigitsIs
<1>2. multiply_digit(acc, tmp, m1, l) = [d \in Digit |-> IF d < l THEN acc[d] ELSE sum(d - l, carry[d - l]) % 10]
  BY DEF multiply_digit
<1>3. \A u \in Digit, c \in Nat : sum(u, c) \in Nat
  <2> SUFFICES ASSUME NEW u \in Digit, NEW c \in Nat
               PROVE  sum(u, c) \in Nat
    OBVIOUS
  <2>1. m1 \in Nat /\ tmp[u] \in Nat /\ (u + l \in Digit => acc[u + l] \in Nat)
    BY DEF Bcds
  <2>2. m1 * tmp[u] \in Nat
    BY <2>1
  <2> QED
    BY <2>1, <2>2
<1> HIDE DEF sum
<1>4. F \in [Nat \X Nat -> Nat]
  BY <1>3
<1>5. \A x \in Nat, k \in Nat : k - 1 \in Digit => F[<<k, x>>] = sum(k - 1, x) \div 10
  OBVIOUS
<1> HIDE DEF F
<1>6. \A k \in 1..NumDigits : k \in Nat /\ k - 1 \in Digit /\ k - 1 \in 0..NumDigits
  BY <1>1 DEF Digit
<1>7. PICK f : Iterated(f, NumDigits, Nat, 0, F)
  BY <1>1, <1>4, Recursion
<1>8. Is(f)
  <2>1. f \in [0..NumDigits -> Nat] /\ f[0] = 0 /\ \A k \in 1..NumDigits : f[k] = F[<<k, f[k - 1]>>]
    BY <1>7 DEF Iterated
  <2>2. ASSUME NEW k \in 1..NumDigits
        PROVE  f[k] = sum(k - 1, f[k - 1]) \div 10
    <3>1. f[k - 1] \in Nat
      BY <1>6, <2>1
    <3> QED
      BY <1>5, <1>6, <2>1, <3>1
  <2>3. \A k \in 0..NumDigits : k # 0 => k \in 1..NumDigits
    BY <1>1
  <2>4. \A k \in 0..NumDigits : f[k] = IF k = 0 THEN 0 ELSE sum(k - 1, f[k - 1]) \div 10
    BY <2>1, <2>2, <2>3
  <2> QED
    BY <2>1, <2>4
<1>9. Is(carry)
  BY <1>8
<1> HIDE DEF carry
<1>10. carry[0] = 0 /\ \A k \in 1..NumDigits : carry[k] = sum(k - 1, carry[k - 1]) \div 10
  <2>1. ASSUME NEW k \in 0..NumDigits
        PROVE  carry[k] = IF k = 0 THEN 0 ELSE sum(k - 1, carry[k - 1]) \div 10
    BY <1>9, Zenon
  <2>2. 0 \in 0..NumDigits /\ \A k \in 1..NumDigits : k \in 0..NumDigits /\ k # 0
    BY <1>1
  <2> QED
    BY <2>1, <2>2
<1>11. \A k \in 0..NumDigits : carry[k] \in Nat
  <2>1. ASSUME NEW k \in 1..NumDigits, carry[k - 1] \in Nat
        PROVE  carry[k] \in Nat
    <3>1. sum(k - 1, carry[k - 1]) \in Nat
      BY <1>3, <1>6, <2>1
    <3> DEFINE s == sum(k - 1, carry[k - 1])
    <3> HIDE DEF s
    <3>2. s \in Nat /\ carry[k] = s \div 10
      BY <1>10, <3>1 DEF s
    <3> QED
      BY <3>2
  <2>2. carry[0] \in Nat
    BY <1>10
  <2> QED
    BY <1>1, <2>1, <2>2, Computed
<1>12. ASSUME NEW u \in Digit
       PROVE  add[u] \in Nat /\ carry[u + 1] = add[u] \div 10
  <2>1. u + 1 \in 1..NumDigits /\ (u + 1) - 1 = u /\ u \in 0..NumDigits
    BY <1>1 DEF Digit
  <2> QED
    BY <1>3, <1>10, <1>11, <2>1
<1>13. \A u \in Digit : add[u] = m1 * tmp[u] + carry[u] + (IF u + l \in Digit THEN acc[u + l] ELSE 0)
  BY DEF sum
<1>14. \A d \in Digit : ~(d < l) => d - l \in Digit
  BY NumDigitsIs DEF Digit
<1>15. [d \in Digit |-> IF d < l THEN acc[d] ELSE sum(d - l, carry[d - l]) % 10]
         = [d \in Digit |-> IF d < l THEN acc[d] ELSE add[d - l] % 10]
  BY <1>14
<1> HIDE DEF add
<1>16. MulSteps(acc, tmp, m1, l, carry, add)
  BY <1>2, <1>10, <1>11, <1>12, <1>13, <1>15 DEF MulSteps
<1> QED
  BY <1>16

(* One round of bcd2_mul adds a digit's share of the product. *)
LEMMA MultiplyDigitIs ==
  ASSUME NEW acc \in Bcds, NEW tmp \in Bcds, NEW m1 \in 0..9, NEW l \in Digit
  PROVE  /\ multiply_digit(acc, tmp, m1, l) \in Bcds
         /\ \E x \in Int : Number(acc) + (m1 * Ten[l]) * Number(tmp)
                             = Number(multiply_digit(acc, tmp, m1, l)) + x * Ten[NumDigits]
<1> DEFINE res == multiply_digit(acc, tmp, m1, l)
           v == Sums(acc)
           t == Sums(tmp)
           w == Sums(res)
           c == NumDigits - l
<1>0. PICK carry, add : MulSteps(acc, tmp, m1, l, carry, add)
  BY MulCarry
<1>1. /\ \A u \in Digit : add[u] = m1 * tmp[u] + carry[u] + (IF u + l \in Digit THEN acc[u + l] ELSE 0)
      /\ \A u \in Digit : add[u] \in Nat
      /\ res = [d \in Digit |-> IF d < l THEN acc[d] ELSE add[d - l] % 10]
      /\ carry[0] = 0 /\ \A k \in 0..NumDigits : carry[k] \in Nat
      /\ \A u \in Digit : carry[u + 1] = add[u] \div 10
  BY <1>0 DEF MulSteps
<1>2. /\ NumDigits \in Nat /\ l \in Nat /\ c \in Nat /\ l + 0 = l /\ l + c = NumDigits /\ l \in 0..NumDigits
      /\ c \in 0..NumDigits
  BY NumDigitsIs DEF Digit
<1>3. res \in Bcds
  <2>1. ASSUME NEW d \in Digit
        PROVE  (IF d < l THEN acc[d] ELSE add[d - l] % 10) \in 0..9
    <3>1. CASE d < l
      BY <3>1 DEF Bcds
    <3>2. CASE ~(d < l)
      <4> DEFINE s == add[d - l]
      <4>1. d - l \in Digit
        BY <1>2, <3>2 DEF Digit
      <4>2. s \in Nat
        BY <1>1, <4>1
      <4> HIDE DEF s
      <4>3. s % 10 \in 0..9
        BY <4>2
      <4> QED
        BY <3>2, <4>3 DEF s
    <3> QED
      BY <3>1, <3>2
  <2> QED
    BY <1>1, <2>1 DEF Bcds
<1> HIDE DEF res
<1>4. IsSums(v, acc) /\ IsSums(t, tmp) /\ IsSums(w, res)
  BY <1>3, SumsExist
<1>5. Number(acc) = v[NumDigits] /\ Number(tmp) = t[NumDigits] /\ Number(res) = w[NumDigits]
  BY <1>3, NumberIs
<1>6. PICK x \in Int : t[NumDigits] = t[c] + x * Ten[c]
  BY <1>2, SumsAbove
<1> HIDE DEF v, t, w
<1> DEFINE low == {k \in 0..l : w[k] = v[k]}
<1>7. 0..l \subseteq low
  <2>1. 0 \in low
    BY <1>2, <1>4 DEF IsSums
  <2>2. ASSUME NEW k \in 0..(l - 1), k \in low
        PROVE  k + 1 \in low
    <3>1. k \in Digit /\ k < l /\ k + 1 \in 0..l
      BY <1>2 DEF Digit
    <3>2. res[k] = acc[k]
      BY <1>1, <3>1
    <3> QED
      BY <1>4, <2>2, <3>1, <3>2 DEF IsSums
  <2> HIDE DEF low
  <2> QED
    BY <1>2, <2>1, <2>2, UptoInduction
<1>8. w[l] = v[l]
  BY <1>2, <1>7
<1> DEFINE S == {u \in 0..c : w[l + u] + carry[u] * Ten[l + u] = v[l + u] + (m1 * Ten[l]) * t[u]}
<1>9. 0 \in S
  <2>1. carry[0] = 0 /\ t[0] = 0 /\ Ten[l] \in Int /\ v[l] \in Int /\ m1 \in Int
    BY <1>1, <1>2, <1>4, TenIs DEF IsSums
  <2>2. 0 * Ten[l] = 0 /\ (m1 * Ten[l]) * 0 = 0
    BY <2>1
  <2> QED
    BY <1>2, <1>8, <2>1, <2>2
<1>10. ASSUME NEW u \in 0..(c - 1), u \in S
       PROVE  u + 1 \in S
  <2> DEFINE d == l + u
             s == add[u]
  <2>1. /\ d \in Digit /\ u \in Digit /\ l + (u + 1) = d + 1 /\ u + 1 \in 0..c /\ ~(d < l) /\ d - l = u /\ u + l = d
        /\ u \in 0..(NumDigits - l) /\ u \in 0..NumDigits /\ d \in 0..NumDigits
    BY <1>2 DEF Digit
  <2>2. /\ v[d + 1] = v[d] + acc[d] * Ten[d] /\ t[u + 1] = t[u] + tmp[u] * Ten[u]
        /\ w[d + 1] = w[d] + res[d] * Ten[d] /\ Ten[d + 1] = 10 * Ten[d]
    BY <1>4, <2>1, TenIs DEF IsSums
  <2>3. Ten[d] = Ten[l] * Ten[u] /\ Ten[d] \in Nat /\ Ten[l] \in Nat /\ Ten[u] \in Nat
    BY <1>2, <2>1, TenAdd, TenIs
  <2>4. /\ v[d] \in Int /\ t[u] \in Int /\ w[d] \in Int /\ carry[u] \in Int /\ acc[d] \in Int /\ tmp[u] \in Int
        /\ m1 \in Int
    <3>1. v[d] \in Nat /\ t[u] \in Nat /\ w[d] \in Nat
      BY <1>4, <2>1 DEF IsSums
    <3>2. carry[u] \in Nat
      BY <1>1, <2>1
    <3>3. acc[d] \in 0..9 /\ tmp[u] \in 0..9
      BY <2>1 DEF Bcds
    <3> QED
      BY <3>1, <3>2, <3>3
  <2>5. res[d] = s % 10 /\ carry[u + 1] = s \div 10 /\ s \in Nat /\ s = m1 * tmp[u] + carry[u] + acc[d]
    BY <1>1, <2>1
  <2>6. w[d] + carry[u] * Ten[d] = v[d] + (m1 * Ten[l]) * t[u]
    BY <1>10
  <2> HIDE DEF d, s
  <2>7. (w[d] + (s % 10) * Ten[d]) + (s \div 10) * (10 * Ten[d])
          = (v[d] + acc[d] * Ten[d]) + ((m1 * Ten[l]) * t[u] + (m1 * tmp[u]) * Ten[d])
    <3> DEFINE z == Ten[d]
               v0 == v[d]
               u0 == (m1 * Ten[l]) * t[u]
               w0 == w[d]
               c0 == carry[u]
               a == acc[d]
               b == m1 * tmp[u]
    <3>1. /\ z \in Nat /\ s \in Nat /\ v0 \in Int /\ w0 \in Int /\ c0 \in Int /\ a \in Int
          /\ w0 + c0 * z = v0 + u0
      BY <2>3, <2>4, <2>5, <2>6
    <3>2. u0 \in Int /\ b \in Int
      BY <2>3, <2>4
    <3> HIDE DEF b
    <3>3. s = a + b + c0
      BY <2>4, <2>5, <3>2 DEF b
    <3> HIDE DEF z, v0, u0, w0, c0, a
    <3>4. (w0 + (s % 10) * z) + (s \div 10) * (10 * z) = (v0 + a * z) + (u0 + b * z)
      BY <3>1, <3>2, <3>3, CarryStep
    <3> QED
      BY <3>4 DEF z, v0, u0, w0, a, b
  <2>8. (m1 * Ten[l]) * t[u] + (m1 * tmp[u]) * Ten[d] = (m1 * Ten[l]) * t[u + 1]
    <3> DEFINE z == Ten[l]
               y == Ten[u]
               a == tmp[u]
               b == t[u]
    <3>1. z \in Int /\ y \in Int /\ a \in Int /\ b \in Int /\ m1 \in Int
      BY <2>3, <2>4
    <3> HIDE DEF z, y, a, b
    <3>2. (m1 * z) * b + (m1 * a) * (z * y) = (m1 * z) * (b + a * y)
      BY <3>1
    <3> QED
      BY <2>2, <2>3, <3>2 DEF z, y, a, b
  <2>9. w[d + 1] + carry[u + 1] * Ten[d + 1] = v[d + 1] + (m1 * Ten[l]) * t[u + 1]
    BY <2>2, <2>5, <2>7, <2>8
  <2> QED
    BY <2>1, <2>9 DEF d
<1> HIDE DEF S
<1>11. 0..c \subseteq S
  BY <1>2, <1>9, <1>10, UptoInduction
<1> DEFINE N == NumDigits
           z == Ten[N]
           k == m1 * Ten[l]
<1>12. w[N] + carry[c] * z = v[N] + k * t[c]
  BY <1>2, <1>11 DEF S
<1>13. /\ Ten[l] \in Nat /\ Ten[c] \in Nat /\ z = Ten[l] * Ten[c]
  BY <1>2, TenAdd, TenIs
<1>14. /\ w[N] \in Int /\ v[N] \in Int /\ t[c] \in Int /\ t[N] \in Int /\ carry[c] \in Int /\ z \in Int /\ k \in Int
       /\ m1 \in Int /\ x \in Int
  <2>1. N \in 0..NumDigits
    BY <1>2
  <2>2. w[N] \in Nat /\ v[N] \in Nat /\ t[c] \in Nat /\ t[N] \in Nat /\ carry[c] \in Nat /\ z \in Nat
    BY <1>1, <1>2, <1>4, <2>1, TenIs DEF IsSums
  <2>3. m1 \in Int /\ k \in Int
    BY <1>13
  <2> QED
    BY <2>2, <2>3
<1>15. k * t[N] = k * t[c] + (m1 * x) * z
  <2> DEFINE y == Ten[l]
             b == Ten[c]
             a == t[c]
  <2>1. y \in Int /\ b \in Int /\ a \in Int /\ m1 \in Int /\ x \in Int
    BY <1>13, <1>14
  <2> HIDE DEF y, b, a
  <2>2. (m1 * y) * (a + x * b) = (m1 * y) * a + (m1 * x) * (y * b)
    BY <2>1
  <2> QED
    BY <1>6, <1>13, <2>2 DEF y, b, a
<1> HIDE DEF N, z, k
<1>16. v[N] + k * t[N] = w[N] + (carry[c] + m1 * x) * z /\ carry[c] + m1 * x \in Int
  <2>1. (carry[c] + m1 * x) * z = carry[c] * z + (m1 * x) * z
    BY <1>14
  <2>2. carry[c] * z \in Int /\ (m1 * x) * z \in Int /\ k * t[c] \in Int /\ k * t[N] \in Int /\ m1 * x \in Int
    BY <1>14
  <2> DEFINE a == carry[c] * z
             b == (m1 * x) * z
             e == k * t[c]
             f == k * t[N]
             g == (carry[c] + m1 * x) * z
             w0 == w[N]
             v0 == v[N]
  <2>3. /\ a \in Int /\ b \in Int /\ e \in Int /\ f \in Int /\ g = a + b
        /\ w0 + a = v0 + e /\ f = e + b /\ w0 \in Int /\ v0 \in Int
    BY <1>12, <1>14, <1>15, <2>1, <2>2
  <2> HIDE DEF a, b, e, f, g, w0, v0
  <2>4. v0 + f = w0 + g
    BY <2>3
  <2> QED
    BY <1>14, <2>2, <2>4 DEF f, g, w0, v0
<1>17. \E y \in Int : v[N] + k * t[N] = w[N] + y * z
  BY <1>16
<1> QED
  BY <1>3, <1>5, <1>17 DEF res, N, z, k

(* The rounds of bcd2_mul. *)
MulRounds(bcd, multiplier, acc) ==
  /\ acc[0] = bin_bcd2(0) /\ acc[NumDigits] = bcd2_mul(bcd, multiplier)
  /\ \A l \in 0..NumDigits : acc[l] \in Bcds
  /\ \A l \in Digit : acc[l + 1] = multiply_digit(acc[l], bcd, bin_bcd2(multiplier)[l], l)

LEMMA MulAcc ==
  ASSUME NEW bcd \in Bcds, NEW multiplier \in Nat
  PROVE  \E acc : MulRounds(bcd, multiplier, acc)
<1> DEFINE m == bin_bcd2(multiplier)
           F == [z \in Nat \X Bcds |-> IF z[1] - 1 \in Digit THEN multiply_digit(z[2], bcd, m[z[1] - 1], z[1] - 1)
                                                             ELSE z[2]]
           Is(f) == f = [l \in 0..NumDigits |-> IF l = 0 THEN bin_bcd2(0)
                                                ELSE multiply_digit(f[l - 1], bcd, m[l - 1], l - 1)]
           acc == CHOOSE f : Is(f)
<1>1. NumDigits \in Nat /\ m \in Bcds /\ bin_bcd2(0) \in Bcds /\ NumDigits \in 0..NumDigits
  BY NumDigitsIs, BinBcdIs
<1>2. bcd2_mul(bcd, multiplier) = acc[NumDigits]
  BY DEF bcd2_mul
<1> HIDE DEF m
<1>3. \A a \in Bcds, l \in Digit : multiply_digit(a, bcd, m[l], l) \in Bcds
  <2> SUFFICES ASSUME NEW a \in Bcds, NEW l \in Digit
               PROVE  multiply_digit(a, bcd, m[l], l) \in Bcds
    OBVIOUS
  <2>1. m[l] \in 0..9
    BY <1>1 DEF Bcds
  <2> QED
    BY <2>1, MultiplyDigitIs
<1>4. F \in [Nat \X Bcds -> Bcds]
  BY <1>3
<1>5. \A a \in Bcds, k \in Nat : k - 1 \in Digit => F[<<k, a>>] = multiply_digit(a, bcd, m[k - 1], k - 1)
  OBVIOUS
<1> HIDE DEF F
<1>6. \A k \in 1..NumDigits : k \in Nat /\ k - 1 \in Digit /\ k - 1 \in 0..NumDigits
  BY <1>1 DEF Digit
<1>7. PICK f : Iterated(f, NumDigits, Bcds, bin_bcd2(0), F)
  BY <1>1, <1>4, Recursion
<1>8. Is(f)
  <2>1. f \in [0..NumDigits -> Bcds] /\ f[0] = bin_bcd2(0) /\ \A k \in 1..NumDigits : f[k] = F[<<k, f[k - 1]>>]
    BY <1>7 DEF Iterated
  <2>2. ASSUME NEW k \in 1..NumDigits
        PROVE  f[k] = multiply_digit(f[k - 1], bcd, m[k - 1], k - 1)
    <3>1. f[k - 1] \in Bcds
      BY <1>6, <2>1
    <3> QED
      BY <1>5, <1>6, <2>1, <3>1
  <2>3. \A k \in 0..NumDigits : k # 0 => k \in 1..NumDigits
    BY <1>1
  <2>4. \A k \in 0..NumDigits : f[k] = IF k = 0 THEN bin_bcd2(0) ELSE multiply_digit(f[k - 1], bcd, m[k - 1], k - 1)
    BY <2>1, <2>2, <2>3
  <2> QED
    BY <2>1, <2>4
<1>9. Is(acc)
  BY <1>8
<1> HIDE DEF acc
<1>10. acc[0] = bin_bcd2(0) /\ \A k \in 1..NumDigits : acc[k] = multiply_digit(acc[k - 1], bcd, m[k - 1], k - 1)
  <2>1. ASSUME NEW k \in 0..NumDigits
        PROVE  acc[k] = IF k = 0 THEN bin_bcd2(0) ELSE multiply_digit(acc[k - 1], bcd, m[k - 1], k - 1)
    BY <1>9, Zenon
  <2>2. 0 \in 0..NumDigits /\ \A k \in 1..NumDigits : k \in 0..NumDigits /\ k # 0
    BY <1>1
  <2> QED
    BY <2>1, <2>2
<1>11. \A k \in 0..NumDigits : acc[k] \in Bcds
  <2>1. acc[0] \in Bcds /\ \A k \in 1..NumDigits : acc[k - 1] \in Bcds => acc[k] \in Bcds
    BY <1>1, <1>3, <1>6, <1>10
  <2> QED
    BY <1>1, <2>1, Computed
<1>12. ASSUME NEW l \in Digit
       PROVE  acc[l + 1] = multiply_digit(acc[l], bcd, m[l], l)
  <2>1. l + 1 \in 1..NumDigits /\ (l + 1) - 1 = l
    BY <1>1 DEF Digit
  <2> QED
    BY <1>10, <2>1
<1>13. MulRounds(bcd, multiplier, acc)
  BY <1>2, <1>10, <1>11, <1>12 DEF MulRounds, m
<1> QED
  BY <1>13

(* bcd2_mul multiplies, modulo the digits that there are. *)
LEMMA MulIs ==
  ASSUME NEW bcd \in Bcds, NEW multiplier \in Nat
  PROVE  /\ bcd2_mul(bcd, multiplier) \in Bcds
         /\ Number(bcd2_mul(bcd, multiplier)) = (Number(bcd) * multiplier) % Ten[NumDigits]
<1> DEFINE m == bin_bcd2(multiplier)
           v == Sums(m)
           b == Number(bcd)
           N == NumDigits
           t == Ten[N]
<1>1. PICK acc : MulRounds(bcd, multiplier, acc)
  BY MulAcc
<1>2. m \in Bcds /\ IsSums(v, m) /\ \A k \in 0..NumDigits : v[k] = multiplier % Ten[k]
  BY BinBcdIs, SumsExist
<1>3. /\ acc[0] = bin_bcd2(0) /\ acc[N] = bcd2_mul(bcd, multiplier)
      /\ \A l \in 0..NumDigits : acc[l] \in Bcds
      /\ \A l \in Digit : acc[l + 1] = multiply_digit(acc[l], bcd, m[l], l)
  BY <1>1 DEF MulRounds
<1>4. N \in 0..NumDigits /\ N \in Nat /\ t \in Nat \ {0} /\ b \in Int
  BY NumDigitsIs, NumberIs, TenIs
<1> HIDE DEF m, v, b, N, t
<1> DEFINE S == {l \in 0..NumDigits : \E x \in Int : b * v[l] = Number(acc[l]) + x * t}
<1>5. 0 \in S
  <2>1. Number(bin_bcd2(0)) = 0 % t /\ v[0] = 0 /\ 0 \in 0..NumDigits
    <3>1. bin_bcd2(0) \in Bcds /\ Sums(bin_bcd2(0))[N] = 0 % Ten[N]
      BY <1>4, BinBcdIs
    <3> QED
      BY <1>2, <1>4, <3>1, NumberIs DEF IsSums, N, t
  <2>2. 0 % t = 0
    BY <1>4
  <2>3. b * v[0] = Number(acc[0]) + 0 * t
    BY <1>3, <1>4, <2>1, <2>2
  <2> QED
    BY <2>1, <2>3
<1>6. ASSUME NEW l \in 0..(NumDigits - 1), l \in S
      PROVE  l + 1 \in S
  <2>1. l \in Digit /\ l + 1 \in 0..NumDigits /\ l \in 0..NumDigits
    BY NumDigitsIs DEF Digit
  <2>2. PICK x \in Int : b * v[l] = Number(acc[l]) + x * t
    BY <1>6
  <2>3. m[l] \in 0..9 /\ acc[l] \in Bcds /\ acc[l + 1] \in Bcds
    BY <1>2, <1>3, <2>1 DEF Bcds
  <2>4. PICK y \in Int : Number(acc[l]) + (m[l] * Ten[l]) * b = Number(acc[l + 1]) + y * t
    <3> DEFINE a == acc[l]
               d == m[l]
    <3>1. a \in Bcds /\ d \in 0..9 /\ acc[l + 1] = multiply_digit(a, bcd, d, l)
      BY <1>3, <2>1, <2>3
    <3> HIDE DEF a, d
    <3>2. \E z \in Int : Number(a) + (d * Ten[l]) * Number(bcd) = Number(multiply_digit(a, bcd, d, l)) + z * Ten[NumDigits]
      BY <2>1, <3>1, MultiplyDigitIs
    <3> QED
      BY <3>1, <3>2 DEF a, d, b, t, N
  <2>5. v[l + 1] = v[l] + m[l] * Ten[l] /\ v[l] \in Int /\ Ten[l] \in Int /\ m[l] \in Int
    BY <1>2, <2>1, <2>3, TenIs DEF IsSums
  <2>6. Number(acc[l]) \in Int /\ Number(acc[l + 1]) \in Int
    BY <2>3, NumberIs
  <2> DEFINE g == m[l] * Ten[l]
             e == Number(acc[l])
             f == Number(acc[l + 1])
             u == v[l]
  <2>7. /\ g \in Int /\ e \in Int /\ f \in Int /\ u \in Int /\ v[l + 1] = u + g
        /\ b * u = e + x * t /\ e + g * b = f + y * t
    BY <2>2, <2>4, <2>5, <2>6
  <2> HIDE DEF g, e, f, u
  <2>8. b * (u + g) = f + (x + y) * t
    <3>1. b * (u + g) = b * u + g * b /\ (x + y) * t = x * t + y * t
      BY <1>4, <2>7
    <3>2. g * b \in Int /\ x * t \in Int /\ y * t \in Int /\ b * u \in Int
      BY <1>4, <2>7
    <3> QED
      BY <2>7, <3>1, <3>2
  <2>9. \E z \in Int : b * v[l + 1] = f + z * t
    <3>1. x + y \in Int
      OBVIOUS
    <3> QED
      BY <2>7, <2>8, <3>1
  <2> QED
    BY <2>1, <2>9 DEF f
<1> HIDE DEF S
<1>7. 0..NumDigits \subseteq S
  BY <1>5, <1>6, NumDigitsIs, UptoInduction
<1>8. PICK x \in Int : b * v[N] = Number(acc[N]) + x * t
  BY <1>4, <1>7 DEF S
<1>9. acc[N] \in Bcds /\ Number(acc[N]) \in 0..(t - 1)
  <2>1. acc[N] \in Bcds
    BY <1>3, <1>4
  <2> QED
    BY <2>1, NumberIs DEF t, N
<1>10. v[N] = multiplier % t /\ v[N] \in Int
  BY <1>2, <1>4 DEF IsSums, t
<1>11. (b * v[N]) % t = Number(acc[N])
  <2> DEFINE a == b * v[N]
             r == Number(acc[N])
  <2>1. a \in Int /\ r \in 0..(t - 1) /\ a = x * t + r
    <3>1. a \in Int /\ x * t \in Int /\ r \in 0..(t - 1) /\ a = r + x * t
      BY <1>4, <1>8, <1>9, <1>10
    <3> HIDE DEF a, r
    <3> QED
      BY <3>1, <1>4
  <2> HIDE DEF a, r
  <2>2. \A c, y \in Int, d \in 0..(t - 1) : c = y * t + d => c % t = d
    BY <1>4, ModIs, Zenon
  <2>3. a % t = r
    BY <2>1, <2>2
  <2> QED
    BY <2>3 DEF a, r
<1>12. (b * (multiplier % t)) % t = (b * multiplier) % t
  BY <1>4, multiplier \in Int, ModFactorRight
<1> QED
  BY <1>3, <1>9, <1>10, <1>11, <1>12 DEF b, t, N

-----------------------------------------------------------------------------
(* Quotients. *)

(* What bcd2_div carries down from the digits above. *)
DivSteps(bcd, divisor, carry) ==
  /\ bcd2_div(bcd, divisor) = [d \in Digit |-> (bcd[d] + 10 * carry[d + 1]) \div divisor]
  /\ carry[NumDigits] = 0 /\ \A k \in 0..NumDigits : carry[k] \in 0..(divisor - 1)
  /\ \A d \in Digit : carry[d] = (bcd[d] + 10 * carry[d + 1]) % divisor

LEMMA DivCarry ==
  ASSUME NEW bcd \in Bcds, NEW divisor \in Nat \ {0}
  PROVE  \E carry : DivSteps(bcd, divisor, carry)
<1> DEFINE N == NumDigits
           S == 0..(divisor - 1)
           F == [z \in Nat \X S |-> IF N - z[1] \in Digit THEN (bcd[N - z[1]] + 10 * z[2]) % divisor ELSE 0]
           Is(f) == f = [d \in 0..NumDigits |-> IF d = NumDigits THEN 0 ELSE (bcd[d] + 10 * f[d + 1]) % divisor]
           carry == CHOOSE f : Is(f)
<1>1. N \in Nat /\ 0 \in S
  BY NumDigitsIs
<1>2. bcd2_div(bcd, divisor) = [d \in Digit |-> (bcd[d] + 10 * carry[d + 1]) \div divisor]
  BY DEF bcd2_div
<1>3. \A d \in Digit, x \in S : (bcd[d] + 10 * x) % divisor \in S
  <2> SUFFICES ASSUME NEW d \in Digit, NEW x \in S
               PROVE  (bcd[d] + 10 * x) % divisor \in S
    OBVIOUS
  <2> DEFINE a == bcd[d] + 10 * x
  <2>1. a \in Int
    BY DEF Bcds
  <2> HIDE DEF a
  <2>2. a % divisor \in 0..(divisor - 1)
    BY <2>1, Divided
  <2> QED
    BY <2>2 DEF a
<1>4. F \in [Nat \X S -> S]
  BY <1>1, <1>3
<1>5. \A x \in S, k \in Nat : N - k \in Digit => F[<<k, x>>] = (bcd[N - k] + 10 * x) % divisor
  OBVIOUS
<1> HIDE DEF F, S
<1>6. PICK g : Iterated(g, N, S, 0, F)
  BY <1>1, <1>4, Recursion
<1>7. g \in [0..N -> S] /\ g[0] = 0 /\ \A k \in 1..N : g[k] = F[<<k, g[k - 1]>>]
  BY <1>6 DEF Iterated
<1> DEFINE f == [d \in 0..NumDigits |-> g[N - d]]
<1>8. Is(f)
  <2>1. ASSUME NEW d \in 0..NumDigits
        PROVE  g[N - d] = IF d = NumDigits THEN 0 ELSE (bcd[d] + 10 * f[d + 1]) % divisor
    <3>1. CASE d = NumDigits
      BY <1>1, <1>7, <3>1
    <3>2. CASE d # NumDigits
      <4>1. /\ d \in Digit /\ N - d \in 1..N /\ (N - d) - 1 = N - (d + 1) /\ d + 1 \in 0..NumDigits /\ N - (N - d) = d
            /\ N - (d + 1) \in 0..N /\ N - d \in Nat
        BY <1>1, <3>2 DEF Digit
      <4>2. g[N - d] = F[<<N - d, g[N - (d + 1)]>>] /\ g[N - (d + 1)] \in S /\ f[d + 1] = g[N - (d + 1)]
        BY <1>7, <4>1
      <4> QED
        BY <1>5, <3>2, <4>1, <4>2
    <3> QED
      BY <3>1, <3>2
  <2> QED
    BY <2>1
<1> HIDE DEF f
<1>9. Is(carry)
  BY <1>8
<1> HIDE DEF carry
<1>10. ASSUME NEW d \in 0..NumDigits
       PROVE  carry[d] = IF d = NumDigits THEN 0 ELSE (bcd[d] + 10 * carry[d + 1]) % divisor
  BY <1>9, Zenon
<1>11. carry[NumDigits] = 0 /\ \A d \in Digit : carry[d] = (bcd[d] + 10 * carry[d + 1]) % divisor
  <2>1. NumDigits \in 0..NumDigits /\ \A d \in Digit : d \in 0..NumDigits /\ d # NumDigits
    BY <1>1 DEF Digit
  <2> QED
    BY <1>10, <2>1
<1>12. \A k \in 0..NumDigits : carry[k] \in S
  <2> DEFINE h == [k \in 0..N |-> carry[N - k]]
  <2>1. h[0] \in S
    BY <1>1, <1>11
  <2>2. ASSUME NEW k \in 1..N, h[k - 1] \in S
        PROVE  h[k] \in S
    <3>1. N - k \in Digit /\ N - (k - 1) = (N - k) + 1 /\ k - 1 \in 0..N /\ k \in 0..N
      BY <1>1 DEF Digit
    <3>2. carry[(N - k) + 1] \in S /\ h[k] = carry[N - k]
      BY <2>2, <3>1
    <3> QED
      BY <1>3, <1>11, <3>1, <3>2
  <2> HIDE DEF h
  <2>3. \A k \in 0..N : h[k] \in S
    BY <1>1, <2>1, <2>2, Computed
  <2> SUFFICES ASSUME NEW k \in 0..NumDigits
               PROVE  carry[k] \in S
    OBVIOUS
  <2>4. N - k \in 0..N /\ N - (N - k) = k
    BY <1>1
  <2> QED
    BY <2>3, <2>4 DEF h
<1>13. DivSteps(bcd, divisor, carry)
  BY <1>2, <1>11, <1>12 DEF DivSteps, S
<1> QED
  BY <1>13

LEMMA DivDigit ==
  ASSUME NEW b \in 0..9, NEW divisor \in Nat \ {0}, NEW c \in 0..(divisor - 1)
  PROVE  (b + 10 * c) \div divisor \in 0..9
<1> DEFINE s == b + 10 * c
           q == s \div divisor
           r == s % divisor
<1>1. s \in Nat /\ s < 10 * divisor
  OBVIOUS
<1> HIDE DEF s
<1>2. q \in Nat /\ r \in Nat /\ s = q * divisor + r
  BY <1>1, QuotientIn
<1> HIDE DEF q, r
<1>3. q < 10
  <2> SUFFICES ASSUME q >= 10 PROVE FALSE
    BY <1>2
  <2>1. PICK p \in Nat : q = p + 10
    BY <1>2
  <2>2. q * divisor = p * divisor + 10 * divisor /\ p * divisor >= 0 /\ p * divisor \in Int
    BY <2>1
  <2> QED
    BY <1>1, <1>2, <2>2
<1> QED
  BY <1>2, <1>3 DEF q, s

LEMMA DivStep ==
  ASSUME NEW t \in Int, NEW n \in Nat \ {0}, NEW v \in Int, NEW w \in Int, NEW b \in Int, NEW c \in Int,
         v = n * w + c * (10 * t)
  PROVE  v + b * t = n * (w + ((b + 10 * c) \div n) * t) + ((b + 10 * c) % n) * t
<1> DEFINE s == b + 10 * c
           q == s \div n
           r == s % n
<1>1. s \in Int /\ s * t = b * t + c * (10 * t)
  OBVIOUS
<1> HIDE DEF s
<1>2. q \in Int /\ r \in Int /\ s = q * n + r
  BY <1>1, Divided
<1> HIDE DEF q, r
<1>3. s * t = (q * n) * t + r * t /\ n * (w + q * t) = n * w + (q * n) * t
  BY <1>2
<1>4. /\ s * t \in Int /\ (q * n) * t \in Int /\ r * t \in Int /\ n * w \in Int /\ b * t \in Int
      /\ c * (10 * t) \in Int /\ n * (w + q * t) \in Int
  BY <1>1, <1>2
<1>5. v + b * t = n * (w + q * t) + r * t
  BY <1>1, <1>3, <1>4
<1> QED
  BY <1>5 DEF q, r, s

(* bcd2_div divides. *)
LEMMA DivIs ==
  ASSUME NEW bcd \in Bcds, NEW divisor \in Nat \ {0}
  PROVE  /\ bcd2_div(bcd, divisor) \in Bcds
         /\ Number(bcd2_div(bcd, divisor)) = Number(bcd) \div divisor
<1> DEFINE res == bcd2_div(bcd, divisor)
           v == Sums(bcd)
           w == Sums(res)
           N == NumDigits
<1>1. PICK carry : DivSteps(bcd, divisor, carry)
  BY DivCarry
<1>2. /\ res = [d \in Digit |-> (bcd[d] + 10 * carry[d + 1]) \div divisor]
      /\ carry[N] = 0 /\ \A k \in 0..N : carry[k] \in 0..(divisor - 1)
      /\ \A d \in Digit : carry[d] = (bcd[d] + 10 * carry[d + 1]) % divisor
  BY <1>1 DEF DivSteps
<1>3. ASSUME NEW d \in Digit
      PROVE  bcd[d] \in 0..9 /\ carry[d + 1] \in 0..(divisor - 1)
  BY <1>2, DigitIs DEF Bcds
<1>4. res \in Bcds
  <2>1. ASSUME NEW d \in Digit
        PROVE  (bcd[d] + 10 * carry[d + 1]) \div divisor \in 0..9
    <3> DEFINE b == bcd[d]
               c == carry[d + 1]
    <3>1. b \in 0..9 /\ c \in 0..(divisor - 1)
      BY <1>3
    <3> HIDE DEF b, c
    <3>2. (b + 10 * c) \div divisor \in 0..9
      BY <3>1, DivDigit
    <3> QED
      BY <3>2 DEF b, c
  <2> QED
    BY <1>2, <2>1 DEF Bcds
<1> HIDE DEF res
<1>5. IsSums(v, bcd) /\ IsSums(w, res) /\ Number(bcd) = v[N] /\ Number(res) = w[N]
  BY <1>4, SumsExist, NumberIs
<1>6. N \in Nat /\ N \in 0..NumDigits /\ 0 \in 0..NumDigits
  BY NumDigitsIs
<1>7. v[N] \in Int /\ w[N] \in Int /\ v[0] = 0 /\ w[0] = 0
  BY <1>5, <1>6 DEF IsSums
<1> HIDE DEF v, w
<1> DEFINE S == {j \in 0..N : v[N] - v[N - j] = divisor * (w[N] - w[N - j]) + carry[N - j] * Ten[N - j]}
<1>8. 0 \in S
  <2>1. N - 0 = N /\ 0 \in 0..N /\ Ten[N] \in Int
    BY <1>6, TenIs
  <2>2. v[N] - v[N] = 0 /\ w[N] - w[N] = 0 /\ 0 * Ten[N] = 0 /\ divisor * 0 = 0
    BY <1>7, <2>1
  <2>3. v[N] - v[N] = divisor * (w[N] - w[N]) + carry[N] * Ten[N]
    BY <1>2, <2>2
  <2> QED
    BY <2>1, <2>3
<1>9. ASSUME NEW j \in 0..(N - 1), j \in S
      PROVE  j + 1 \in S
  <2> DEFINE d == N - (j + 1)
  <2>1. d \in Digit /\ N - j = d + 1 /\ j + 1 \in 0..N /\ d \in 0..NumDigits /\ d + 1 \in 0..NumDigits
    BY <1>6 DEF Digit
  <2>2. v[N] - v[d + 1] = divisor * (w[N] - w[d + 1]) + carry[d + 1] * Ten[d + 1]
    BY <1>9, <2>1
  <2> HIDE DEF d
  <2>3. v[d + 1] = v[d] + bcd[d] * Ten[d] /\ w[d + 1] = w[d] + res[d] * Ten[d] /\ Ten[d + 1] = 10 * Ten[d]
    BY <1>5, <2>1, TenIs DEF IsSums
  <2>4. /\ v[d] \in Int /\ w[d] \in Int /\ v[d + 1] \in Int /\ w[d + 1] \in Int /\ Ten[d] \in Int
    BY <1>5, <2>1, TenIs DEF IsSums
  <2>5. bcd[d] \in Int /\ carry[d + 1] \in Int
    BY <1>3, <2>1
  <2>6. res[d] = (bcd[d] + 10 * carry[d + 1]) \div divisor /\ carry[d] = (bcd[d] + 10 * carry[d + 1]) % divisor
    BY <1>2, <2>1
  <2> DEFINE t == Ten[d]
             b == bcd[d]
             c == carry[d + 1]
             x == v[N] - v[d + 1]
             y == w[N] - w[d + 1]
             r == res[d]
             e == carry[d]
  <2>7. /\ t \in Int /\ b \in Int /\ c \in Int /\ x \in Int /\ y \in Int /\ x = divisor * y + c * (10 * t)
        /\ r = (b + 10 * c) \div divisor /\ e = (b + 10 * c) % divisor
    BY <1>7, <2>2, <2>3, <2>4, <2>5, <2>6
  <2>8. v[N] - v[d] = x + b * t /\ w[N] - w[d] = y + r * t
    <3>1. b * t \in Int
      BY <2>7
    <3>2. r \in Int
      BY <1>4, <2>1 DEF Bcds
    <3>3. r * t \in Int
      BY <2>7, <3>2
    <3> HIDE DEF t, b, r
    <3>4. v[d + 1] = v[d] + b * t /\ w[d + 1] = w[d] + r * t
      BY <2>3 DEF t, b, r
    <3> QED
      BY <1>7, <2>4, <3>1, <3>3, <3>4
  <2> HIDE DEF t, b, c, x, y, r, e
  <2>9. x + b * t = divisor * (y + r * t) + e * t
    BY <2>7, DivStep
  <2> QED
    BY <2>1, <2>8, <2>9 DEF d, e, t
<1> HIDE DEF S
<1>10. 0..N \subseteq S
  BY <1>6, <1>8, <1>9, UptoInduction
<1>11. v[N] = w[N] * divisor + carry[0] /\ carry[0] \in 0..(divisor - 1)
  <2>1. N \in S /\ N - N = 0
    BY <1>6, <1>10
  <2>2. v[N] - v[0] = divisor * (w[N] - w[0]) + carry[0] * Ten[0]
    BY <2>1 DEF S
  <2>3. carry[0] \in 0..(divisor - 1) /\ Ten[0] = 1
    BY <1>2, <1>6, TenIs
  <2>4. carry[0] * 1 = carry[0] /\ v[N] - 0 = v[N] /\ w[N] - 0 = w[N]
    BY <1>7, <2>3
  <2>5. v[N] = divisor * w[N] + carry[0]
    BY <1>7, <2>2, <2>3, <2>4
  <2> QED
    BY <1>7, <2>3, <2>5
<1>12. v[N] \div divisor = w[N]
  <2> DEFINE a == v[N]
             q == w[N]
             r == carry[0]
  <2>1. a \in Int /\ q \in Int /\ r \in 0..(divisor - 1) /\ a = q * divisor + r
    BY <1>7, <1>11
  <2> HIDE DEF a, q, r
  <2>2. a \div divisor = q
    BY <2>1, DivUnique
  <2> QED
    BY <2>2 DEF a, q
<1> QED
  BY <1>4, <1>5, <1>12 DEF res

-----------------------------------------------------------------------------
(* Decimal numbers compute as the numbers do. *)

LEMMA NumberOf ==
  ASSUME NEW n \in Nat, n < Ten[NumDigits]
  PROVE  bin_bcd2(n) \in Bcds /\ Number(bin_bcd2(n)) = n
<1>1. NumDigits \in 0..NumDigits /\ Ten[NumDigits] \in Nat \ {0}
  BY NumDigitsIs, TenIs
<1>2. bin_bcd2(n) \in Bcds /\ Sums(bin_bcd2(n))[NumDigits] = n % Ten[NumDigits]
  BY <1>1, BinBcdIs
<1>3. n % Ten[NumDigits] = n
  BY <1>1, ModSmall
<1> QED
  BY <1>2, <1>3, NumberIs

(* For every number of digits: as long as a and the sum fit into them,     *)
(* bcd2_add, bcd2_mul and bcd2_div compute what the same operations of     *)
(* numbers do, carries over the border of the words included.              *)
THEOREM BcdComputes ==
  ASSUME NEW a \in Nat, NEW b \in Nat \ {0}, a + b < Ten[NumDigits]
  PROVE  BcdExactOn(a, b)
<1>1. Ten[NumDigits] \in Nat \ {0} /\ a < Ten[NumDigits] /\ a + b \in 0..(Ten[NumDigits] - 1)
  BY NumDigitsIs, TenIs
<1>2. bin_bcd2(a) \in Bcds /\ Number(bin_bcd2(a)) = a
  BY <1>1, NumberOf
<1>3. (a + b) % Ten[NumDigits] = a + b
  <2> DEFINE n == Ten[NumDigits]
             s == a + b
  <2>1. n \in Nat \ {0} /\ s \in 0..(n - 1)
    BY <1>1
  <2> HIDE DEF n, s
  <2>2. s % n = s
    BY <2>1, ModSmall
  <2> QED
    BY <2>2 DEF n, s
<1>4. /\ Number(bcd2_add(bin_bcd2(a), b)) = (a + b) % Ten[NumDigits]
      /\ Number(bcd2_mul(bin_bcd2(a), b)) = (a * b) % Ten[NumDigits]
      /\ Number(bcd2_div(bin_bcd2(a), b)) = a \div b
  BY <1>2, AddIs, MulIs, DivIs
<1> QED
  BY <1>3, <1>4 DEF BcdExactOn

-----------------------------------------------------------------------------
(* Keys of two words. *)

(* The text of two words is that of the number. *)
LEMMA PrintedIs ==
  ASSUME NEW bcd \in Bcds
  PROVE  PR_HUGE(<<bcd2_bin(bcd, 0), bcd2_bin(bcd, DIGITS_PER_LONG)>>) = Number(bcd)
<1> DEFINE lo == bcd2_bin(bcd, 0)
           hi == bcd2_bin(bcd, DIGITS_PER_LONG)
           t == Ten[DIGITS_PER_LONG]
<1>1. lo \in Nat /\ hi \in Nat
  BY BinIs
<1>2. t \in Nat
  BY NumDigitsIs, TenIs
<1>3. Number(bcd) = hi * t + lo
  BY DEF Number
<1>4. PR_HUGE(<<lo, hi>>) = IF hi = 0 THEN lo ELSE hi * t + lo
  BY DEF PR_HUGE
<1> HIDE DEF lo, hi, t
<1>5. hi = 0 => hi * t + lo = lo
  BY <1>1, <1>2
<1>6. PR_HUGE(<<lo, hi>>) = Number(bcd)
  BY <1>3, <1>4, <1>5
<1> QED
  BY <1>6 DEF lo, hi

LEMMA FitsIs ==
  ASSUME NEW n \in Nat, n < Ten[NumDigits]
  PROVE  n % Ten[NumDigits] = n
<1>1. Ten[NumDigits] \in Nat \ {0}
  BY NumDigitsIs, TenIs
<1> QED
  BY <1>1, ModSmall

LEMMA AddFits ==
  ASSUME NEW bcd \in Bcds, NEW n \in Nat, NEW m \in Nat, Number(bcd) = n, n + m < Ten[NumDigits]
  PROVE  bcd2_add(bcd, m) \in Bcds /\ Number(bcd2_add(bcd, m)) = n + m
<1>1. n + m \in Nat
  OBVIOUS
<1>2. (n + m) % Ten[NumDigits] = n + m
  BY <1>1, FitsIs
<1> QED
  BY <1>2, AddIs

LEMMA MulFits ==
  ASSUME NEW bcd \in Bcds, NEW n \in Nat, NEW m \in Nat, Number(bcd) = n, n * m < Ten[NumDigits]
  PROVE  bcd2_mul(bcd, m) \in Bcds /\ Number(bcd2_mul(bcd, m)) = n * m
<1>1. n * m \in Nat
  OBVIOUS
<1>2. (n * m) % Ten[NumDigits] = n * m
  BY <1>1, FitsIs
<1> QED
  BY <1>2, MulIs

(* For every number of digits that a key fits into: the text that is       *)
(* printed of the key of hd_sparse is a number in the block of its row and *)
(* in the eight of its generation.                                         *)
THEOREM HugeKeyInBlock ==
  ASSUME NEW r \in Nat, NEW seq \in 0..3, 4 * r + 32 <= Ten[NumDigits]
  PROVE  HugeKeyOn(r, seq)
<1> DEFINE t == Ten[NumDigits]
           bs == bin_bcd2(r)
           k == r \div 8
           low == bs[0] % 8
           x1 == bcd2_div(bs, 8)
           x2 == bcd2_mul(x1, 4)
           x3 == bcd2_add(x2, seq)
           x4 == bcd2_mul(x3, 8)
           x5 == bcd2_add(x4, low)
<1>1. t \in Nat
  BY NumDigitsIs, TenIs
<1>2. k \in Nat /\ 8 * k <= r
  BY SMT
<1>3. bs \in Bcds /\ Number(bs) = r
  BY <1>1, NumberOf
<1>4. low \in 0..7
  <2>1. bs[0] \in 0..9
    BY <1>3, NumDigitsIs DEF Bcds, Digit
  <2> DEFINE b == bs[0]
  <2>2. b \in Nat
    BY <2>1
  <2> HIDE DEF b
  <2>3. b % 8 \in 0..7
    BY <2>2
  <2> QED
    BY <2>3 DEF b
<1>5. hd_sparse(r, seq) = <<bcd2_bin(x5, 0), bcd2_bin(x5, DIGITS_PER_LONG)>>
  <2>1. 2^SPARSE_KEEP = 8 /\ 2^SPARSE_BITS = 4
    BY SMT DEF SPARSE_KEEP, SPARSE_BITS
  <2> QED
    BY <2>1, Zenon DEF hd_sparse
<1> HIDE DEF bs, low
<1>6. x1 \in Bcds /\ Number(x1) = k
  BY <1>3, DivIs
<1> HIDE DEF x1, k
<1>7. k * 4 < t /\ k * 4 + seq < t /\ (k * 4 + seq) * 8 < t /\ (k * 4 + seq) * 8 + low < t
  BY <1>1, <1>2, <1>4
<1>8. x2 \in Bcds /\ Number(x2) = k * 4
  BY <1>2, <1>6, <1>7, MulFits
<1> HIDE DEF x2
<1>9. x3 \in Bcds /\ Number(x3) = k * 4 + seq
  <2> DEFINE n == k * 4
  <2>1. n \in Nat /\ Number(x2) = n /\ n + seq < t /\ seq \in Nat
    BY <1>2, <1>7, <1>8
  <2> HIDE DEF n
  <2>2. x3 \in Bcds /\ Number(x3) = n + seq
    BY <1>8, <2>1, AddFits
  <2> QED
    BY <2>2 DEF n
<1> HIDE DEF x3
<1>10. x4 \in Bcds /\ Number(x4) = (k * 4 + seq) * 8
  <2> DEFINE n == k * 4 + seq
  <2>1. n \in Nat /\ Number(x3) = n /\ n * 8 < t
    BY <1>2, <1>7, <1>9
  <2> HIDE DEF n
  <2>2. x4 \in Bcds /\ Number(x4) = n * 8
    BY <1>9, <2>1, MulFits
  <2> QED
    BY <2>2 DEF n
<1> HIDE DEF x4
<1>11. x5 \in Bcds /\ Number(x5) = (k * 4 + seq) * 8 + low
  <2> DEFINE n == (k * 4 + seq) * 8
  <2>1. n \in Nat /\ Number(x4) = n /\ n + low < t /\ low \in Nat
    BY <1>2, <1>4, <1>7, <1>10
  <2> HIDE DEF n
  <2>2. x5 \in Bcds /\ Number(x5) = n + low
    BY <1>10, <2>1, AddFits
  <2> QED
    BY <2>2 DEF n
<1> HIDE DEF x5
<1>12. PR_HUGE(hd_sparse(r, seq)) = (k * 4 + seq) * 8 + low
  BY <1>5, <1>11, PrintedIs
<1>13. ((k * 4 + seq) * 8 + low) \div 8 = k * 4 + seq
  <2> DEFINE n == k * 4 + seq
  <2>1. n \in Nat
    BY <1>2
  <2> HIDE DEF n
  <2>2. (n * 8 + low) \div 8 = n
    BY <1>4, <2>1
  <2> QED
    BY <2>2 DEF n
<1> QED
  BY <1>12, <1>13 DEF HugeKeyOn, k

-----------------------------------------------------------------------------
(* bcd2_add, bcd2_mul and bcd2_div compute the sum, the product modulo the *)
(* two words and the quotient of any two values that a stream can have.    *)
THEOREM DigitsAreExact == Spec => []BcdExact
<1>1. ASSUME Inv
      PROVE  BcdExact
  <2>1. value \in Units /\ start \in Units
    BY <1>1, ValueIsUnit DEF Inv
  <2>2. Modulus \in Nat /\ Ten[NumDigits] \in Nat /\ NumDigits \in 0..NumDigits
    BY ModulusIs, NumDigitsIs, TenIs
  <2>3. start \in Nat /\ value \in Nat \ {0} /\ start + value < Ten[NumDigits]
    BY <2>1, <2>2, WordsAssumption DEF Units
  <2> QED
    BY <2>3, BcdComputes DEF BcdExact
<1> QED
  BY <1>1, InvInit, InvNext, PTL DEF Spec

(* The key of any order that a word can count keeps its block of eight and *)
(* its generation through hd_sparse and PR_HUGE.                           *)
THEOREM HugeKeysInBlock == Spec => []HugeKeys
<1>1. ASSUME Inv
      PROVE  HugeKeys
  <2>1. value \in Units /\ start \in Units
    BY <1>1, ValueIsUnit DEF Inv
  <2>2. Modulus \in Nat /\ Ten[NumDigits] \in Nat /\ NumDigits \in 0..NumDigits
    BY ModulusIs, NumDigitsIs, TenIs
  <2>3. start \in Nat /\ value % 4 \in 0..3 /\ 4 * start + 32 <= Ten[NumDigits]
    BY <2>1, <2>2, WordsAssumption DEF Units
  <2> QED
    BY <2>3, HugeKeyInBlock DEF HugeKeys
<1> QED
  BY <1>1, InvInit, InvNext, PTL DEF Spec
=============================================================================
