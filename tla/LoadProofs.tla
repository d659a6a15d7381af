---------------------------- MODULE LoadProofs -----------------------------
(***************************************************************************)
(* Theorems about the whole process: a run that goes through the tables    *)
(* takes no step of the updates, and the other way round.                  *)
(***************************************************************************)
EXTENDS Load, UpdateProofs, NatFacts, FiniteSetTheorems

LEMMA UpdateSteps == [LoadNext]_loadvars => [UNext]_uvars
BY DEF LoadNext, loadvars

(* The invariant of the updates is inductive for the process. *)
THEOREM LoadInvariant == LoadSpec => [](UInv /\ SeedInv)
<1>1. main => UInv /\ SeedInv
  <2>1. (CHOOSE c \in Commands : TRUE) \in Commands
    BY UpdateAssumption
  <2>2. UIdle => UInv /\ SeedInv
    BY <2>1, UntouchedInv DEF UIdle, SeedInv
  <2>3. UInit => UInv /\ SeedInv
    BY UntouchedInv DEF UInit, Untouched, SeedInv
  <2> QED
    BY <2>2, <2>3 DEF main
<1>2. UInv /\ [LoadNext]_loadvars => UInv'
  BY UpdateSteps, UInvStep
<1>3. UInv /\ SeedInv /\ [LoadNext]_loadvars => SeedInv'
  BY UpdateSteps, SeedStep
<1> QED
  BY <1>1, <1>2, <1>3, PTL DEF LoadSpec

(* The state of a run with -U stays well typed: the rows left to insert    *)
(* and to delete never go below zero, and the routine of the inserts has   *)
(* no file of deletes open, nor the other way round.                       *)
THEOREM UpdateTypeCorrect == LoadSpec => []UTypeOK
<1>1. UInv /\ SeedInv => UTypeOK
  BY DEF UInv
<1> QED
  BY <1>1, LoadInvariant, PTL

(* Below MAX_32B_SCALE, where mk_sparse calls ez_sparse. *)
SmallScales == \A c \in Commands : c.scale < MAX_32B_SCALE

(* Orders can be inserted: at every scale below 1000 and whatever the      *)
(* base, the refresh percentage, the number of pairs, the step and the     *)
(* segments are, no order of a pair has the key of an order of the table   *)
(* or of another pair (ez_sparse with the generation that mk_order         *)
(* computes).  From 1000 on keys of hd_sparse are shared (Keys).           *)
THEOREM KeysAreNew ==
  ASSUME SmallScales
  PROVE  LoadSpec => []FreshKeys
<1>1. UInv /\ SeedInv => FreshKeys
  BY KeysInvFresh DEF UInv, UTypeOK, SmallScales
<1> QED
  BY <1>1, LoadInvariant, PTL

(* A run with -S goes on where the run that generates the pairs before     *)
(* stands: at every row the streams are those of the row, whatever pair    *)
(* the run began with, however many lines the orders had and whatever      *)
(* gen_seed took for the argument that it was not given.                   *)
THEOREM StepsContinue == LoadSpec => []StepContinues
<1>1. UInv /\ SeedInv => StepContinues
  BY DEF SeedInv, Drawn, Taken, StepContinues
<1> QED
  BY <1>1, LoadInvariant, PTL

-----------------------------------------------------------------------------
(* How n rows are divided into s parts: the first n % s parts have one row *)
(* more than the others.                                                   *)

PartSize(n, s, m) == n \div s + (IF m < n % s THEN 1 ELSE 0)
PartStart(n, s, m) == m * (n \div s) + (IF m < n % s THEN m ELSE n % s)
InPart(n, s, m, j) == PartStart(n, s, m) <= j /\ j < PartStart(n, s, m + 1)
PartOf(n, s, j) == CHOOSE m \in 0..(s - 1) : InPart(n, s, m, j)

LEMMA PartSteps ==
  ASSUME NEW n \in Nat, NEW s \in Nat \ {0}, NEW m \in Nat
  PROVE  /\ PartStart(n, s, m) \in Nat /\ PartSize(n, s, m) \in Nat
         /\ PartSize(n, s, m) \in {n \div s, n \div s + 1}
         /\ PartStart(n, s, m + 1) = PartStart(n, s, m) + PartSize(n, s, m)
<1> DEFINE p == n \div s
           q == n % s
<1>1. p \in Nat /\ q \in Nat
  BY DivMod
<1>2. m * p \in Nat /\ (m + 1) * p = m * p + p
  <2> HIDE DEF p
  <2> QED
    BY <1>1
<1>3. /\ PartStart(n, s, m) = m * p + (IF m < q THEN m ELSE q)
      /\ PartStart(n, s, m + 1) = (m + 1) * p + (IF m + 1 < q THEN m + 1 ELSE q)
      /\ PartSize(n, s, m) = p + (IF m < q THEN 1 ELSE 0)
  BY DEF PartStart, PartSize
<1> DEFINE a == m * p
<1>4. a \in Nat /\ (m + 1) * p = a + p /\ PartStart(n, s, m) = a + (IF m < q THEN m ELSE q)
  BY <1>2, <1>3
<1> HIDE DEF p, q, a
<1>5. PartStart(n, s, m + 1) = a + p + (IF m + 1 < q THEN m + 1 ELSE q)
  BY <1>3, <1>4
<1>6. PartStart(n, s, m) \in Nat /\ PartSize(n, s, m) \in Nat /\ PartSize(n, s, m) \in {p, p + 1}
  BY <1>1, <1>3, <1>4
<1>7. PartStart(n, s, m + 1) = PartStart(n, s, m) + PartSize(n, s, m)
  BY <1>1, <1>3, <1>4, <1>5
<1> QED
  BY <1>6, <1>7 DEF p

LEMMA PartEnds ==
  ASSUME NEW n \in Nat, NEW s \in Nat \ {0}
  PROVE  PartStart(n, s, 0) = 0 /\ PartStart(n, s, s) = n
<1> DEFINE p == n \div s
           q == n % s
<1>1. p \in Nat /\ q \in Nat /\ q < s /\ n = p * s + q
  BY DivMod
<1>2. /\ PartStart(n, s, 0) = 0 * p + (IF 0 < q THEN 0 ELSE q)
      /\ PartStart(n, s, s) = s * p + (IF s < q THEN s ELSE q)
  BY DEF PartStart
<1> HIDE DEF p, q
<1>3. 0 * p = 0 /\ s * p = p * s
  BY <1>1
<1> QED
  BY <1>1, <1>2, <1>3

LEMMA PartsGrow ==
  ASSUME NEW n \in Nat, NEW s \in Nat \ {0}, NEW l \in Nat, NEW m \in Nat, l < m
  PROVE  PartStart(n, s, l + 1) <= PartStart(n, s, m)
<1> DEFINE p == n \div s
           q == n % s
<1>1. p \in Nat /\ q \in Nat
  BY DivMod
<1>2. p * (l + 1) <= p * m /\ p * (l + 1) = (l + 1) * p /\ p * m = m * p
  <2> HIDE DEF p
  <2> QED
    BY <1>1, TimesMonotone
<1>3. /\ PartStart(n, s, l + 1) = (l + 1) * p + (IF l + 1 < q THEN l + 1 ELSE q)
      /\ PartStart(n, s, m) = m * p + (IF m < q THEN m ELSE q)
  BY DEF PartStart
<1> DEFINE a == (l + 1) * p
           b == m * p
<1>4. a \in Nat /\ b \in Nat
  <2> HIDE DEF p
  <2> QED
    BY <1>1
<1>5. a <= b
  BY <1>2
<1> HIDE DEF p, q
<1> HIDE DEF a, b
<1>6. /\ PartStart(n, s, l + 1) = a + (IF l + 1 < q THEN l + 1 ELSE q)
      /\ PartStart(n, s, m) = b + (IF m < q THEN m ELSE q)
  BY <1>3 DEF a, b
<1> QED
  BY <1>1, <1>4, <1>5, <1>6

LEMMA PartFound ==
  ASSUME NEW n \in Nat, NEW s \in Nat \ {0}, NEW j \in Nat, j < n
  PROVE  \E m \in 0..(s - 1) : InPart(n, s, m, j)
<1> DEFINE T == {m \in 0..s : j < PartStart(n, s, m) => \E l \in 0..(s - 1) : InPart(n, s, l, j)}
<1>1. 0 \in T
  BY PartEnds
<1>2. ASSUME NEW m \in 0..(s - 1), m \in T
      PROVE  m + 1 \in T
  <2>1. m \in Nat /\ m + 1 \in 0..s /\ PartStart(n, s, m) \in Nat
    BY PartSteps
  <2>2. ASSUME j < PartStart(n, s, m + 1)
        PROVE  \E l \in 0..(s - 1) : InPart(n, s, l, j)
    <3>1. CASE j < PartStart(n, s, m)
      BY <1>2, <3>1
    <3>2. CASE PartStart(n, s, m) <= j
      BY <2>2, <3>2 DEF InPart
    <3> QED
      BY <2>1, <3>1, <3>2
  <2> QED
    BY <2>1, <2>2
<1> HIDE DEF T
<1>3. 0..s \subseteq T
  BY <1>1, <1>2, UptoInduction
<1>4. s \in T
  BY <1>3
<1> QED
  BY <1>4, PartEnds DEF T

LEMMA PartIs ==
  ASSUME NEW n \in Nat, NEW s \in Nat \ {0}, NEW j \in Nat, NEW m \in 0..(s - 1), InPart(n, s, m, j)
  PROVE  PartOf(n, s, j) = m
<1>1. ASSUME NEW l \in 0..(s - 1), InPart(n, s, l, j)
      PROVE  l = m
  <2>1. l \in Nat /\ m \in Nat /\ l + 1 \in Nat /\ m + 1 \in Nat
    OBVIOUS
  <2>2. /\ PartStart(n, s, l) \in Nat /\ PartStart(n, s, m) \in Nat
        /\ PartStart(n, s, l + 1) \in Nat /\ PartStart(n, s, m + 1) \in Nat
    BY <2>1, PartSteps
  <2>3. ~(l < m)
    BY <1>1, <2>1, <2>2, PartsGrow DEF InPart
  <2>4. ~(m < l)
    BY <1>1, <2>1, <2>2, PartsGrow DEF InPart
  <2> QED
    BY <2>1, <2>3, <2>4
<1> HIDE DEF InPart
<1> QED
  BY <1>1 DEF PartOf

LEMMA PartOfRow ==
  ASSUME NEW n \in Nat, NEW s \in Nat \ {0}, NEW j \in Nat, j < n
  PROVE  PartOf(n, s, j) \in 0..(s - 1) /\ InPart(n, s, PartOf(n, s, j), j)
<1>1. PICK m \in 0..(s - 1) : InPart(n, s, m, j)
  BY PartFound
<1> QED
  BY <1>1, PartIs

LEMMA SmallDivisor ==
  ASSUME NEW n \in Nat, NEW s \in Nat, n < s
  PROVE  n \div s = 0 /\ n % s = n
BY SMT

LEMMA LargeDividend ==
  ASSUME NEW n \in Nat, NEW s \in Nat \ {0}, s <= n
  PROVE  n \div s \in Nat /\ n \div s >= 1
BY SMT

(* The parts that have a row: all, or as many as there are rows. *)
LEMMA PartsUsed ==
  ASSUME NEW n \in Nat, NEW s \in Nat \ {0}
  PROVE  LET used == IF n < s THEN n ELSE s
         IN /\ \A j \in 0..(n - 1) : PartOf(n, s, j) \in 0..(used - 1)
            /\ \A m \in 0..(used - 1) : PartStart(n, s, m) \in 0..(n - 1) /\ PartOf(n, s, PartStart(n, s, m)) = m
<1> DEFINE used == IF n < s THEN n ELSE s
<1>1. ASSUME NEW j \in 0..(n - 1)
      PROVE  PartOf(n, s, j) \in 0..(used - 1)
  <2> DEFINE m == PartOf(n, s, j)
  <2>1. m \in 0..(s - 1) /\ PartStart(n, s, m) <= j
    BY PartOfRow DEF InPart
  <2> HIDE DEF m
  <2>2. CASE n < s
    <3>1. n \div s = 0 /\ n % s = n
      BY <2>2, SmallDivisor
    <3>2. PartStart(n, s, m) = m * 0 + (IF m < n THEN m ELSE n)
      BY <3>1 DEF PartStart
    <3>3. m < n
      BY <2>1, <3>2
    <3> QED
      BY <2>1, <2>2, <3>3 DEF m
  <2> QED
    BY <2>1, <2>2 DEF m
<1>2. ASSUME NEW m \in 0..(used - 1)
      PROVE  PartStart(n, s, m) \in 0..(n - 1) /\ PartOf(n, s, PartStart(n, s, m)) = m
  <2>1. m \in Nat /\ m \in 0..(s - 1) /\ m < n
    OBVIOUS
  <2>2. PartSize(n, s, m) >= 1
    <3>1. CASE n < s
      <4>1. n \div s = 0 /\ n % s = n
        BY <3>1, SmallDivisor
      <4> QED
        BY <2>1, <4>1 DEF PartSize
    <3>2. CASE ~(n < s)
      <4>1. n \div s \in Nat /\ n \div s >= 1
        BY <3>2, LargeDividend
      <4>2. PartSize(n, s, m) \in {n \div s, n \div s + 1}
        BY <2>1, PartSteps
      <4> QED
        BY <4>1, <4>2
    <3> QED
      BY <3>1, <3>2
  <2>3. /\ PartStart(n, s, m) \in Nat /\ PartSize(n, s, m) \in Nat
        /\ PartStart(n, s, m + 1) = PartStart(n, s, m) + PartSize(n, s, m)
    BY <2>1, PartSteps
  <2>4. InPart(n, s, m, PartStart(n, s, m))
    BY <2>2, <2>3 DEF InPart
  <2>5. PartStart(n, s, m + 1) <= n
    <3>1. CASE m + 1 = s
      BY <3>1, PartEnds
    <3>2. CASE m + 1 < s
      <4>1. m < s /\ s \in Nat
        BY <3>2
      <4> QED
        BY <2>1, <4>1, PartsGrow, PartEnds
    <3> QED
      BY <2>1, <3>1, <3>2
  <2>6. PartStart(n, s, m) \in 0..(n - 1)
    BY <2>2, <2>3, <2>5
  <2> QED
    BY <2>1, <2>3, <2>4, <2>6, PartIs
<1> QED
  BY <1>1, <1>2

-----------------------------------------------------------------------------
(* Files that the rows of a pair are divided into. *)

Parts(segments) == IF segments = 0 THEN 1 ELSE segments
FileOf(kind, v, segments, m) == <<kind, v, IF segments = 0 THEN 0 ELSE m + 1>>

(* The first k of n entries D, each in the file of its part. *)
Placed(kind, v, n, segments, D, k) ==
  {<<FileOf(kind, v, segments, PartOf(n, Parts(segments), j)), D[j]>> : j \in 0..(k - 1)}

LEMMA ImageCount ==
  ASSUME NEW A, IsFiniteSet(A), NEW f, \A x, y \in A : f[x] = f[y] => x = y
  PROVE  Cardinality({f[x] : x \in A}) = Cardinality(A)
<1> DEFINE g == [x \in A |-> f[x]]
           B == {f[x] : x \in A}
<1>1. g \in Bijection(A, B)
  BY DEF Bijection, Injection, Surjection, IsInjective
<1>2. ExistsBijection(A, B)
  BY <1>1 DEF ExistsBijection
<1> QED
  BY <1>2, FS_Bijection

LEMMA IntervalCount ==
  ASSUME NEW a \in Nat, NEW b \in Nat
  PROVE  IsFiniteSet(a..(a + b - 1)) /\ Cardinality(a..(a + b - 1)) = b
<1>1. a + b - 1 \in Int /\ a \in Int
  OBVIOUS
<1>2. /\ IsFiniteSet(a..(a + b - 1))
      /\ Cardinality(a..(a + b - 1)) = IF a > a + b - 1 THEN 0 ELSE (a + b - 1) - a + 1
  BY <1>1, FS_Interval
<1> QED
  BY <1>2

(* All rows, in as many files as there are segments (or rows), and no file *)
(* has more than one row more than another.                                *)
LEMMA PlacedSplit ==
  ASSUME rowcnt(cmd) \in Nat, NEW kind, NEW v, NEW segments \in Nat, NEW D,
         \A j, k \in 0..(rowcnt(cmd) - 1) : D[j] = D[k] => j = k
  PROVE  Split(Placed(kind, v, rowcnt(cmd), segments, D, rowcnt(cmd)), segments)
<1> DEFINE n == rowcnt(cmd)
           s == Parts(segments)
           E == Placed(kind, v, n, segments, D, n)
           F(m) == FileOf(kind, v, segments, m)
           P(j) == PartOf(n, s, j)
           e == [j \in 0..(n - 1) |-> <<F(P(j)), D[j]>>]
           used == IF n < s THEN n ELSE s
<1>1. n \in Nat /\ s \in Nat \ {0} /\ used \in Nat /\ used <= s
  BY DEF Parts
<1>2. \A j, k \in 0..(n - 1) : D[j] = D[k] => j = k
  OBVIOUS
<1>3. \A l, m \in 0..(s - 1) : F(l) = F(m) => l = m
  BY DEF FileOf, Parts
<1>4. /\ \A j \in 0..(n - 1) : P(j) \in 0..(used - 1)
      /\ \A m \in 0..(used - 1) : PartStart(n, s, m) \in 0..(n - 1) /\ P(PartStart(n, s, m)) = m
  <2> HIDE DEF n, s
  <2> QED
    BY <1>1, PartsUsed
<1>5. \A j \in 0..(n - 1) : P(j) \in 0..(s - 1) /\ InPart(n, s, P(j), j)
  <2> HIDE DEF n, s
  <2> QED
    BY <1>1, PartOfRow
<1>6. E = {e[j] : j \in 0..(n - 1)}
  BY DEF Placed
<1>7. \A j \in 0..(n - 1) : e[j][1] = F(P(j)) /\ e[j][2] = D[j]
  OBVIOUS
<1> HIDE DEF n, s, E, F, P, e, used
<1>8. Cardinality(E) = n
  <2>1. \A j, k \in 0..(n - 1) : e[j] = e[k] => j = k
    BY <1>2, <1>7
  <2>2. IsFiniteSet(0..(n - 1)) /\ Cardinality(0..(n - 1)) = n
    <3>1. 0 + n - 1 = n - 1
      BY <1>1
    <3> QED
      BY <1>1, <3>1, IntervalCount
  <2> DEFINE rows == 0..(n - 1)
  <2>3. E = {e[j] : j \in rows} /\ IsFiniteSet(rows) /\ Cardinality(rows) = n
        /\ \A j, k \in rows : e[j] = e[k] => j = k
    BY <1>6, <2>1, <2>2
  <2> HIDE DEF rows
  <2> QED
    BY <2>3, ImageCount
<1>9. {x[1] : x \in E} = {F(m) : m \in 0..(used - 1)}
  <2>1. ASSUME NEW x \in E
        PROVE  x[1] \in {F(m) : m \in 0..(used - 1)}
    <3>1. PICK j \in 0..(n - 1) : x = e[j]
      BY <1>6
    <3> QED
      BY <1>4, <1>7, <3>1
  <2>2. ASSUME NEW m \in 0..(used - 1)
        PROVE  F(m) \in {x[1] : x \in E}
    <3> DEFINE j == PartStart(n, s, m)
    <3>1. j \in 0..(n - 1) /\ P(j) = m
      BY <1>4
    <3> HIDE DEF j
    <3>2. e[j] \in E /\ e[j][1] = F(m)
      BY <1>6, <1>7, <3>1
    <3> QED
      BY <3>2
  <2> QED
    BY <2>1, <2>2
<1>10. Cardinality({x[1] : x \in E}) = used
  <2> DEFINE g == [m \in 0..(used - 1) |-> F(m)]
  <2>1. \A l, m \in 0..(used - 1) : g[l] = g[m] => l = m
    BY <1>1, <1>3
  <2>2. {F(m) : m \in 0..(used - 1)} = {g[m] : m \in 0..(used - 1)}
    OBVIOUS
  <2> HIDE DEF g
  <2>3. IsFiniteSet(0..(used - 1)) /\ Cardinality(0..(used - 1)) = used
    <3>1. 0 + used - 1 = used - 1
      BY <1>1
    <3> QED
      BY <1>1, <3>1, IntervalCount
  <2> DEFINE parts == 0..(used - 1)
  <2>4. /\ {x[1] : x \in E} = {g[m] : m \in parts} /\ IsFiniteSet(parts) /\ Cardinality(parts) = used
        /\ \A l, m \in parts : g[l] = g[m] => l = m
    BY <1>9, <2>1, <2>2, <2>3
  <2> HIDE DEF parts
  <2>5. Cardinality({g[m] : m \in parts}) = Cardinality(parts)
    BY <2>4, ImageCount
  <2> QED
    BY <2>4, <2>5
<1>11. ASSUME NEW m \in 0..(used - 1)
       PROVE  Cardinality({x \in E : x[1] = F(m)}) = PartSize(n, s, m)
  <2> DEFINE a == PartStart(n, s, m)
             b == PartSize(n, s, m)
             rows == a..(a + b - 1)
  <2>1. m \in Nat /\ m \in 0..(s - 1)
    BY <1>1
  <2>2. a \in Nat /\ b \in Nat /\ PartStart(n, s, m + 1) = a + b
    BY <1>1, <2>1, PartSteps
  <2>3. a + b <= n
    <3>1. CASE m + 1 = s
      BY <1>1, <2>2, <3>1, PartEnds
    <3>2. CASE m + 1 < s
      BY <1>1, <2>1, <2>2, <3>2, PartsGrow, PartEnds
    <3> QED
      BY <1>1, <2>1, <3>1, <3>2
  <2> HIDE DEF a, b
  <2>4. \A j \in 0..(n - 1) : P(j) = m <=> j \in rows
    <3> SUFFICES ASSUME NEW j \in 0..(n - 1)
                 PROVE  P(j) = m <=> j \in rows
      OBVIOUS
    <3>1. j \in Nat /\ (InPart(n, s, m, j) <=> j \in rows)
      BY <1>1, <2>2 DEF InPart, a
    <3>2. InPart(n, s, m, j) => P(j) = m
      BY <1>1, <2>1, <3>1, PartIs DEF P
    <3>3. P(j) = m => InPart(n, s, m, j)
      BY <1>5
    <3> QED
      BY <3>1, <3>2, <3>3
  <2>5. \A j \in rows : j \in 0..(n - 1)
    BY <1>1, <2>2, <2>3
  <2> HIDE DEF rows
  <2>6. {x \in E : x[1] = F(m)} = {e[j] : j \in rows}
    <3>1. ASSUME NEW x \in E, x[1] = F(m)
          PROVE  x \in {e[j] : j \in rows}
      <4>1. PICK j \in 0..(n - 1) : x = e[j]
        BY <1>6
      <4>2. P(j) = m
        BY <1>3, <1>5, <1>7, <2>1, <3>1, <4>1
      <4> QED
        BY <2>4, <4>1, <4>2
    <3>2. ASSUME NEW j \in rows
          PROVE  e[j] \in E /\ e[j][1] = F(m)
      BY <1>6, <1>7, <2>4, <2>5
    <3> QED
      BY <3>1, <3>2
  <2>7. \A j, k \in rows : e[j] = e[k] => j = k
    BY <1>2, <1>7, <2>5
  <2>8. IsFiniteSet(rows) /\ Cardinality(rows) = b
    BY <2>2, IntervalCount DEF rows
  <2> QED
    BY <2>6, <2>7, <2>8, ImageCount DEF b
<1>12. \A l, m \in 0..(used - 1) : PartSize(n, s, l) <= PartSize(n, s, m) + 1
  <2> SUFFICES ASSUME NEW l \in 0..(used - 1), NEW m \in 0..(used - 1)
               PROVE  PartSize(n, s, l) <= PartSize(n, s, m) + 1
    OBVIOUS
  <2>1. n \div s \in Nat
    BY <1>1, DivMod
  <2>2. l \in Nat /\ m \in Nat
    BY <1>1
  <2>3. PartSize(n, s, l) \in {n \div s, n \div s + 1} /\ PartSize(n, s, m) \in {n \div s, n \div s + 1}
    BY <1>1, <2>2, PartSteps
  <2> QED
    BY <2>1, <2>3
<1>13. \A f, g \in {x[1] : x \in E} : Cardinality({x \in E : x[1] = f}) <= Cardinality({x \in E : x[1] = g}) + 1
  <2> SUFFICES ASSUME NEW f \in {x[1] : x \in E}, NEW g \in {x[1] : x \in E}
               PROVE  Cardinality({x \in E : x[1] = f}) <= Cardinality({x \in E : x[1] = g}) + 1
    OBVIOUS
  <2>1. PICK l \in 0..(used - 1) : f = F(l)
    BY <1>9
  <2>2. PICK m \in 0..(used - 1) : g = F(m)
    BY <1>9
  <2> QED
    BY <1>11, <1>12, <2>1, <2>2
<1> QED
  BY <1>8, <1>10, <1>13 DEF Split, n, E, used, s, Parts

LEMMA PlacedNext ==
  ASSUME NEW kind, NEW v, NEW n, NEW segments, NEW D, NEW k \in Nat
  PROVE  Placed(kind, v, n, segments, D, k + 1)
           = Placed(kind, v, n, segments, D, k)
               \cup {<<FileOf(kind, v, segments, PartOf(n, Parts(segments), k)), D[k]>>}
<1>1. 0..((k + 1) - 1) = 0..(k - 1) \cup {k}
  OBVIOUS
<1> QED
  BY <1>1 DEF Placed

LEMMA PlacedNone ==
  ASSUME NEW kind, NEW v, NEW n, NEW segments, NEW D
  PROVE  Placed(kind, v, n, segments, D, 0) = {}
BY DEF Placed

(* A part that starts before the last row has a row. *)
LEMMA PartNotEmpty ==
  ASSUME NEW n \in Nat, NEW s \in Nat \ {0}, NEW m \in Nat, PartStart(n, s, m) < n
  PROVE  PartSize(n, s, m) >= 1
<1> DEFINE p == n \div s
           q == n % s
<1>1. p \in Nat /\ q \in Nat /\ n = p * s + q
  <2>1. p \in Nat /\ q \in 0..(s - 1) /\ n = p * s + q
    BY DivMod, Zenon
  <2> HIDE DEF p, q
  <2> QED
    BY <2>1
<1>2. PartStart(n, s, m) = m * p + (IF m < q THEN m ELSE q) /\ PartSize(n, s, m) = p + (IF m < q THEN 1 ELSE 0)
  BY DEF PartStart, PartSize
<1> HIDE DEF p, q
<1>3. CASE p >= 1
  BY <1>1, <1>2, <1>3
<1>4. CASE p = 0
  <2>1. n = q /\ PartStart(n, s, m) = (IF m < q THEN m ELSE q)
    BY <1>1, <1>2, <1>4
  <2>2. m < q
    BY <1>1, <2>1
  <2> QED
    BY <1>1, <1>2, <2>2
<1> QED
  BY <1>1, <1>3, <1>4

(* The part of row k, when part m is in work: the next one exactly when    *)
(* part m is complete; and then no row before is in it.                    *)
LEMMA PartInWork ==
  ASSUME NEW n \in Nat, NEW s \in Nat \ {0}, NEW m \in 0..(s - 1), NEW r \in Nat, NEW k \in Nat,
         k = PartStart(n, s, m) + r, r <= PartSize(n, s, m), k < n
  PROVE  /\ r < PartSize(n, s, m) => PartOf(n, s, k) = m
         /\ r >= PartSize(n, s, m) =>
              /\ m + 1 \in 0..(s - 1) /\ PartOf(n, s, k) = m + 1 /\ PartSize(n, s, m + 1) >= 1
              /\ k = PartStart(n, s, m + 1)
              /\ \A j \in 0..(k - 1) : PartOf(n, s, j) # m + 1
<1>1. m \in Nat /\ m + 1 \in Nat
  OBVIOUS
<1>2. /\ PartStart(n, s, m) \in Nat /\ PartSize(n, s, m) \in Nat
      /\ PartStart(n, s, m + 1) = PartStart(n, s, m) + PartSize(n, s, m)
  BY <1>1, PartSteps
<1>3. /\ PartStart(n, s, m + 1) \in Nat /\ PartSize(n, s, m + 1) \in Nat
      /\ PartStart(n, s, (m + 1) + 1) = PartStart(n, s, m + 1) + PartSize(n, s, m + 1)
  BY <1>1, PartSteps
<1>4. ASSUME r < PartSize(n, s, m)
      PROVE  PartOf(n, s, k) = m
  <2>1. InPart(n, s, m, k)
    BY <1>2, <1>4 DEF InPart
  <2> QED
    BY <2>1, PartIs
<1>5. ASSUME r >= PartSize(n, s, m)
      PROVE  /\ m + 1 \in 0..(s - 1) /\ PartOf(n, s, k) = m + 1 /\ PartSize(n, s, m + 1) >= 1
             /\ k = PartStart(n, s, m + 1)
             /\ \A j \in 0..(k - 1) : PartOf(n, s, j) # m + 1
  <2>1. k = PartStart(n, s, m + 1)
    BY <1>2, <1>5
  <2>2. m + 1 \in 0..(s - 1)
    <3>1. m + 1 # s
      BY <2>1, PartEnds
    <3> QED
      BY <3>1
  <2>3. PartSize(n, s, m + 1) >= 1
    BY <1>1, <2>1, PartNotEmpty
  <2>4. InPart(n, s, m + 1, k)
    BY <1>3, <2>1, <2>3 DEF InPart
  <2>5. PartOf(n, s, k) = m + 1
    BY <2>2, <2>4, PartIs
  <2>6. ASSUME NEW j \in 0..(k - 1)
        PROVE  PartOf(n, s, j) # m + 1
    <3>1. InPart(n, s, PartOf(n, s, j), j)
      BY PartOfRow
    <3>2. ~InPart(n, s, m + 1, j)
      BY <2>1 DEF InPart
    <3> QED
      BY <3>1, <3>2
  <2> QED
    BY <2>1, <2>2, <2>3, <2>5, <2>6
<1> QED
  BY <1>4, <1>5

-----------------------------------------------------------------------------
(* The keys of a pair. *)

(* The entries of pair v in the files of inserts: keys and rows. *)
NewKeys(c, v) == [j \in 0..(rowcnt(c) - 1) |-> <<insert_key(c, minrow(c, v) + j, v), minrow(c, v) + j>>]

(* The j-th key to delete, and the entries when keys are written singly. *)
OldKey(c, v, j) == delete_key(c, minrow(c, v) + j, v)
OldKeys(c, v) == [j \in 0..(rowcnt(c) - 1) |-> <<OldKey(c, v, j), OldKey(c, v, j)>>]

LEMMA PairTyped ==
  ASSUME NEW c \in Commands, NEW v \in Nat \ {0}
  PROVE  /\ rowcnt(c) \in Nat /\ minrow(c, v) \in Nat \ {0} /\ minrow(c, v) = (v - 1) * rowcnt(c) + 1
         /\ \A j \in Nat : OldKey(c, v, j) \in Int
<1>1. v - 1 \in Nat /\ (v - 1) + 1 = v
  OBVIOUS
<1>2. minrow(c, v) \in Nat \ {0} /\ minrow(c, v) = (v - 1) * rowcnt(c) + 1 /\ rowcnt(c) \in Nat
  BY <1>1, PairStarts, CountsTyped
<1>3. ASSUME NEW j \in Nat
      PROVE  OldKey(c, v, j) \in Int
  <2>1. minrow(c, v) + j \in Nat
    BY <1>2
  <2> QED
    BY <1>1, <2>1, DeleteKeyTyped DEF OldKey
<1> QED
  BY <1>2, <1>3

LEMMA NewKeysDiffer ==
  ASSUME NEW c \in Commands, NEW v \in Nat \ {0}
  PROVE  \A j, k \in 0..(rowcnt(c) - 1) : NewKeys(c, v)[j] = NewKeys(c, v)[k] => j = k
<1>1. rowcnt(c) \in Nat /\ minrow(c, v) \in Nat
  BY PairTyped
<1> SUFFICES ASSUME NEW j \in 0..(rowcnt(c) - 1), NEW k \in 0..(rowcnt(c) - 1), NewKeys(c, v)[j] = NewKeys(c, v)[k]
             PROVE  j = k
  OBVIOUS
<1>2. minrow(c, v) + j = minrow(c, v) + k
  BY DEF NewKeys
<1> QED
  BY <1>1, <1>2

(* A later row of the pair has a larger key to delete. *)
LEMMA OldKeysGrow ==
  ASSUME NEW c \in Commands, NEW v \in Nat \ {0}, NEW j \in Nat, NEW k \in Nat, j < k
  PROVE  OldKey(c, v, j) < OldKey(c, v, k)
<1> DEFINE g == ((v - 1) \div cycle(c)) % 4
           a == minrow(c, v) + j
           b == minrow(c, v) + k
<1>1. (v - 1) \div cycle(c) \in Nat
  BY CountsTyped, DivMod
<1>2. g \in Nat
  BY <1>1
<1>3. a \in Nat /\ b \in Nat /\ a < b
  BY PairTyped
<1>4. OldKey(c, v, j) = ez_sparse(a, g) /\ OldKey(c, v, k) = ez_sparse(b, g)
  BY DEF OldKey, delete_key, MK_SPARSE, ez_sparse
<1> HIDE DEF g, a, b
<1>5. g <= g
  BY <1>2
<1> QED
  BY <1>2, <1>3, <1>4, <1>5, SparseMonotone

LEMMA OldKeysDiffer ==
  ASSUME NEW c \in Commands, NEW v \in Nat \ {0}
  PROVE  \A j, k \in 0..(rowcnt(c) - 1) : OldKeys(c, v)[j] = OldKeys(c, v)[k] => j = k
<1>1. rowcnt(c) \in Nat
  BY PairTyped
<1> SUFFICES ASSUME NEW j \in 0..(rowcnt(c) - 1), NEW k \in 0..(rowcnt(c) - 1), OldKeys(c, v)[j] = OldKeys(c, v)[k]
             PROVE  j = k
  OBVIOUS
<1>2. OldKey(c, v, j) = OldKey(c, v, k) /\ j \in Nat /\ k \in Nat
  BY <1>1 DEF OldKeys
<1>3. OldKey(c, v, j) \in Int /\ OldKey(c, v, k) \in Int
  BY <1>2, PairTyped
<1> QED
  BY <1>2, <1>3, OldKeysGrow

(* In the first cycle the keys to delete are those of the table. *)
LEMMA OldKeysLoaded ==
  ASSUME NEW c \in Commands, NEW v \in Nat \ {0}, v <= cycle(c), NEW j \in Nat,
         c.scale < MAX_32B_SCALE
  PROVE  OldKey(c, v, j) = insert_key(c, minrow(c, v) + j, 0)
<1>1. (v - 1) \div cycle(c) = 0
  <2>1. v - 1 \in Nat /\ cycle(c) \in Nat /\ v - 1 < cycle(c)
    BY CountsTyped
  <2> QED
    BY <2>1, SmallDivisor
<1>2. OldKey(c, v, j) = MK_SPARSE(minrow(c, v) + j, 0)
  BY <1>1 DEF OldKey, delete_key
<1>3. insert_key(c, minrow(c, v) + j, 0) = ez_sparse(minrow(c, v) + j, 0)
  BY DEF insert_key, mk_sparse
<1>4. 0 % 4 = 0
  OBVIOUS
<1> QED
  BY <1>2, <1>3, <1>4 DEF MK_SPARSE, ez_sparse

(* The rows of the pairs of the first cycle are rows of the table. *)
LEMMA FirstCycle ==
  ASSUME NEW c \in Commands, NEW v \in Nat \ {0}, v <= cycle(c)
  PROVE  v * rowcnt(c) <= loaded(c)
<1> DEFINE N == LineBase * c.scale
           r == c.refresh
           P == FULL \div r
           R == (N * r) \div FULL
<1>1. loaded(c) = N /\ rowcnt(c) = R /\ cycle(c) = P
  BY DEF loaded, rowcnt, cycle
<1>2. N \in Nat /\ R \in Nat /\ P \in Nat /\ r \in Nat \ {0} /\ FULL \in Nat \ {0}
  BY <1>1, CountsTyped, CommandTyped
<1>3. P * r <= FULL
  <2>1. FULL = P * r + (FULL % r) /\ FULL % r \in 0..(r - 1)
    <3> HIDE DEF r
    <3> QED
      BY <1>2, DivMod
  <2> DEFINE q == FULL % r
  <2>2. FULL = P * r + q /\ q \in 0..(r - 1)
    BY <2>1
  <2> HIDE DEF q, r, P
  <2> QED
    BY <1>2, <2>2
<1>4. R * FULL <= N * r
  <2> DEFINE A == N * r
  <2>1. A \in Nat
    BY <1>2
  <2> HIDE DEF A
  <2>2. A = (A \div FULL) * FULL + (A % FULL) /\ A % FULL \in 0..(FULL - 1) /\ A \div FULL \in Nat
    BY <1>2, <2>1, DivMod
  <2> DEFINE a == A \div FULL
             b == A % FULL
  <2>3. A = a * FULL + b /\ b \in 0..(FULL - 1) /\ a \in Nat
    BY <2>2
  <2> HIDE DEF a, b
  <2>4. a * FULL <= A
    BY <1>2, <2>3
  <2> QED
    BY <2>4 DEF a, A
<1> HIDE DEF N, P, R, r
<1>5. v * R <= P * R
  <2>1. R * v <= R * P
    BY <1>1, <1>2, TimesMonotone
  <2> QED
    BY <1>2, <2>1
<1>6. P * R <= N
  <2>1. (P * R) * r <= N * r
    <3>1. (P * r) * R <= FULL * R
      <4>1. P * r \in Nat
        BY <1>2
      <4>2. R * (P * r) <= R * FULL
        BY <1>2, <1>3, <4>1, TimesMonotone
      <4> QED
        BY <1>2, <4>1, <4>2
    <3>2. (P * r) * R = (P * R) * r /\ FULL * R = R * FULL
      BY <1>2
    <3> QED
      BY <1>2, <1>4, <3>1, <3>2
  <2>2. SUFFICES ASSUME N < P * R
                 PROVE  FALSE
    BY <1>2
  <2>3. P * R \in Nat /\ N + 1 <= P * R
    BY <1>2, <2>2
  <2>4. r * (N + 1) <= r * (P * R)
    BY <1>2, <2>3, TimesMonotone
  <2>5. r * (N + 1) = N * r + r /\ r * (P * R) = (P * R) * r
    BY <1>2
  <2> QED
    BY <1>2, <2>1, <2>4, <2>5
<1> QED
  BY <1>1, <1>2, <1>5, <1>6

-----------------------------------------------------------------------------
(* What the files of the pairs hold. *)

Singly == ~cmd.gen_rng /\ ~cmd.gen_sql
Ranges == cmd.gen_rng /\ ~cmd.gen_sql

InsertsAre(v, k) ==
  InsertsOf(v) = Placed("lineorder", v, rowcnt(cmd), cmd.insert_segments, NewKeys(cmd, v), k)
DeletesAre(v, k) ==
  DeletesOf(v) = Placed("delete", v, rowcnt(cmd), cmd.delete_segments, OldKeys(cmd, v), k)

(* The keys that the ranges of a pair name, and those of its first k rows. *)
Covered(v) == UNION {x[2][1]..x[2][2] : x \in DeletesOf(v)}
OldSet(c, v, k) == {OldKey(c, v, j) : j \in 0..(k - 1)}

PairDone(v) ==
  /\ InsertsAre(v, rowcnt(cmd))
  /\ Singly => DeletesAre(v, rowcnt(cmd))
  /\ Ranges => Covered(v) = OldSet(cmd, v, rowcnt(cmd))
Done == \A v \in Finished : PairDone(v)

(* No file of a pair from v on. *)
Ahead(v) == \A x \in disk : x[1][2] < v

(* Pair u, with k rows inserted: what they are, and where the segment in   *)
(* work stands in the division of the rows.                                *)
InsertAt(u, k) ==
  /\ k \in 0..rowcnt(cmd) /\ left = rowcnt(cmd) - k /\ i = minrow(cmd, u) + k
  /\ InsertsAre(u, k) /\ DeletesOf(u) = {} /\ Ahead(u + 1)
  /\ mode % PAIRS = u /\ drange.last_num < u /\ delete_segment = 0
  /\ k = 0 => line.last_mode % PAIRS < u /\ mode = u /\ rows_this_segment = -1 /\ segment = 0
  /\ k > 0 => line.last_mode = mode /\ line.file = <<"lineorder", u, segment>>
  /\ cmd.insert_segments = 0 => mode = u /\ segment = 0
  /\ (k > 0 /\ cmd.insert_segments > 0) =>
       /\ segment \in 1..cmd.insert_segments /\ mode \div PAIRS = segment - 1
       /\ k = PartStart(rowcnt(cmd), cmd.insert_segments, segment - 1) + rows_this_segment + 1
       /\ rows_this_segment \in Nat
       /\ rows_this_segment < PartSize(rowcnt(cmd), cmd.insert_segments, segment - 1)

(* Pair u, with k rows deleted. *)
DeleteAt(u, k) ==
  /\ k \in 0..rowcnt(cmd) /\ left = rowcnt(cmd) - k /\ i = minrow(cmd, u) + k
  /\ InsertsAre(u, rowcnt(cmd)) /\ Ahead(u + 1)
  /\ drange.last_num = u /\ line.last_mode % PAIRS <= u
  /\ drange.file = <<"delete", u, delete_segment>>
  /\ Singly => DeletesAre(u, k)
  /\ Ranges => /\ range.start <= range.last + 1
               /\ Covered(u) \cup (range.start..range.last) = OldSet(cmd, u, k)
  /\ cmd.delete_segments = 0 => delete_segment = 0
  /\ (Singly /\ cmd.delete_segments > 0) =>
       /\ delete_segment \in 1..cmd.delete_segments
       /\ k = PartStart(rowcnt(cmd), cmd.delete_segments, delete_segment - 1) + drange.rows_this_segment
       /\ drange.rows_this_segment <= PartSize(rowcnt(cmd), cmd.delete_segments, delete_segment - 1)
       /\ k > 0 => drange.rows_per_segment > 0

(* The statics of pr_drange that are computed once. *)
Statics ==
  drange.rows_per_segment > 0 =>
    /\ cmd.delete_segments > 0
    /\ drange.rows_per_segment = rowcnt(cmd) \div cmd.delete_segments + 1
    /\ drange.residual_rows = rowcnt(cmd) % cmd.delete_segments

SegInv ==
  /\ Done /\ Statics
  /\ pc \in {"idle", "start"} => upd_num = 0 /\ disk = {} /\ line.last_mode = 0 /\ drange.last_num = 0
  /\ pc = "pairs" => Ahead(upd_num + 1) /\ line.last_mode % PAIRS <= upd_num /\ drange.last_num <= upd_num
  /\ pc = "inserts" => \E u \in Nat \ {0} : \E k \in Nat : upd_num + 1 = u /\ InsertAt(u, k)
  /\ pc = "deletes" => \E u \in Nat \ {0} : \E k \in Nat : upd_num + 1 = u /\ DeleteAt(u, k)

LEMMA FinishedTyped ==
  ASSUME cmd \in Commands, upd_num \in Nat
  PROVE  \A v \in Finished : v \in Nat \ {0} /\ v <= upd_num
<1>1. First \in Nat \ {0}
  BY CommandTyped DEF First
<1> QED
  BY <1>1 DEF Finished

LEMMA SegStart == (UIdle \/ UInit) /\ UTypeOK => SegInv
<1> SUFFICES ASSUME UIdle \/ UInit, UTypeOK
             PROVE  SegInv
  OBVIOUS
<1>1. Untouched /\ pc \in {"idle", "start"}
  BY DEF UIdle, UInit
<1>2. cmd \in Commands /\ upd_num = 0
  BY <1>1 DEF UTypeOK, Untouched
<1>3. Finished = {}
  <2>1. \A v \in Finished : v \in Nat \ {0} /\ v <= 0
    BY <1>2, FinishedTyped
  <2> QED
    BY <2>1
<1>4. Done
  BY <1>3 DEF Done
<1>5. drange.rows_per_segment = 0 /\ disk = {} /\ line.last_mode = 0 /\ drange.last_num = 0
  BY <1>1 DEF Untouched
<1>6. Statics
  BY <1>5 DEF Statics
<1> QED
  BY <1>1, <1>2, <1>4, <1>5, <1>6 DEF SegInv

-----------------------------------------------------------------------------
(* What a step does to the files. *)

(* An entry of pair u is added: the other pairs keep their files. *)
LEMMA EntryAdded ==
  ASSUME NEW u, NEW kind, kind \in {"lineorder", "delete"}, NEW seg, NEW e,
         disk' = disk \cup {<< <<kind, u, seg>>, e>>}
  PROVE  /\ \A v : v # u => InsertsOf(v)' = InsertsOf(v) /\ DeletesOf(v)' = DeletesOf(v)
         /\ kind = "lineorder" => /\ InsertsOf(u)' = InsertsOf(u) \cup {<< <<kind, u, seg>>, e>>}
                                  /\ DeletesOf(u)' = DeletesOf(u)
         /\ kind = "delete" => /\ DeletesOf(u)' = DeletesOf(u) \cup {<< <<kind, u, seg>>, e>>}
                               /\ InsertsOf(u)' = InsertsOf(u)
<1> DEFINE n == << <<kind, u, seg>>, e>>
<1>1. n[1][1] = kind /\ n[1][2] = u
  OBVIOUS
<1>2. disk' = disk \cup {n}
  OBVIOUS
<1> HIDE DEF n
<1>3. \A v : /\ InsertsOf(v) = {x \in disk : x[1][1] = "lineorder" /\ x[1][2] = v}
             /\ DeletesOf(v) = {x \in disk : x[1][1] = "delete" /\ x[1][2] = v}
             /\ InsertsOf(v)' = {x \in disk' : x[1][1] = "lineorder" /\ x[1][2] = v}
             /\ DeletesOf(v)' = {x \in disk' : x[1][1] = "delete" /\ x[1][2] = v}
  BY DEF InsertsOf, DeletesOf, Inserted, Deleted
<1>4. ASSUME NEW v, v # u
      PROVE  InsertsOf(v)' = InsertsOf(v) /\ DeletesOf(v)' = DeletesOf(v)
  BY <1>1, <1>2, <1>3, <1>4
<1>5. ASSUME kind = "lineorder"
      PROVE  InsertsOf(u)' = InsertsOf(u) \cup {n} /\ DeletesOf(u)' = DeletesOf(u)
  BY <1>1, <1>2, <1>3, <1>5
<1>6. ASSUME kind = "delete"
      PROVE  DeletesOf(u)' = DeletesOf(u) \cup {n} /\ InsertsOf(u)' = InsertsOf(u)
  BY <1>1, <1>2, <1>3, <1>6
<1> QED
  BY <1>4, <1>5, <1>6 DEF n

LEMMA InsertAdded ==
  ASSUME NEW u, NEW seg, NEW e, disk' = disk \cup {<< <<"lineorder", u, seg>>, e>>}
  PROVE  /\ \A v : v # u => InsertsOf(v)' = InsertsOf(v) /\ DeletesOf(v)' = DeletesOf(v)
         /\ InsertsOf(u)' = InsertsOf(u) \cup {<< <<"lineorder", u, seg>>, e>>}
         /\ DeletesOf(u)' = DeletesOf(u)
<1> DEFINE kind == "lineorder"
<1>1. kind \in {"lineorder", "delete"} /\ kind = "lineorder"
  OBVIOUS
<1>2. disk' = disk \cup {<< <<kind, u, seg>>, e>>}
  OBVIOUS
<1> HIDE DEF kind
<1> QED
  BY <1>1, <1>2, EntryAdded

LEMMA DeleteAdded ==
  ASSUME NEW u, NEW seg, NEW e, disk' = disk \cup {<< <<"delete", u, seg>>, e>>}
  PROVE  /\ \A v : v # u => InsertsOf(v)' = InsertsOf(v) /\ DeletesOf(v)' = DeletesOf(v)
         /\ DeletesOf(u)' = DeletesOf(u) \cup {<< <<"delete", u, seg>>, e>>}
         /\ InsertsOf(u)' = InsertsOf(u)
<1> DEFINE kind == "delete"
<1>1. kind \in {"lineorder", "delete"} /\ kind = "delete"
  OBVIOUS
<1>2. disk' = disk \cup {<< <<kind, u, seg>>, e>>}
  OBVIOUS
<1> HIDE DEF kind
<1> QED
  BY <1>1, <1>2, EntryAdded

(* Pairs whose files a step leaves alone stay as they are. *)
LEMMA PairKept ==
  ASSUME NEW v, cmd' = cmd, InsertsOf(v)' = InsertsOf(v), DeletesOf(v)' = DeletesOf(v)
  PROVE  /\ PairDone(v) => PairDone(v)'
         /\ Covered(v)' = Covered(v)
         /\ \A k : InsertsAre(v, k) => InsertsAre(v, k)'
         /\ \A k : DeletesAre(v, k) => DeletesAre(v, k)'
<1>1. Covered(v)' = Covered(v)
  BY DEF Covered
<1>2. \A k : (InsertsAre(v, k) => InsertsAre(v, k)') /\ (DeletesAre(v, k) => DeletesAre(v, k)')
  BY DEF InsertsAre, DeletesAre
<1>3. PairDone(v) => PairDone(v)'
  BY <1>1, <1>2 DEF PairDone, Singly, Ranges
<1> QED
  BY <1>1, <1>2, <1>3

(* The same when no file changes. *)
LEMMA FilesSame ==
  ASSUME UNCHANGED <<cmd, disk>>
  PROVE  /\ \A v : InsertsOf(v)' = InsertsOf(v) /\ DeletesOf(v)' = DeletesOf(v)
         /\ \A v : Ahead(v) => Ahead(v)'
BY DEF InsertsOf, DeletesOf, Inserted, Deleted, Ahead

LEMMA AheadKept ==
  ASSUME NEW u \in Nat, NEW kind, NEW seg, NEW e, disk' = disk \cup {<< <<kind, u, seg>>, e>>}, Ahead(u + 1)
  PROVE  Ahead(u + 1)'
<1> DEFINE n == << <<kind, u, seg>>, e>>
<1>1. n[1][2] < u + 1 /\ disk' = disk \cup {n}
  OBVIOUS
<1> HIDE DEF n
<1> QED
  BY <1>1 DEF Ahead

(* While a pair is in work, the pairs before it stay complete. *)
LEMMA DoneKept ==
  ASSUME UTypeOK, Done, UNCHANGED <<cmd, upd_num>>, NEW u, u = upd_num + 1,
         \A v : v # u => InsertsOf(v)' = InsertsOf(v) /\ DeletesOf(v)' = DeletesOf(v)
  PROVE  Done'
<1>1. Finished' = Finished
  BY DEF Finished, First
<1>2. \A v \in Finished : v # u
  <2>1. cmd \in Commands /\ upd_num \in Nat
    BY DEF UTypeOK
  <2> QED
    BY <2>1, FinishedTyped
<1>3. ASSUME NEW v \in Finished
      PROVE  PairDone(v)'
  BY <1>2, PairKept DEF Done
<1> QED
  BY <1>1, <1>3 DEF Done

-----------------------------------------------------------------------------
(* Every step keeps the invariant. *)

LEMMA SmallPair ==
  ASSUME NEW c \in Commands, NEW u \in Nat, u <= c.updates
  PROVE  u % PAIRS = u /\ u \div PAIRS = 0
<1>1. c.updates \in Nat /\ c.updates < PAIRS /\ PAIRS \in Nat
  BY CommandTyped
<1> QED
  BY <1>1, SmallDivisor

LEMMA NothingBetween ==
  ASSUME NEW a \in Nat
  PROVE  (a + 1)..a = {}
OBVIOUS

LEMMA SegStartUpdates ==
  ASSUME UInv, SegInv, StartUpdates
  PROVE  SegInv'
<1>1. cmd \in Commands /\ upd_num = 0 /\ disk = {} /\ line.last_mode = 0 /\ drange.last_num = 0 /\ Statics
  BY DEF UInv, UTypeOK, SegInv, StartUpdates
<1>2. /\ UNCHANGED <<cmd, disk, line, drange>> /\ pc' = "pairs"
      /\ upd_num' = IF cmd.step > 0 THEN cmd.step - 1 ELSE 0
  BY DEF StartUpdates, ufiles
<1>3. cmd.step \in Nat \cup {-1} /\ PAIRS \in Nat \ {0}
  BY <1>1, CommandTyped
<1>4. upd_num' \in Nat /\ First' = upd_num' + 1
  BY <1>2, <1>3 DEF First
<1>5. Finished' = {}
  <2>1. Finished' = First'..upd_num'
    BY DEF Finished
  <2>2. (upd_num' + 1)..upd_num' = {}
    BY <1>4, NothingBetween
  <2> QED
    BY <1>4, <2>1, <2>2
<1>6. Done'
  BY <1>5 DEF Done
<1>7. Statics'
  BY <1>1, <1>2 DEF Statics
<1>8. Ahead(upd_num + 1)'
  BY <1>1, <1>2 DEF Ahead
<1>9. line'.last_mode % PAIRS <= upd_num' /\ drange'.last_num <= upd_num'
  <2>1. 0 % PAIRS = 0
    BY <1>3
  <2> QED
    BY <1>1, <1>2, <1>4, <2>1
<1> QED
  BY <1>2, <1>6, <1>7, <1>8, <1>9 DEF SegInv

LEMMA SegBeginPair ==
  ASSUME UInv, SegInv, BeginPair
  PROVE  SegInv'
<1> SUFFICES ASSUME NEW u, u = upd_num + 1
             PROVE  SegInv'
  OBVIOUS
<1>1. UTypeOK /\ cmd \in Commands /\ upd_num \in Nat /\ line.last_mode \in Nat /\ drange.last_num \in Nat
  BY DEF UInv, UTypeOK
<1>2. /\ Done /\ Statics /\ Ahead(upd_num + 1) /\ line.last_mode % PAIRS <= upd_num
      /\ drange.last_num <= upd_num
  BY DEF SegInv, BeginPair
<1>3. /\ UNCHANGED <<cmd, upd_num, line, drange, disk>> /\ pc' = "inserts" /\ upd_num < cmd.updates
      /\ segment' = 0 /\ delete_segment' = 0 /\ i' = minrow(cmd, upd_num + 1) /\ left' = rowcnt(cmd)
      /\ mode' = upd_num + 1 /\ rows_this_segment' = -1
  BY DEF BeginPair
<1>4. u \in Nat \ {0} /\ PAIRS \in Nat \ {0} /\ u <= cmd.updates /\ cmd.updates \in Nat
  BY <1>1, <1>3, CommandTyped
<1>5. u % PAIRS = u
  BY <1>1, <1>4, SmallPair
<1>6. rowcnt(cmd) \in Nat /\ minrow(cmd, u) \in Nat
  BY <1>1, <1>4, PairTyped
<1>7. Done'
  BY <1>1, <1>2, <1>3, FilesSame, DoneKept
<1>8. Statics'
  BY <1>2, <1>3 DEF Statics
<1>9. InsertAt(u, 0)'
  <2>1. InsertsOf(u) = {} /\ DeletesOf(u) = {}
    BY <1>1, <1>2 DEF InsertsOf, DeletesOf, Inserted, Deleted, Ahead
  <2>2. InsertsOf(u)' = {} /\ DeletesOf(u)' = {}
    BY <1>3, <2>1, FilesSame
  <2>3. InsertsAre(u, 0)'
    BY <2>2, PlacedNone DEF InsertsAre
  <2>4. Ahead(u + 1)'
    <3>1. \A x \in disk : x[1][2] \in Nat /\ x[1][2] < u
      BY <1>1, <1>2 DEF UTypeOK, Ahead
    <3> QED
      BY <1>3, <1>4, <3>1 DEF Ahead
  <2>5. line.last_mode % PAIRS < u /\ drange.last_num < u
    <3>1. line.last_mode % PAIRS \in Nat
      BY <1>1, <1>4
    <3> QED
      BY <1>1, <1>2, <3>1
  <2>6. 0 \in 0..rowcnt(cmd) /\ left' = rowcnt(cmd) - 0 /\ i' = minrow(cmd, u) + 0
    BY <1>3, <1>6
  <2>7. mode' % PAIRS = u /\ mode' = u
    BY <1>3, <1>5
  <2> QED
    BY <1>3, <2>2, <2>3, <2>4, <2>5, <2>6, <2>7 DEF InsertAt
<1>10. 0 \in Nat /\ upd_num' + 1 = u
  BY <1>3
<1>11. (\E w \in Nat \ {0} : \E k \in Nat : upd_num + 1 = w /\ InsertAt(w, k))'
  BY <1>4, <1>9, <1>10
<1> QED
  BY <1>3, <1>7, <1>8, <1>11 DEF SegInv

LEMMA SegExit ==
  ASSUME UInv, SegInv, Exit
  PROVE  SegInv'
<1> SUFFICES ASSUME NEW u, u = upd_num + 1
             PROVE  SegInv'
  OBVIOUS
<1>1. UTypeOK /\ Done /\ Statics
  BY DEF UInv, SegInv
<1>2. UNCHANGED <<cmd, upd_num, disk, drange>> /\ pc' = "done"
  BY DEF Exit, ufiles
<1>3. Done'
  BY <1>1, <1>2, FilesSame, DoneKept
<1>4. Statics'
  BY <1>1, <1>2 DEF Statics
<1> QED
  BY <1>2, <1>3, <1>4 DEF SegInv

LEMMA SegStutter ==
  ASSUME UInv, SegInv, UNCHANGED uvars
  PROVE  SegInv'
<1> SUFFICES ASSUME NEW n, n = upd_num + 1
             PROVE  SegInv'
  OBVIOUS
<1>1. UTypeOK /\ Done /\ Statics
  BY DEF UInv, SegInv
<1>2. UNCHANGED <<cmd, pc, upd_num, i, left, mode, rows_this_segment, line, segment, drange, delete_segment, range, disk>>
  BY DEF uvars, ucontrol, ufiles
<1>3. Done'
  BY <1>1, <1>2, FilesSame, DoneKept
<1>4. Statics'
  BY <1>1, <1>2 DEF Statics
<1>5. \A u, k : (InsertAt(u, k) => InsertAt(u, k)') /\ (DeleteAt(u, k) => DeleteAt(u, k)')
  <2> SUFFICES ASSUME NEW u, NEW k
               PROVE  (InsertAt(u, k) => InsertAt(u, k)') /\ (DeleteAt(u, k) => DeleteAt(u, k)')
    OBVIOUS
  <2>1. InsertsOf(u)' = InsertsOf(u) /\ DeletesOf(u)' = DeletesOf(u) /\ (Ahead(u + 1) => Ahead(u + 1)')
    BY <1>2, FilesSame
  <2>2. /\ Covered(u)' = Covered(u)
        /\ \A l : (InsertsAre(u, l) => InsertsAre(u, l)') /\ (DeletesAre(u, l) => DeletesAre(u, l)')
    BY <1>2, <2>1, PairKept
  <2>3. InsertAt(u, k) => InsertAt(u, k)'
    BY <1>2, <2>1, <2>2 DEF InsertAt
  <2>4. rowcnt(cmd)' = rowcnt(cmd)
    BY <1>2
  <2>5. InsertsAre(u, rowcnt(cmd)) => InsertsAre(u, rowcnt(cmd))'
    BY <1>2, <2>1 DEF InsertsAre
  <2>6. DeleteAt(u, k) => DeleteAt(u, k)'
    BY <1>2, <2>1, <2>2, <2>5 DEF DeleteAt, Singly, Ranges
  <2> QED
    BY <2>3, <2>6
<1>6. Ahead(upd_num + 1) => Ahead(upd_num + 1)'
  BY <1>2 DEF Ahead
<1>7. pc' = "pairs" => Ahead(upd_num + 1)' /\ line'.last_mode % PAIRS <= upd_num' /\ drange'.last_num <= upd_num'
  BY <1>2, <1>6 DEF SegInv
<1>8. pc' \in {"idle", "start"} => upd_num' = 0 /\ disk' = {} /\ line'.last_mode = 0 /\ drange'.last_num = 0
  BY <1>2 DEF SegInv
<1>9. pc' = "inserts" => \E u \in Nat \ {0} : \E k \in Nat : upd_num' + 1 = u /\ InsertAt(u, k)'
  BY <1>2, <1>5 DEF SegInv
<1>10. pc' = "deletes" => \E u \in Nat \ {0} : \E k \in Nat : upd_num' + 1 = u /\ DeleteAt(u, k)'
  BY <1>2, <1>5 DEF SegInv
<1> QED
  BY <1>3, <1>4, <1>7, <1>8, <1>9, <1>10 DEF SegInv

LEMMA OldSetNext ==
  ASSUME NEW c, NEW u, NEW k \in Nat
  PROVE  OldSet(c, u, 0) = {} /\ OldSet(c, u, k + 1) = OldSet(c, u, k) \cup {OldKey(c, u, k)}
<1>1. 0..((k + 1) - 1) = 0..(k - 1) \cup {k} /\ 0..(0 - 1) = {}
  OBVIOUS
<1> QED
  BY <1>1 DEF OldSet

(* A range that is written is covered from then on. *)
LEMMA RangeWritten ==
  ASSUME NEW u, NEW f, NEW a, NEW b, DeletesOf(u)' = DeletesOf(u) \cup {<<f, <<a, b>>>>}
  PROVE  Covered(u)' = Covered(u) \cup (a..b)
<1> DEFINE n == <<f, <<a, b>>>>
<1>1. n[2][1]..n[2][2] = a..b /\ DeletesOf(u)' = DeletesOf(u) \cup {n}
  OBVIOUS
<1> HIDE DEF n
<1>2. Covered(u)' = UNION {x[2][1]..x[2][2] : x \in DeletesOf(u)'}
  BY DEF Covered
<1>3. {x[2][1]..x[2][2] : x \in DeletesOf(u)'} = {x[2][1]..x[2][2] : x \in DeletesOf(u)} \cup {a..b}
  BY <1>1
<1> QED
  BY <1>2, <1>3 DEF Covered

LEMMA SegInsertsDone ==
  ASSUME UInv, SegInv, InsertsDone
  PROVE  SegInv'
<1>1. UTypeOK /\ Done /\ Statics /\ cmd \in Commands /\ drange.last_num \in Nat /\ upd_num \in Nat
  BY DEF UInv, UTypeOK, SegInv
<1>2. PICK u \in Nat \ {0} : \E k \in Nat : upd_num + 1 = u /\ InsertAt(u, k)
  BY DEF SegInv, InsertsDone
<1>3. PICK k \in Nat : upd_num + 1 = u /\ InsertAt(u, k)
  BY <1>2
<1>4. rowcnt(cmd) \in Nat /\ minrow(cmd, u) \in Nat /\ cmd.delete_segments \in Nat /\ PAIRS \in Nat \ {0}
  BY <1>1, PairTyped, CommandTyped
<1>5. k = rowcnt(cmd) /\ delete_segment = 0 /\ drange.last_num # u
  <2>1. k \in 0..rowcnt(cmd) /\ left = rowcnt(cmd) - k /\ left = 0 /\ delete_segment = 0 /\ drange.last_num < u
    BY <1>3 DEF InsertAt, InsertsDone
  <2> QED
    BY <1>1, <1>4, <2>1
<1> DEFINE seg == IF cmd.delete_segments > 0 THEN 1 ELSE 0
           key == delete_key(cmd, minrow(cmd, u), u)
<1>6. /\ delete_segment' = seg
      /\ drange' = [drange EXCEPT !.last_num = u, !.rows_this_segment = 0, !.file = delete_file(u, seg)]
      /\ disk' = Emptied(delete_file(u, seg))
      /\ range' = [start |-> key, last |-> key - 1]
      /\ i' = minrow(cmd, u) /\ left' = rowcnt(cmd)
      /\ UNCHANGED <<cmd, upd_num, line>> /\ pc' = "deletes"
  <2>1. NextSegment(cmd.delete_segments, delete_segment) = seg
    BY <1>4, <1>5 DEF NextSegment
  <2>2. upd_num + 1 = u /\ (drange.last_num # upd_num + 1) = TRUE
    BY <1>3, <1>5
  <2> HIDE DEF seg, key
  <2>3. key = delete_key(cmd, minrow(cmd, upd_num + 1), upd_num + 1)
    BY <2>2 DEF key
  <2> QED
    BY <2>1, <2>2, <2>3 DEF InsertsDone
<1>7. disk' = disk
  <2>1. DeletesOf(u) = {}
    BY <1>3 DEF InsertAt
  <2>2. \A x \in disk : x[1] # <<"delete", u, seg>>
    BY <2>1 DEF DeletesOf, Deleted
  <2> QED
    BY <1>6, <2>2 DEF Emptied, delete_file
<1>8. /\ drange'.last_num = u /\ drange'.rows_this_segment = 0 /\ drange'.file = <<"delete", u, delete_segment'>>
      /\ drange'.rows_per_segment = drange.rows_per_segment /\ drange'.residual_rows = drange.residual_rows
  BY <1>1, <1>6 DEF UTypeOK, delete_file
<1>9. /\ InsertsOf(u)' = InsertsOf(u) /\ DeletesOf(u)' = {} /\ Ahead(u + 1)'
  BY <1>3, <1>6, <1>7, FilesSame DEF InsertAt
<1>10. Done'
  BY <1>1, <1>3, <1>6, <1>7, FilesSame, DoneKept
<1>11. Statics'
  BY <1>1, <1>6, <1>8 DEF Statics
<1>12. InsertsAre(u, rowcnt(cmd))'
  <2>1. InsertsAre(u, rowcnt(cmd))
    BY <1>3, <1>5 DEF InsertAt
  <2> QED
    BY <1>6, <1>9, <2>1 DEF InsertsAre
<1>13. DeletesAre(u, 0)'
  BY <1>9, PlacedNone DEF DeletesAre
<1>14. range'.start <= range'.last + 1 /\ (Covered(u) \cup (range.start..range.last))' = OldSet(cmd, u, 0)'
  <2>1. minrow(cmd, u) + 0 = minrow(cmd, u) /\ OldKey(cmd, u, 0) \in Int
    BY <1>1, <1>4, PairTyped
  <2>2. key \in Int
    BY <2>1 DEF OldKey
  <2> HIDE DEF key
  <2>3. key <= key - 1 + 1 /\ key..(key - 1) = {}
    BY <2>2
  <2>4. Covered(u)' = {}
    BY <1>9 DEF Covered
  <2>5. range'.start = key /\ range'.last = key - 1
    BY <1>6
  <2>6. OldSet(cmd, u, 0)' = {}
    BY OldSetNext
  <2> QED
    BY <2>3, <2>4, <2>5, <2>6
<1>15. line.last_mode % PAIRS <= u
  <2>1. CASE k = 0
    <3>1. line.last_mode % PAIRS < u /\ line.last_mode \in Nat
      BY <1>1, <1>3, <2>1 DEF InsertAt, UTypeOK
    <3>2. line.last_mode % PAIRS \in Nat
      BY <1>4, <3>1
    <3> QED
      BY <3>1, <3>2
  <2>2. CASE k > 0
    BY <1>3, <2>2 DEF InsertAt
  <2> QED
    BY <2>1, <2>2
<1>16. cmd.delete_segments > 0 =>
         /\ delete_segment' \in 1..cmd.delete_segments
         /\ 0 = PartStart(rowcnt(cmd), cmd.delete_segments, delete_segment' - 1) + drange'.rows_this_segment
         /\ drange'.rows_this_segment <= PartSize(rowcnt(cmd), cmd.delete_segments, delete_segment' - 1)
  <2> SUFFICES ASSUME cmd.delete_segments > 0
               PROVE  /\ delete_segment' \in 1..cmd.delete_segments
                      /\ 0 = PartStart(rowcnt(cmd), cmd.delete_segments, delete_segment' - 1) + drange'.rows_this_segment
                      /\ drange'.rows_this_segment <= PartSize(rowcnt(cmd), cmd.delete_segments, delete_segment' - 1)
    OBVIOUS
  <2>1. delete_segment' = 1 /\ 1 - 1 = 0
    BY <1>6
  <2>2. PartStart(rowcnt(cmd), cmd.delete_segments, 0) = 0 /\ PartSize(rowcnt(cmd), cmd.delete_segments, 0) \in Nat
    <3>1. cmd.delete_segments \in Nat \ {0} /\ 0 \in Nat
      BY <1>4
    <3> QED
      BY <1>4, <3>1, PartEnds, PartSteps
  <2> QED
    BY <1>4, <1>8, <2>1, <2>2
<1>17. DeleteAt(u, 0)'
  <2>1. 0 \in 0..rowcnt(cmd) /\ left' = rowcnt(cmd) - 0 /\ i' = minrow(cmd, u) + 0
    BY <1>4, <1>6
  <2>2. cmd.delete_segments = 0 => delete_segment' = 0
    BY <1>6
  <2> HIDE DEF seg, key
  <2> QED
    BY <1>6, <1>8, <1>9, <1>12, <1>13, <1>14, <1>15, <1>16, <2>1, <2>2 DEF DeleteAt, Singly, Ranges
<1>18. (\E w \in Nat \ {0} : \E l \in Nat : upd_num + 1 = w /\ DeleteAt(w, l))'
  <2>1. 0 \in Nat /\ upd_num' + 1 = u
    BY <1>3, <1>6
  <2> QED
    BY <1>17, <2>1
<1> QED
  BY <1>6, <1>10, <1>11, <1>18 DEF SegInv

LEMMA SegExtendRange ==
  ASSUME UInv, SegInv, ExtendRange
  PROVE  SegInv'
<1>1. UTypeOK /\ Done /\ Statics /\ cmd \in Commands /\ range \in [start : Int, last : Int]
  BY DEF UInv, UTypeOK, SegInv
<1>2. PICK u \in Nat \ {0} : \E k \in Nat : upd_num + 1 = u /\ DeleteAt(u, k)
  BY DEF SegInv, ExtendRange
<1>3. PICK k \in Nat : upd_num + 1 = u /\ DeleteAt(u, k)
  BY <1>2
<1>4. rowcnt(cmd) \in Nat /\ minrow(cmd, u) \in Nat
  BY <1>1, PairTyped
<1>5. /\ UNCHANGED <<cmd, upd_num, line, drange, delete_segment, disk>> /\ pc' = "deletes"
      /\ cmd.gen_rng /\ left > 0 /\ i' = i + 1 /\ left' = left - 1
      /\ DeleteKey - range.last = 1 /\ range' = [range EXCEPT !.last = DeleteKey]
  BY DEF ExtendRange
<1>6. /\ k + 1 \in 0..rowcnt(cmd) /\ left' = rowcnt(cmd) - (k + 1) /\ i' = minrow(cmd, u) + (k + 1)
      /\ i = minrow(cmd, u) + k
  BY <1>3, <1>4, <1>5 DEF DeleteAt
<1>7. DeleteKey = OldKey(cmd, u, k) /\ DeleteKey \in Int
  <2>1. DeleteKey = OldKey(cmd, u, k)
    BY <1>3, <1>6 DEF DeleteKey, OldKey
  <2> QED
    BY <1>1, <2>1, PairTyped
<1>8. InsertsOf(u)' = InsertsOf(u) /\ DeletesOf(u)' = DeletesOf(u) /\ Ahead(u + 1)'
  BY <1>3, <1>5, FilesSame DEF DeleteAt
<1>9. Done' /\ Statics'
  <2>1. Done'
    BY <1>1, <1>3, <1>5, FilesSame, DoneKept
  <2> QED
    BY <1>1, <1>5, <2>1 DEF Statics
<1>10. InsertsAre(u, rowcnt(cmd))'
  BY <1>3, <1>5, <1>8 DEF InsertsAre, DeleteAt
<1>11. Ranges' => /\ range'.start <= range'.last + 1
                  /\ (Covered(u) \cup (range.start..range.last))' = OldSet(cmd, u, k + 1)'
  <2> SUFFICES ASSUME Ranges
               PROVE  /\ range'.start <= range'.last + 1
                      /\ (Covered(u) \cup (range.start..range.last))' = OldSet(cmd, u, k + 1)'
    BY <1>5 DEF Ranges
  <2> DEFINE a == range.start
             b == range.last
  <2>1. a \in Int /\ b \in Int /\ a <= b + 1 /\ Covered(u) \cup (a..b) = OldSet(cmd, u, k)
    BY <1>1, <1>3 DEF DeleteAt
  <2>2. range'.start = a /\ range'.last = b + 1 /\ DeleteKey = b + 1
    BY <1>1, <1>5, <1>7
  <2>3. Covered(u)' = Covered(u)
    BY <1>8 DEF Covered
  <2>4. OldSet(cmd, u, k + 1)' = OldSet(cmd, u, k) \cup {DeleteKey}
    BY <1>5, <1>7, OldSetNext
  <2> HIDE DEF a, b
  <2>5. a..(b + 1) = (a..b) \cup {b + 1} /\ a <= b + 1 + 1
    BY <2>1
  <2> QED
    BY <2>1, <2>2, <2>3, <2>4, <2>5
<1>12. ~Singly'
  BY <1>5 DEF Singly
<1>13. DeleteAt(u, k + 1)'
  BY <1>3, <1>5, <1>6, <1>8, <1>10, <1>11, <1>12 DEF DeleteAt
<1>14. (\E w \in Nat \ {0} : \E l \in Nat : upd_num + 1 = w /\ DeleteAt(w, l))'
  <2>1. k + 1 \in Nat /\ upd_num' + 1 = u
    BY <1>3, <1>5
  <2> QED
    BY <1>13, <2>1
<1> QED
  BY <1>5, <1>9, <1>14 DEF SegInv

LEMMA SegWriteRange ==
  ASSUME UInv, SegInv, WriteRange
  PROVE  SegInv'
<1>1. UTypeOK /\ Done /\ Statics /\ cmd \in Commands /\ range \in [start : Int, last : Int]
  BY DEF UInv, UTypeOK, SegInv
<1>2. PICK u \in Nat \ {0} : \E k \in Nat : upd_num + 1 = u /\ DeleteAt(u, k)
  BY DEF SegInv, WriteRange
<1>3. PICK k \in Nat : upd_num + 1 = u /\ DeleteAt(u, k)
  BY <1>2
<1>4. rowcnt(cmd) \in Nat /\ minrow(cmd, u) \in Nat
  BY <1>1, PairTyped
<1>5. /\ UNCHANGED <<cmd, upd_num, line, drange, delete_segment>> /\ pc' = "deletes"
      /\ cmd.gen_sql \/ cmd.gen_rng
      /\ left > 0 /\ i' = i + 1 /\ left' = left - 1
      /\ disk' = disk \cup {<<drange.file, <<range.start, range.last>>>>}
      /\ range' = [start |-> DeleteKey, last |-> DeleteKey]
  BY DEF WriteRange
<1>6. /\ k + 1 \in 0..rowcnt(cmd) /\ left' = rowcnt(cmd) - (k + 1) /\ i' = minrow(cmd, u) + (k + 1)
      /\ i = minrow(cmd, u) + k
  BY <1>3, <1>4, <1>5 DEF DeleteAt
<1>7. DeleteKey = OldKey(cmd, u, k) /\ DeleteKey \in Int
  <2>1. DeleteKey = OldKey(cmd, u, k)
    BY <1>3, <1>6 DEF DeleteKey, OldKey
  <2> QED
    BY <1>1, <2>1, PairTyped
<1>8. PICK seg, a, b :
        /\ seg = delete_segment /\ a = range.start /\ b = range.last
        /\ disk' = disk \cup {<< <<"delete", u, seg>>, <<a, b>>>>}
  <2>1. drange.file = <<"delete", u, delete_segment>>
    BY <1>3 DEF DeleteAt
  <2> QED
    BY <1>5, <2>1
<1>9. /\ \A v : v # u => InsertsOf(v)' = InsertsOf(v) /\ DeletesOf(v)' = DeletesOf(v)
      /\ DeletesOf(u)' = DeletesOf(u) \cup {<< <<"delete", u, seg>>, <<a, b>>>>}
      /\ InsertsOf(u)' = InsertsOf(u)
  <2>1. disk' = disk \cup {<< <<"delete", u, seg>>, <<a, b>>>>}
    BY <1>8
  <2> QED
    BY <2>1, DeleteAdded
<1>10. Ahead(u + 1)'
  BY <1>3, <1>8, AheadKept DEF DeleteAt
<1>11. Done' /\ Statics'
  <2>1. Done'
    BY <1>1, <1>3, <1>5, <1>9, DoneKept
  <2> QED
    BY <1>1, <1>5, <2>1 DEF Statics
<1>12. InsertsAre(u, rowcnt(cmd))'
  BY <1>3, <1>5, <1>9 DEF InsertsAre, DeleteAt
<1>13. Ranges' => /\ range'.start <= range'.last + 1
                  /\ (Covered(u) \cup (range.start..range.last))' = OldSet(cmd, u, k + 1)'
  <2> SUFFICES ASSUME Ranges
               PROVE  /\ range'.start <= range'.last + 1
                      /\ (Covered(u) \cup (range.start..range.last))' = OldSet(cmd, u, k + 1)'
    BY <1>5 DEF Ranges
  <2>1. Covered(u) \cup (a..b) = OldSet(cmd, u, k)
    BY <1>3, <1>8 DEF DeleteAt
  <2>2. Covered(u)' = Covered(u) \cup (a..b)
    BY <1>9, RangeWritten
  <2>3. range'.start = DeleteKey /\ range'.last = DeleteKey
    BY <1>5
  <2>4. OldSet(cmd, u, k + 1)' = OldSet(cmd, u, k) \cup {DeleteKey}
    BY <1>5, <1>7, OldSetNext
  <2>5. DeleteKey..DeleteKey = {DeleteKey} /\ DeleteKey <= DeleteKey + 1
    BY <1>7
  <2> QED
    BY <2>1, <2>2, <2>3, <2>4, <2>5
<1>14. ~Singly'
  BY <1>5 DEF Singly
<1>15. DeleteAt(u, k + 1)'
  BY <1>3, <1>5, <1>6, <1>10, <1>12, <1>13, <1>14 DEF DeleteAt
<1>16. (\E w \in Nat \ {0} : \E l \in Nat : upd_num + 1 = w /\ DeleteAt(w, l))'
  <2>1. k + 1 \in Nat /\ upd_num' + 1 = u
    BY <1>3, <1>5
  <2> QED
    BY <1>15, <2>1
<1> QED
  BY <1>5, <1>11, <1>16 DEF SegInv

LEMMA SegDeletesDone ==
  ASSUME UInv, SegInv, DeletesDone
  PROVE  SegInv'
<1>1. UTypeOK /\ Done /\ Statics /\ cmd \in Commands /\ upd_num \in Nat
  BY DEF UInv, UTypeOK, SegInv
<1>2. PICK u \in Nat \ {0} : \E k \in Nat : upd_num + 1 = u /\ DeleteAt(u, k)
  BY DEF SegInv, DeletesDone
<1>3. PICK k \in Nat : upd_num + 1 = u /\ DeleteAt(u, k)
  BY <1>2
<1>4. rowcnt(cmd) \in Nat
  BY <1>1, PairTyped
<1>5. /\ UNCHANGED <<cmd, line, drange>> /\ pc' = "pairs" /\ upd_num' = u
      /\ disk' = IF cmd.gen_rng THEN disk \cup {<<drange.file, <<range.start, range.last>>>>} ELSE disk
  BY <1>3 DEF DeletesDone
<1>6. k = rowcnt(cmd)
  <2>1. k \in 0..rowcnt(cmd) /\ left = rowcnt(cmd) - k /\ left = 0
    BY <1>3 DEF DeleteAt, DeletesDone
  <2> QED
    BY <1>4, <2>1
<1>7. PICK seg, a, b :
        /\ seg = delete_segment /\ a = range.start /\ b = range.last
        /\ disk' = IF cmd.gen_rng THEN disk \cup {<< <<"delete", u, seg>>, <<a, b>>>>} ELSE disk
  <2>1. drange.file = <<"delete", u, delete_segment>>
    BY <1>3 DEF DeleteAt
  <2> QED
    BY <1>5, <2>1
<1>8. /\ \A v : v # u => InsertsOf(v)' = InsertsOf(v) /\ DeletesOf(v)' = DeletesOf(v)
      /\ cmd.gen_rng => DeletesOf(u)' = DeletesOf(u) \cup {<< <<"delete", u, seg>>, <<a, b>>>>}
      /\ ~cmd.gen_rng => DeletesOf(u)' = DeletesOf(u)
      /\ InsertsOf(u)' = InsertsOf(u)
  <2>1. CASE cmd.gen_rng
    <3>1. disk' = disk \cup {<< <<"delete", u, seg>>, <<a, b>>>>}
      BY <1>7, <2>1
    <3> QED
      BY <2>1, <3>1, DeleteAdded
  <2>2. CASE ~cmd.gen_rng
    BY <1>5, <2>2, FilesSame
  <2> QED
    BY <2>1, <2>2
<1>9. Ahead(u + 1)'
  <2>1. Ahead(u + 1)
    BY <1>3 DEF DeleteAt
  <2>2. CASE cmd.gen_rng
    <3>1. disk' = disk \cup {<< <<"delete", u, seg>>, <<a, b>>>>}
      BY <1>7, <2>2
    <3> QED
      BY <2>1, <3>1, AheadKept
  <2>3. CASE ~cmd.gen_rng
    BY <1>5, <2>1, <2>3, FilesSame
  <2> QED
    BY <2>2, <2>3
<1>10. PairDone(u)'
  <2>1. InsertsAre(u, rowcnt(cmd))'
    BY <1>3, <1>5, <1>8 DEF InsertsAre, DeleteAt
  <2>2. Singly' => DeletesAre(u, rowcnt(cmd))'
    <3> SUFFICES ASSUME Singly
                 PROVE  DeletesAre(u, rowcnt(cmd))'
      BY <1>5 DEF Singly
    <3>1. DeletesAre(u, rowcnt(cmd)) /\ DeletesOf(u)' = DeletesOf(u)
      BY <1>3, <1>6, <1>8 DEF DeleteAt, Singly
    <3> QED
      BY <1>5, <3>1 DEF DeletesAre
  <2>3. Ranges' => Covered(u)' = OldSet(cmd, u, rowcnt(cmd))'
    <3> SUFFICES ASSUME Ranges
                 PROVE  Covered(u)' = OldSet(cmd, u, rowcnt(cmd))'
      BY <1>5 DEF Ranges
    <3>1. Covered(u) \cup (a..b) = OldSet(cmd, u, rowcnt(cmd))
      BY <1>3, <1>6, <1>7 DEF DeleteAt
    <3>2. Covered(u)' = Covered(u) \cup (a..b)
      BY <1>8, RangeWritten DEF Ranges
    <3> QED
      BY <1>5, <3>1, <3>2
  <2> QED
    BY <2>1, <2>2, <2>3 DEF PairDone
<1>11. Done'
  <2>1. \A v \in Finished : v # u
    BY <1>1, <1>3, FinishedTyped
  <2>2. \A v \in Finished' : v \in Finished \/ v = u
    <3>1. First' = First /\ First \in Nat
      BY <1>1, <1>5, CommandTyped DEF First
    <3>2. Finished' = First..u /\ Finished = First..upd_num
      BY <1>5, <3>1 DEF Finished
    <3> QED
      BY <1>1, <1>3, <3>1, <3>2
  <2>3. ASSUME NEW v \in Finished
        PROVE  PairDone(v)'
    BY <1>1, <1>5, <1>8, <2>1, PairKept DEF Done
  <2> QED
    BY <1>10, <2>2, <2>3 DEF Done
<1>12. Statics'
  BY <1>1, <1>5 DEF Statics
<1>13. line'.last_mode % PAIRS <= upd_num' /\ drange'.last_num <= upd_num'
  BY <1>3, <1>5 DEF DeleteAt
<1>14. Ahead(upd_num + 1)'
  BY <1>5, <1>9 DEF Ahead
<1> QED
  BY <1>5, <1>11, <1>12, <1>13, <1>14 DEF SegInv

(* gen_tbl goes to the next segment exactly when the one in work has its   *)
(* rows; and so does pr_drange.                                            *)
LEMMA InsertRolls ==
  ASSUME NEW c \in Commands, c.insert_segments > 0, NEW md \in Nat, NEW rts \in Int
  PROVE  Rolls(c, md, rts) <=> rts + 1 >= PartSize(rowcnt(c), c.insert_segments, md \div PAIRS)
<1> DEFINE n == rowcnt(c)
           s == c.insert_segments
           m == md \div PAIRS
           p == n \div s
           q == n % s
<1>1. n \in Nat /\ s \in Nat \ {0} /\ PAIRS \in Nat \ {0}
  BY CountsTyped, CommandTyped
<1>2. m \in Nat
  BY <1>1, DivMod
<1>3. p \in Nat /\ q \in Nat /\ n - p * s = q
  <2> HIDE DEF n, s
  <2>1. p \in Nat /\ q \in 0..(s - 1) /\ n = p * s + q
    BY <1>1, DivMod, Zenon
  <2> HIDE DEF p, q
  <2> QED
    BY <1>1, <2>1
<1>4. Rolls(c, md, rts) <=> IF m < n - p * s THEN rts + 1 > p ELSE rts + 1 >= p
  BY DEF Rolls
<1>5. PartSize(n, s, m) = p + (IF m < q THEN 1 ELSE 0)
  BY DEF PartSize
<1> HIDE DEF n, s, m, p, q
<1>6. Rolls(c, md, rts) <=> rts + 1 >= PartSize(n, s, m)
  BY <1>2, <1>3, <1>4, <1>5
<1> QED
  BY <1>6 DEF n, s, m

LEMMA RangeRolls ==
  ASSUME NEW n \in Nat, NEW s \in Nat \ {0}, NEW d, NEW seg \in Nat \ {0}, d.rows_this_segment \in Nat,
         d.rows_per_segment = n \div s + 1, d.residual_rows = n % s
  PROVE  DeleteRolls(d, seg) <=> d.rows_this_segment >= PartSize(n, s, seg - 1)
<1> DEFINE p == n \div s
           q == n % s
           r == d.rows_this_segment
<1>1. p \in Nat /\ q \in Nat
  <2>1. p \in Nat /\ q \in 0..(s - 1)
    BY DivMod, Zenon
  <2> HIDE DEF p, q
  <2> QED
    BY <2>1
<1>2. PartSize(n, s, seg - 1) = p + (IF seg - 1 < q THEN 1 ELSE 0)
  BY DEF PartSize
<1>3. DeleteRolls(d, seg) <=> IF seg <= q THEN r + 1 > p + 1 ELSE r + 1 >= p + 1
  BY DEF DeleteRolls
<1>4. r \in Nat
  OBVIOUS
<1> HIDE DEF p, q, r
<1>5. DeleteRolls(d, seg) <=> r >= PartSize(n, s, seg - 1)
  BY <1>1, <1>2, <1>3, <1>4
<1> QED
  BY <1>5 DEF r

(* A mode counts the segments before in its upper digits. *)
LEMMA ModeSplit ==
  ASSUME NEW md \in Nat, NEW u \in Nat, md % PAIRS = u
  PROVE  (md + PAIRS) % PAIRS = u /\ (md + PAIRS) \div PAIRS = (md \div PAIRS) + 1 /\ md + PAIRS # md
BY DEF PAIRS

(* A file that has no entry yet is emptied in vain. *)
LEMMA EmptiedInVain ==
  ASSUME NEW f, \A x \in disk : x[1] # f
  PROVE  Emptied(f) = disk
BY DEF Emptied

(* Where row k of pair u goes. *)
Goes(u, k) ==
  /\ line' = [last_mode |-> mode', file |-> <<"lineorder", u, segment'>>]
  /\ disk' = disk \cup {<< <<"lineorder", u, segment'>>, NewKeys(cmd, u)[k]>>}
  /\ <<"lineorder", u, segment'>> = FileOf("lineorder", u, cmd.insert_segments, PartOf(rowcnt(cmd), Parts(cmd.insert_segments), k))
  /\ mode' % PAIRS = u
  /\ cmd.insert_segments = 0 => mode' = u /\ segment' = 0
  /\ cmd.insert_segments > 0 =>
       /\ segment' \in 1..cmd.insert_segments /\ mode' \div PAIRS = segment' - 1
       /\ k + 1 = PartStart(rowcnt(cmd), cmd.insert_segments, segment' - 1) + rows_this_segment' + 1
       /\ rows_this_segment' \in Nat
       /\ rows_this_segment' < PartSize(rowcnt(cmd), cmd.insert_segments, segment' - 1)

LEMMA RowGoes ==
  ASSUME UInv, InsertRow, NEW u \in Nat \ {0}, NEW k \in Nat, upd_num + 1 = u, InsertAt(u, k)
  PROVE  Goes(u, k)
<1> DEFINE R == rowcnt(cmd)
           s == cmd.insert_segments
<1>1. /\ UTypeOK /\ cmd \in Commands /\ mode \in Nat /\ rows_this_segment \in Int /\ segment \in Nat
      /\ line \in [last_mode : Nat, file : {"none", "lineorder"} \X Nat \X Nat]
  BY DEF UInv, UTypeOK
<1>2. R \in Nat /\ minrow(cmd, u) \in Nat /\ s \in Nat /\ PAIRS \in Nat \ {0}
  BY <1>1, PairTyped, CommandTyped
<1>3. k < R /\ k \in 0..(R - 1) /\ i = minrow(cmd, u) + k /\ mode % PAIRS = u
  <2>1. k \in 0..R /\ left = R - k /\ left > 0 /\ i = minrow(cmd, u) + k /\ mode % PAIRS = u
    BY DEF InsertAt, InsertRow
  <2> QED
    BY <1>2, <2>1
<1>4. NewKeys(cmd, u)[k] = <<insert_key(cmd, i, mode % PAIRS), i>>
  BY <1>3 DEF NewKeys
<1> DEFINE e == NewKeys(cmd, u)[k]
           rolls == Rolls(cmd, mode, rows_this_segment)
           opens == mode' # line.last_mode
<1>5. /\ mode' = IF rolls THEN mode + PAIRS ELSE mode
      /\ rows_this_segment' = IF s = 0 THEN rows_this_segment ELSE IF rolls THEN 0 ELSE rows_this_segment + 1
  BY DEF InsertRow
<1>6. opens => /\ segment' = NextSegment(s, segment)
               /\ line' = [last_mode |-> mode', file |-> <<"lineorder", mode' % PAIRS, segment'>>]
               /\ disk' = Emptied(<<"lineorder", mode' % PAIRS, segment'>>)
                            \cup {<< <<"lineorder", mode' % PAIRS, segment'>>, e>>}
  BY <1>4 DEF InsertRow, insert_file
<1>7. ~opens => /\ segment' = segment
                /\ line' = [last_mode |-> mode', file |-> line.file]
                /\ disk' = disk \cup {<<line.file, e>>}
  BY <1>4 DEF InsertRow
<1> HIDE DEF e
<1>8. InsertsOf(u) = Placed("lineorder", u, R, s, NewKeys(cmd, u), k)
  BY DEF InsertAt, InsertsAre
<1>9. ASSUME NEW f, f = <<"lineorder", u, f[3]>>, \A j \in 0..(k - 1) : FileOf("lineorder", u, s, PartOf(R, Parts(s), j)) # f
      PROVE  Emptied(f) = disk
  <2>1. ASSUME NEW x \in disk, x[1] = f
        PROVE  FALSE
    <3>1. x \in InsertsOf(u)
      BY <1>9, <2>1 DEF InsertsOf, Inserted
    <3>2. PICK j \in 0..(k - 1) : x = <<FileOf("lineorder", u, s, PartOf(R, Parts(s), j)), NewKeys(cmd, u)[j]>>
      BY <1>8, <3>1 DEF Placed
    <3> QED
      BY <1>9, <2>1, <3>2
  <2> QED
    BY <2>1, EmptiedInVain
<1>10. CASE s = 0
  <2>1. ~rolls
    BY <1>10 DEF Rolls
  <2>2. mode' = u /\ segment = 0 /\ mode' % PAIRS = u
    BY <1>3, <1>5, <1>10, <2>1 DEF InsertAt
  <2>3. \A m : FileOf("lineorder", u, s, m) = <<"lineorder", u, 0>>
    BY <1>10 DEF FileOf
  <2>4. CASE k = 0
    <3>1. line.last_mode % PAIRS < u /\ line.last_mode \in Nat
      BY <1>1, <2>4 DEF InsertAt
    <3>2. opens
      BY <1>2, <2>2, <3>1
    <3>3. segment' = 0
      BY <1>6, <1>10, <2>2, <3>2 DEF NextSegment
    <3>4. Emptied(<<"lineorder", u, 0>>) = disk
      BY <1>9, <2>4
    <3> QED
      BY <1>6, <1>10, <2>2, <2>3, <3>2, <3>3, <3>4 DEF Goes, e
  <2>5. CASE k > 0
    <3>1. ~opens /\ line.file = <<"lineorder", u, 0>>
      BY <1>5, <2>1, <2>2, <2>5 DEF InsertAt
    <3>2. segment' = 0
      BY <1>7, <2>2, <3>1
    <3> QED
      BY <1>7, <1>10, <2>2, <2>3, <3>1, <3>2 DEF Goes, e
  <2> QED
    BY <2>4, <2>5
<1>11. CASE s > 0 /\ k = 0
  <2>1. s \in Nat \ {0} /\ 0 \in Nat /\ 0 \in 0..(s - 1) /\ Parts(s) = s
    BY <1>2, <1>11 DEF Parts
  <2>2. PartStart(R, s, 0) = 0 /\ PartSize(R, s, 0) \in Nat /\ PartSize(R, s, 0) >= 1
    <3> HIDE DEF R, s
    <3>1. PartStart(R, s, 0) = 0 /\ 0 < R
      BY <1>2, <1>3, <1>11, <2>1, PartEnds
    <3>2. PartSize(R, s, 0) \in Nat
      BY <1>2, <2>1, PartSteps
    <3>3. PartStart(R, s, 0) < R
      BY <3>1
    <3> QED
      BY <1>2, <2>1, <3>1, <3>2, <3>3, PartNotEmpty
  <2>3. mode = u /\ rows_this_segment = -1 /\ segment = 0 /\ line.last_mode % PAIRS < u /\ line.last_mode \in Nat
    BY <1>1, <1>11 DEF InsertAt
  <2>4. u \div PAIRS = 0
    <3>1. upd_num < cmd.updates /\ upd_num \in Nat /\ cmd.updates \in Nat
      <4>1. upd_num < cmd.updates
        BY DEF UInv, PairInv, InsertRow
      <4> QED
        BY <1>1, <4>1, CommandTyped DEF UTypeOK
    <3>2. u <= cmd.updates /\ u \in Nat
      BY <3>1
    <3> QED
      BY <1>1, <3>2, SmallPair
  <2>5. ~rolls
    BY <1>1, <1>11, <2>2, <2>3, <2>4, InsertRolls
  <2>6. mode' = u /\ rows_this_segment' = 0 /\ mode' % PAIRS = u
    BY <1>3, <1>5, <1>11, <2>3, <2>5
  <2>7. opens
    BY <1>2, <2>3, <2>6
  <2>8. segment' = 1
    BY <1>6, <1>11, <2>3, <2>7 DEF NextSegment
  <2>9. PartOf(R, s, k) = 0
    BY <1>2, <1>3, <1>11, <2>1, <2>2, PartInWork
  <2>10. FileOf("lineorder", u, s, PartOf(R, Parts(s), k)) = <<"lineorder", u, 1>>
    BY <1>11, <2>1, <2>9 DEF FileOf
  <2>11. Emptied(<<"lineorder", u, 1>>) = disk
    BY <1>9, <1>11
  <2>12. segment' \in 1..s /\ mode' \div PAIRS = segment' - 1 /\ k + 1 = PartStart(R, s, segment' - 1) + rows_this_segment' + 1
         /\ rows_this_segment' \in Nat /\ rows_this_segment' < PartSize(R, s, segment' - 1)
    BY <1>2, <1>11, <2>2, <2>4, <2>6, <2>8
  <2> QED
    BY <1>6, <1>11, <2>6, <2>7, <2>8, <2>10, <2>11, <2>12 DEF Goes, e
<1>12. CASE s > 0 /\ k > 0
  <2> DEFINE m == segment - 1
             r == rows_this_segment + 1
  <2>1. /\ segment \in 1..s /\ mode \div PAIRS = m /\ k = PartStart(R, s, m) + rows_this_segment + 1
        /\ rows_this_segment \in Nat /\ rows_this_segment < PartSize(R, s, m)
        /\ line.last_mode = mode /\ line.file = <<"lineorder", u, segment>>
    BY <1>12 DEF InsertAt
  <2>2. s \in Nat \ {0} /\ m \in 0..(s - 1) /\ m \in Nat /\ Parts(s) = s
    BY <1>2, <1>12, <2>1 DEF Parts
  <2>3. PartStart(R, s, m) \in Nat /\ PartSize(R, s, m) \in Nat
    BY <1>2, <2>2, PartSteps
  <2>4. r \in Nat /\ k = PartStart(R, s, m) + r /\ r <= PartSize(R, s, m)
    BY <2>1, <2>3
  <2>5. /\ r < PartSize(R, s, m) => PartOf(R, s, k) = m
        /\ r >= PartSize(R, s, m) =>
              /\ m + 1 \in 0..(s - 1) /\ PartOf(R, s, k) = m + 1 /\ PartSize(R, s, m + 1) >= 1
              /\ k = PartStart(R, s, m + 1)
              /\ \A j \in 0..(k - 1) : PartOf(R, s, j) # m + 1
    <3> HIDE DEF r, m, R, s
    <3> QED
      BY <1>2, <1>3, <2>2, <2>4, PartInWork
  <2>6. rolls <=> r >= PartSize(R, s, m)
    BY <1>1, <1>12, <2>1, InsertRolls
  <2>7. CASE rolls
    <3>1. /\ m + 1 \in 0..(s - 1) /\ PartOf(R, s, k) = m + 1 /\ PartSize(R, s, m + 1) >= 1
          /\ k = PartStart(R, s, m + 1)
          /\ \A j \in 0..(k - 1) : PartOf(R, s, j) # m + 1
      BY <2>5, <2>6, <2>7
    <3>2. mode' = mode + PAIRS /\ rows_this_segment' = 0
      BY <1>5, <1>12, <2>7
    <3>3. mode' % PAIRS = u /\ mode' \div PAIRS = m + 1 /\ mode' # mode
      BY <1>1, <1>3, <2>1, <3>2, ModeSplit
    <3>4. opens
      BY <2>1, <3>3
    <3>5. segment' = m + 2
      BY <1>6, <1>12, <2>1, <3>4 DEF NextSegment
    <3>6. FileOf("lineorder", u, s, PartOf(R, Parts(s), k)) = <<"lineorder", u, segment'>>
      BY <1>12, <2>2, <3>1, <3>5 DEF FileOf
    <3>7. \A j \in 0..(k - 1) : FileOf("lineorder", u, s, PartOf(R, Parts(s), j)) # <<"lineorder", u, segment'>>
      <4> SUFFICES ASSUME NEW j \in 0..(k - 1)
                   PROVE  FileOf("lineorder", u, s, PartOf(R, Parts(s), j)) # <<"lineorder", u, segment'>>
        OBVIOUS
      <4>1. j \in Nat /\ j < R
        BY <1>2, <1>3
      <4>2. PartOf(R, s, j) \in 0..(s - 1)
        BY <1>2, <2>2, <4>1, PartOfRow
      <4>3. PartOf(R, s, j) # m + 1
        BY <3>1
      <4>4. PartOf(R, s, j) + 1 # segment'
        BY <2>2, <3>5, <4>2, <4>3
      <4> QED
        BY <1>12, <2>2, <4>4 DEF FileOf
    <3>8. Emptied(<<"lineorder", u, segment'>>) = disk
      <4>1. PICK f : f = <<"lineorder", u, segment'>>
        OBVIOUS
      <4>2. f = <<"lineorder", u, f[3]>>
        BY <4>1
      <4> QED
        BY <1>9, <3>7, <4>1, <4>2
    <3>9. segment' \in 1..s /\ mode' \div PAIRS = segment' - 1 /\ segment' - 1 = m + 1
      BY <1>2, <2>2, <3>1, <3>3, <3>5
    <3>10. k + 1 = PartStart(R, s, segment' - 1) + rows_this_segment' + 1
           /\ rows_this_segment' \in Nat /\ rows_this_segment' < PartSize(R, s, segment' - 1)
      <4>1. m + 1 \in Nat
        BY <2>2
      <4>2. PartSize(R, s, m + 1) \in Nat
        BY <1>2, <2>2, <4>1, PartSteps
      <4> QED
        BY <3>1, <3>2, <3>9, <4>2
    <3> QED
      BY <1>6, <1>12, <3>3, <3>4, <3>6, <3>8, <3>9, <3>10 DEF Goes, e
  <2>8. CASE ~rolls
    <3>1. r < PartSize(R, s, m) /\ PartOf(R, s, k) = m
      BY <2>3, <2>4, <2>5, <2>6, <2>8
    <3>2. mode' = mode /\ rows_this_segment' = r
      BY <1>5, <1>12, <2>8
    <3>3. ~opens
      BY <2>1, <3>2
    <3>4. segment' = segment
      BY <1>7, <3>3
    <3>5. FileOf("lineorder", u, s, PartOf(R, Parts(s), k)) = <<"lineorder", u, segment>>
      BY <1>1, <1>12, <2>2, <3>1 DEF FileOf
    <3>6. k + 1 = PartStart(R, s, m) + r + 1
      BY <2>3, <2>4
    <3> QED
      BY <1>3, <1>7, <1>12, <2>1, <2>4, <3>1, <3>2, <3>3, <3>4, <3>5, <3>6 DEF Goes, e
  <2> QED
    BY <2>7, <2>8
<1> QED
  BY <1>2, <1>10, <1>11, <1>12

LEMMA SegInsertRow ==
  ASSUME UInv, SegInv, InsertRow
  PROVE  SegInv'
<1>1. UTypeOK /\ Done /\ Statics /\ cmd \in Commands
  BY DEF UInv, UTypeOK, SegInv
<1>2. PICK u \in Nat \ {0} : \E k \in Nat : upd_num + 1 = u /\ InsertAt(u, k)
  BY DEF SegInv, InsertRow
<1>3. PICK k \in Nat : upd_num + 1 = u /\ InsertAt(u, k)
  BY <1>2
<1>4. rowcnt(cmd) \in Nat /\ minrow(cmd, u) \in Nat
  BY <1>1, PairTyped
<1>5. /\ UNCHANGED <<cmd, pc, upd_num, drange, delete_segment>> /\ pc = "inserts"
      /\ left > 0 /\ i' = i + 1 /\ left' = left - 1
  BY DEF InsertRow
<1>6. k + 1 \in 0..rowcnt(cmd) /\ left' = rowcnt(cmd) - (k + 1) /\ i' = minrow(cmd, u) + (k + 1)
  BY <1>3, <1>4, <1>5 DEF InsertAt
<1>7. Goes(u, k)
  BY <1>3, RowGoes
<1>8. PICK seg, e : /\ seg = segment' /\ e = NewKeys(cmd, u)[k]
                    /\ disk' = disk \cup {<< <<"lineorder", u, seg>>, e>>}
  BY <1>7 DEF Goes
<1>9. /\ \A v : v # u => InsertsOf(v)' = InsertsOf(v) /\ DeletesOf(v)' = DeletesOf(v)
      /\ InsertsOf(u)' = InsertsOf(u) \cup {<< <<"lineorder", u, seg>>, e>>}
      /\ DeletesOf(u)' = DeletesOf(u)
  <2>1. disk' = disk \cup {<< <<"lineorder", u, seg>>, e>>}
    BY <1>8
  <2> QED
    BY <2>1, InsertAdded
<1>10. Ahead(u + 1)'
  BY <1>3, <1>8, AheadKept DEF InsertAt
<1>11. Done' /\ Statics'
  <2>1. Done'
    BY <1>1, <1>3, <1>5, <1>9, DoneKept
  <2> QED
    BY <1>1, <1>5, <2>1 DEF Statics
<1>12. InsertsAre(u, k + 1)'
  <2>1. InsertsOf(u) = Placed("lineorder", u, rowcnt(cmd), cmd.insert_segments, NewKeys(cmd, u), k)
    BY <1>3 DEF InsertAt, InsertsAre
  <2>2. <<"lineorder", u, seg>> = FileOf("lineorder", u, cmd.insert_segments, PartOf(rowcnt(cmd), Parts(cmd.insert_segments), k))
    BY <1>7, <1>8 DEF Goes
  <2>3. InsertsOf(u)' = Placed("lineorder", u, rowcnt(cmd), cmd.insert_segments, NewKeys(cmd, u), k + 1)
    BY <1>8, <1>9, <2>1, <2>2, PlacedNext
  <2> QED
    BY <1>5, <2>3 DEF InsertsAre
<1>13. InsertAt(u, k + 1)'
  <2>1. k + 1 > 0 /\ k + 1 # 0
    OBVIOUS
  <2>2. DeletesOf(u)' = {} /\ drange'.last_num < u /\ delete_segment' = 0
    BY <1>3, <1>5, <1>9 DEF InsertAt
  <2>3. line'.last_mode = mode' /\ line'.file = <<"lineorder", u, segment'>>
    BY <1>7 DEF Goes
  <2> QED
    BY <1>5, <1>6, <1>7, <1>10, <1>12, <2>1, <2>2, <2>3 DEF InsertAt, Goes
<1>14. (\E w \in Nat \ {0} : \E l \in Nat : upd_num + 1 = w /\ InsertAt(w, l))'
  <2>1. k + 1 \in Nat /\ upd_num' + 1 = u
    BY <1>3, <1>5
  <2> QED
    BY <1>13, <2>1
<1> QED
  BY <1>5, <1>11, <1>14 DEF SegInv

(* Where the k-th key to delete goes. *)
KeyGoes(u, k) ==
  /\ drange'.last_num = drange.last_num /\ drange'.file = <<"delete", u, delete_segment'>>
  /\ disk' = disk \cup {<< <<"delete", u, delete_segment'>>, OldKeys(cmd, u)[k]>>}
  /\ <<"delete", u, delete_segment'>> = FileOf("delete", u, cmd.delete_segments, PartOf(rowcnt(cmd), Parts(cmd.delete_segments), k))
  /\ Statics'
  /\ cmd.delete_segments = 0 => delete_segment' = 0
  /\ cmd.delete_segments > 0 =>
       /\ delete_segment' \in 1..cmd.delete_segments
       /\ k + 1 = PartStart(rowcnt(cmd), cmd.delete_segments, delete_segment' - 1) + drange'.rows_this_segment
       /\ drange'.rows_this_segment <= PartSize(rowcnt(cmd), cmd.delete_segments, delete_segment' - 1)
       /\ drange'.rows_per_segment > 0

LEMMA KeyPlaced ==
  ASSUME UInv, Statics, WriteKey, NEW u \in Nat \ {0}, NEW k \in Nat, upd_num + 1 = u, DeleteAt(u, k)
  PROVE  KeyGoes(u, k)
<1> DEFINE R == rowcnt(cmd)
           s == cmd.delete_segments
           d == DeleteRows(drange, left, s)
<1>1. /\ UTypeOK /\ cmd \in Commands /\ delete_segment \in Nat
      /\ drange \in [last_num : Nat, rows_per_segment : Nat, rows_this_segment : Nat,
                     residual_rows : Nat, file : {"none", "delete"} \X Nat \X Nat]
  BY DEF UInv, UTypeOK
<1>2. R \in Nat /\ minrow(cmd, u) \in Nat /\ s \in Nat
  BY <1>1, PairTyped, CommandTyped
<1>3. k < R /\ k \in 0..(R - 1) /\ i = minrow(cmd, u) + k /\ Singly /\ left = R - k /\ cmd' = cmd
  <2>1. k \in 0..R /\ left = R - k /\ left > 0 /\ i = minrow(cmd, u) + k /\ Singly /\ cmd' = cmd
    BY DEF DeleteAt, WriteKey, Singly
  <2> QED
    BY <1>2, <2>1
<1>4. OldKeys(cmd, u)[k] = <<DeleteKey, DeleteKey>>
  BY <1>3 DEF OldKeys, OldKey, DeleteKey
<1>5. drange.last_num = u /\ drange.file = <<"delete", u, delete_segment>>
  BY DEF DeleteAt
<1>6. DeletesOf(u) = Placed("delete", u, R, s, OldKeys(cmd, u), k)
  BY <1>3 DEF DeleteAt, DeletesAre
<1> DEFINE e == OldKeys(cmd, u)[k]
           rolls == s > 0 /\ DeleteRolls(d, delete_segment)
           dest == IF rolls THEN <<"delete", u, delete_segment + 1>> ELSE d.file
<1>7. /\ delete_segment' = IF rolls THEN delete_segment + 1 ELSE delete_segment
      /\ drange' = [d EXCEPT !.file = dest, !.rows_this_segment = IF rolls THEN 1 ELSE IF s > 0 THEN @ + 1 ELSE @]
      /\ disk' = (IF rolls THEN Emptied(dest) ELSE disk) \cup {<<dest, e>>}
  BY <1>4 DEF WriteKey, delete_file
<1>8. CASE s = 0
  <2>1. ~rolls /\ d = drange
    BY <1>8 DEF DeleteRows
  <2>2. delete_segment = 0 /\ delete_segment' = 0
    BY <1>7, <1>8, <2>1 DEF DeleteAt
  <2>3. /\ drange'.last_num = drange.last_num /\ drange'.file = <<"delete", u, 0>>
        /\ drange'.rows_per_segment = drange.rows_per_segment /\ drange'.residual_rows = drange.residual_rows
    BY <1>1, <1>5, <1>7, <2>1, <2>2
  <2>4. disk' = disk \cup {<< <<"delete", u, 0>>, e>>}
    BY <1>5, <1>7, <2>1, <2>2
  <2>5. \A m : FileOf("delete", u, s, m) = <<"delete", u, 0>>
    BY <1>8 DEF FileOf
  <2>6. Statics'
    BY <1>3, <2>3 DEF Statics
  <2> HIDE DEF rolls, dest, d
  <2> QED
    BY <1>2, <1>8, <2>2, <2>3, <2>4, <2>5, <2>6 DEF KeyGoes
<1>9. CASE s > 0
  <2> DEFINE m == delete_segment - 1
             r == drange.rows_this_segment
  <2>1. /\ delete_segment \in 1..s /\ k = PartStart(R, s, m) + r /\ r <= PartSize(R, s, m)
        /\ k > 0 => drange.rows_per_segment > 0
    BY <1>3, <1>9 DEF DeleteAt
  <2>2. s \in Nat \ {0} /\ m \in 0..(s - 1) /\ m \in Nat /\ m + 1 \in Nat /\ Parts(s) = s /\ r \in Nat
    BY <1>1, <1>2, <1>9, <2>1 DEF Parts
  <2>3. /\ d.rows_per_segment = R \div s + 1 /\ d.residual_rows = R % s /\ d.rows_this_segment = r
        /\ d.file = drange.file /\ d.last_num = drange.last_num
        /\ d \in [last_num : Nat, rows_per_segment : Int, rows_this_segment : Nat,
                  residual_rows : Int, file : {"none", "delete"} \X Nat \X Nat]
    <3> DEFINE p == R \div s
               q == R % s
               F == {"none", "delete"} \X Nat \X Nat
    <3>0. p \in Int /\ q \in Int
      <4> HIDE DEF R, s
      <4>1. p \in Nat /\ q \in 0..(s - 1)
        BY <1>2, <2>2, DivMod, Zenon
      <4> QED
        BY <2>2, <4>1
    <3>1. CASE drange.rows_per_segment = 0
      <4>1. k = 0 /\ left = R
        BY <1>2, <1>3, <2>1, <3>1
      <4>2. d = [drange EXCEPT !.rows_per_segment = p + 1, !.residual_rows = q]
        BY <1>9, <3>1, <4>1 DEF DeleteRows
      <4>3. drange \in [last_num : Nat, rows_per_segment : Nat, rows_this_segment : Nat,
                         residual_rows : Nat, file : F]
        BY <1>1
      <4> HIDE DEF p, q, d, F
      <4>4. /\ d.rows_per_segment = p + 1 /\ d.residual_rows = q /\ d.rows_this_segment = r
            /\ d.file = drange.file /\ d.last_num = drange.last_num
        BY <4>2, <4>3
      <4>5. d \in [last_num : Nat, rows_per_segment : Int, rows_this_segment : Nat,
                   residual_rows : Int, file : F]
        <5> DEFINE per == p + 1
        <5>1. per \in Int /\ q \in Int /\ d = [[drange EXCEPT !.rows_per_segment = per] EXCEPT !.residual_rows = q]
          BY <3>0, <4>2
        <5> HIDE DEF per
        <5>2. drange \in [last_num : Nat, rows_per_segment : Int, rows_this_segment : Nat,
                          residual_rows : Int, file : F]
          BY <4>3
        <5>3. [drange EXCEPT !.rows_per_segment = per] \in
                [last_num : Nat, rows_per_segment : Int, rows_this_segment : Nat, residual_rows : Int, file : F]
          BY <5>1, <5>2
        <5> QED
          BY <5>1, <5>3
      <4> QED
        BY <4>4, <4>5 DEF p, q, F
    <3>2. CASE drange.rows_per_segment # 0
      <4>1. d = drange /\ drange.rows_per_segment > 0
        BY <1>1, <3>2 DEF DeleteRows
      <4>2. drange.rows_per_segment = R \div s + 1 /\ drange.residual_rows = R % s
        BY <4>1 DEF Statics
      <4> QED
        BY <1>1, <4>1, <4>2
    <3> QED
      BY <3>1, <3>2
  <2>4. R \div s \in Nat /\ PartStart(R, s, m) \in Nat /\ PartSize(R, s, m) \in Nat
    <3>1. R \div s \in Nat
      BY <1>2, <2>2, DivMod
    <3> QED
      BY <1>2, <2>2, <3>1, PartSteps
  <2>5. /\ r < PartSize(R, s, m) => PartOf(R, s, k) = m
        /\ r >= PartSize(R, s, m) =>
              /\ m + 1 \in 0..(s - 1) /\ PartOf(R, s, k) = m + 1 /\ PartSize(R, s, m + 1) >= 1
              /\ k = PartStart(R, s, m + 1)
              /\ \A j \in 0..(k - 1) : PartOf(R, s, j) # m + 1
    <3>1. r \in Nat /\ k = PartStart(R, s, m) + r /\ r <= PartSize(R, s, m)
      BY <2>1, <2>2
    <3>2. R \in Nat /\ s \in Nat \ {0} /\ m \in 0..(s - 1) /\ k < R
      BY <1>2, <1>3, <2>2
    <3> HIDE DEF r, m, R, s
    <3> QED
      BY <3>1, <3>2, PartInWork
  <2>6. rolls <=> r >= PartSize(R, s, m)
    <3>1. delete_segment \in Nat \ {0} /\ d.rows_this_segment \in Nat
      BY <2>1, <2>2, <2>3
    <3> HIDE DEF d, R, s
    <3>2. DeleteRolls(d, delete_segment) <=> d.rows_this_segment >= PartSize(R, s, delete_segment - 1)
      BY <1>2, <2>2, <2>3, <3>1, RangeRolls
    <3> QED
      BY <1>9, <2>3, <3>2
  <2> HIDE DEF d
  <2>7. /\ drange'.last_num = drange.last_num /\ drange'.rows_per_segment = R \div s + 1
        /\ drange'.residual_rows = R % s /\ drange'.file = dest
        /\ drange'.rows_this_segment = IF rolls THEN 1 ELSE r + 1
    BY <1>7, <1>9, <2>3
  <2>8. Statics' /\ drange'.rows_per_segment > 0
    BY <1>3, <1>9, <2>4, <2>7 DEF Statics
  <2>9. CASE rolls
    <3>1. /\ m + 1 \in 0..(s - 1) /\ PartOf(R, s, k) = m + 1 /\ PartSize(R, s, m + 1) >= 1
          /\ k = PartStart(R, s, m + 1)
          /\ \A j \in 0..(k - 1) : PartOf(R, s, j) # m + 1
      BY <2>5, <2>6, <2>9
    <3>2. delete_segment' = m + 2 /\ delete_segment' = delete_segment + 1 /\ drange'.rows_this_segment = 1
      BY <1>7, <2>1, <2>7, <2>9
    <3>3. dest = <<"delete", u, delete_segment'>> /\ disk' = Emptied(dest) \cup {<<dest, e>>}
      BY <1>7, <2>9, <3>2
    <3>4. FileOf("delete", u, s, PartOf(R, Parts(s), k)) = <<"delete", u, delete_segment'>>
      BY <1>9, <2>2, <3>1, <3>2 DEF FileOf
    <3>5. ASSUME NEW x \in disk, x[1] = <<"delete", u, delete_segment'>>
          PROVE  FALSE
      <4>1. x \in DeletesOf(u)
        BY <3>5 DEF DeletesOf, Deleted
      <4>2. PICK j \in 0..(k - 1) : x = <<FileOf("delete", u, s, PartOf(R, Parts(s), j)), OldKeys(cmd, u)[j]>>
        BY <1>6, <4>1 DEF Placed
      <4>3. j \in Nat /\ j < R
        BY <1>2, <1>3
      <4>4. PartOf(R, s, j) \in 0..(s - 1)
        BY <1>2, <2>2, <4>3, PartOfRow
      <4>5. PartOf(R, s, j) # m + 1
        BY <3>1
      <4>6. PartOf(R, s, j) + 1 # delete_segment'
        BY <2>2, <3>2, <4>4, <4>5
      <4>7. x[1] = <<"delete", u, PartOf(R, s, j) + 1>>
        BY <1>9, <2>2, <4>2 DEF FileOf
      <4> QED
        BY <3>5, <4>6, <4>7
    <3>6. disk' = disk \cup {<< <<"delete", u, delete_segment'>>, e>>}
      <4>1. Emptied(dest) = disk
        BY <3>3, <3>5 DEF Emptied
      <4> QED
        BY <3>3, <4>1
    <3>7. delete_segment' \in 1..s /\ delete_segment' - 1 = m + 1
      BY <1>2, <2>2, <3>1, <3>2
    <3>8. /\ k + 1 = PartStart(R, s, delete_segment' - 1) + drange'.rows_this_segment
          /\ drange'.rows_this_segment <= PartSize(R, s, delete_segment' - 1)
      BY <3>1, <3>2, <3>7
    <3> HIDE DEF dest, rolls
    <3> QED
      BY <1>9, <2>7, <2>8, <3>3, <3>4, <3>6, <3>7, <3>8 DEF KeyGoes
  <2>10. CASE ~rolls
    <3>1. r < PartSize(R, s, m) /\ PartOf(R, s, k) = m
      BY <2>2, <2>4, <2>5, <2>6, <2>10
    <3>2. delete_segment' = delete_segment /\ drange'.rows_this_segment = r + 1 /\ dest = <<"delete", u, delete_segment>>
      BY <1>5, <1>7, <2>3, <2>7, <2>10
    <3>3. disk' = disk \cup {<< <<"delete", u, delete_segment'>>, e>>} /\ drange'.file = <<"delete", u, delete_segment'>>
      BY <1>7, <2>7, <2>10, <3>2
    <3>4. FileOf("delete", u, s, PartOf(R, Parts(s), k)) = <<"delete", u, delete_segment'>>
      BY <1>1, <1>9, <2>2, <3>1, <3>2 DEF FileOf
    <3>5. k + 1 = PartStart(R, s, m) + (r + 1) /\ r + 1 <= PartSize(R, s, m)
      BY <2>1, <2>2, <2>4, <3>1
    <3> HIDE DEF dest, rolls
    <3> QED
      BY <1>9, <2>1, <2>7, <2>8, <3>2, <3>3, <3>4, <3>5 DEF KeyGoes
  <2> QED
    BY <2>9, <2>10
<1> QED
  BY <1>2, <1>8, <1>9

LEMMA SegWriteKey ==
  ASSUME UInv, SegInv, WriteKey
  PROVE  SegInv'
<1>1. UTypeOK /\ Done /\ Statics /\ cmd \in Commands
  BY DEF UInv, UTypeOK, SegInv
<1>2. PICK u \in Nat \ {0} : \E k \in Nat : upd_num + 1 = u /\ DeleteAt(u, k)
  BY DEF SegInv, WriteKey
<1>3. PICK k \in Nat : upd_num + 1 = u /\ DeleteAt(u, k)
  BY <1>2
<1>4. rowcnt(cmd) \in Nat /\ minrow(cmd, u) \in Nat
  BY <1>1, PairTyped
<1>5. /\ UNCHANGED <<cmd, pc, upd_num, line>> /\ pc = "deletes" /\ Singly
      /\ left > 0 /\ i' = i + 1 /\ left' = left - 1
  BY DEF WriteKey, Singly
<1>6. k + 1 \in 0..rowcnt(cmd) /\ left' = rowcnt(cmd) - (k + 1) /\ i' = minrow(cmd, u) + (k + 1)
  BY <1>3, <1>4, <1>5 DEF DeleteAt
<1>7. KeyGoes(u, k)
  BY <1>1, <1>3, KeyPlaced
<1>8. PICK seg, e : /\ seg = delete_segment' /\ e = OldKeys(cmd, u)[k]
                    /\ disk' = disk \cup {<< <<"delete", u, seg>>, e>>}
  BY <1>7 DEF KeyGoes
<1>9. /\ \A v : v # u => InsertsOf(v)' = InsertsOf(v) /\ DeletesOf(v)' = DeletesOf(v)
      /\ DeletesOf(u)' = DeletesOf(u) \cup {<< <<"delete", u, seg>>, e>>}
      /\ InsertsOf(u)' = InsertsOf(u)
  <2>1. disk' = disk \cup {<< <<"delete", u, seg>>, e>>}
    BY <1>8
  <2> QED
    BY <2>1, DeleteAdded
<1>10. Ahead(u + 1)'
  BY <1>3, <1>8, AheadKept DEF DeleteAt
<1>11. Done' /\ Statics'
  <2>1. Done'
    BY <1>1, <1>3, <1>5, <1>9, DoneKept
  <2> QED
    BY <1>7, <2>1 DEF KeyGoes
<1>12. DeletesAre(u, k + 1)'
  <2>1. DeletesOf(u) = Placed("delete", u, rowcnt(cmd), cmd.delete_segments, OldKeys(cmd, u), k)
    BY <1>3, <1>5 DEF DeleteAt, DeletesAre
  <2>2. <<"delete", u, seg>> = FileOf("delete", u, cmd.delete_segments, PartOf(rowcnt(cmd), Parts(cmd.delete_segments), k))
    BY <1>7, <1>8 DEF KeyGoes
  <2>3. DeletesOf(u)' = Placed("delete", u, rowcnt(cmd), cmd.delete_segments, OldKeys(cmd, u), k + 1)
    BY <1>8, <1>9, <2>1, <2>2, PlacedNext
  <2> QED
    BY <1>5, <2>3 DEF DeletesAre
<1>13. InsertsAre(u, rowcnt(cmd))'
  BY <1>3, <1>5, <1>9 DEF InsertsAre, DeleteAt
<1>14. DeleteAt(u, k + 1)'
  <2>1. ~Ranges'
    BY <1>5 DEF Singly, Ranges
  <2>2. drange'.last_num = u /\ line'.last_mode % PAIRS <= u
    BY <1>3, <1>5, <1>7 DEF DeleteAt, KeyGoes
  <2> QED
    BY <1>5, <1>6, <1>7, <1>10, <1>12, <1>13, <2>1, <2>2 DEF DeleteAt, KeyGoes
<1>15. (\E w \in Nat \ {0} : \E l \in Nat : upd_num + 1 = w /\ DeleteAt(w, l))'
  <2>1. k + 1 \in Nat /\ upd_num' + 1 = u
    BY <1>3, <1>5
  <2> QED
    BY <1>14, <2>1
<1> QED
  BY <1>5, <1>11, <1>15 DEF SegInv

LEMMA SegStep == UInv /\ SegInv /\ [UNext]_uvars => SegInv'
BY SegStartUpdates, SegBeginPair, SegInsertRow, SegInsertsDone, SegExtendRange, SegWriteRange, SegWriteKey,
   SegDeletesDone, SegExit, SegStutter DEF UNext

(* The division of the rows into files, and the ranges of keys, are kept   *)
(* by every step of the process.                                           *)
THEOREM SegmentsInvariant == LoadSpec => [](UInv /\ SegInv)
<1>1. main /\ UInv => SegInv
  <2>1. main => UIdle \/ UInit
    BY DEF main
  <2>2. UInv => UTypeOK
    BY DEF UInv
  <2> QED
    BY <2>1, <2>2, SegStart
<1>2. UInv /\ SegInv /\ [LoadNext]_loadvars => SegInv'
  BY UpdateSteps, SegStep
<1> QED
  BY <1>1, <1>2, LoadInvariant, PTL DEF LoadSpec

(* BUGS, problems 54 and 60: whatever the base, the scale, the refresh     *)
(* percentage, -i and -d are, and whatever pair a run begins with, gen_tbl *)
(* and pr_drange write each row of a pair once, use every segment (or one  *)
(* for each row), and no segment has more than one row more than another.  *)
THEOREM SegmentsAreEven == LoadSpec => []SegmentsEven
<1>1. UInv /\ SegInv => SegmentsEven
  <2> SUFFICES ASSUME UInv, SegInv, NEW u \in Finished
               PROVE  /\ Split(InsertsOf(u), cmd.insert_segments)
                      /\ (~cmd.gen_rng /\ ~cmd.gen_sql) => Split(DeletesOf(u), cmd.delete_segments)
    BY DEF SegmentsEven
  <2>1. cmd \in Commands /\ upd_num \in Nat /\ PairDone(u)
    BY DEF UInv, UTypeOK, SegInv, Done
  <2>2. u \in Nat \ {0} /\ rowcnt(cmd) \in Nat /\ cmd.insert_segments \in Nat /\ cmd.delete_segments \in Nat
    BY <2>1, FinishedTyped, CountsTyped, CommandTyped
  <2>3. Split(InsertsOf(u), cmd.insert_segments)
    <3>1. \A j, k \in 0..(rowcnt(cmd) - 1) : NewKeys(cmd, u)[j] = NewKeys(cmd, u)[k] => j = k
      BY <2>1, <2>2, NewKeysDiffer
    <3>2. Split(Placed("lineorder", u, rowcnt(cmd), cmd.insert_segments, NewKeys(cmd, u), rowcnt(cmd)), cmd.insert_segments)
      BY <2>2, <3>1, PlacedSplit
    <3> QED
      BY <2>1, <3>2 DEF PairDone, InsertsAre
  <2>4. ASSUME Singly
        PROVE  Split(DeletesOf(u), cmd.delete_segments)
    <3>1. \A j, k \in 0..(rowcnt(cmd) - 1) : OldKeys(cmd, u)[j] = OldKeys(cmd, u)[k] => j = k
      BY <2>1, <2>2, OldKeysDiffer
    <3>2. Split(Placed("delete", u, rowcnt(cmd), cmd.delete_segments, OldKeys(cmd, u), rowcnt(cmd)), cmd.delete_segments)
      BY <2>2, <3>1, PlacedSplit
    <3> QED
      BY <2>1, <2>4, <3>2 DEF PairDone, DeletesAre
  <2> QED
    BY <2>3, <2>4 DEF Singly
<1> QED
  BY <1>1, SegmentsInvariant, PTL

(* The keys of the first cycle: at every scale below 1000 and whatever the *)
(* other options are, the single keys or the ranges that pr_drange wrote   *)
(* for a pair of the first cycle are the keys of exactly the orders of the *)
(* table that are the rows of the pair, however the keys fall into runs.   *)
THEOREM DeletesAreLoaded ==
  ASSUME SmallScales
  PROVE  LoadSpec => []DeletesLoaded
<1>1. UInv /\ SegInv => DeletesLoaded
  <2> SUFFICES ASSUME UInv, SegInv, NEW u \in Finished, u <= cycle(cmd), ~cmd.gen_sql
               PROVE  /\ Covered(u) = {insert_key(cmd, n, 0) : n \in PairRows(u)}
                      /\ PairRows(u) \subseteq 1..loaded(cmd)
    BY DEF DeletesLoaded, Covered
  <2> DEFINE R == rowcnt(cmd)
             a == minrow(cmd, u)
  <2>1. cmd \in Commands /\ upd_num \in Nat /\ PairDone(u) /\ cmd.scale < MAX_32B_SCALE
    BY DEF UInv, UTypeOK, SegInv, Done, SmallScales
  <2>2. u \in Nat \ {0} /\ R \in Nat /\ loaded(cmd) \in Nat /\ a \in Nat \ {0} /\ a = (u - 1) * R + 1
    BY <2>1, FinishedTyped, CountsTyped, PairTyped
  <2>3. PairRows(u) = a..(a + R - 1)
    BY DEF PairRows
  <2>4. Covered(u) = OldSet(cmd, u, R)
    <3>1. CASE cmd.gen_rng
      BY <2>1, <3>1 DEF PairDone, Ranges
    <3>2. CASE ~cmd.gen_rng
      <4>1. DeletesOf(u) = Placed("delete", u, R, cmd.delete_segments, OldKeys(cmd, u), R)
        BY <2>1, <3>2 DEF PairDone, Singly, DeletesAre
      <4>2. \A j \in 0..(R - 1) : OldKeys(cmd, u)[j] = <<OldKey(cmd, u, j), OldKey(cmd, u, j)>>
        BY DEF OldKeys
      <4>3. \A j \in 0..(R - 1) : OldKey(cmd, u, j)..OldKey(cmd, u, j) = {OldKey(cmd, u, j)}
        <5> SUFFICES ASSUME NEW j \in 0..(R - 1)
                     PROVE  OldKey(cmd, u, j)..OldKey(cmd, u, j) = {OldKey(cmd, u, j)}
          OBVIOUS
        <5>1. OldKey(cmd, u, j) \in Int
          BY <2>1, <2>2, PairTyped
        <5> QED
          BY <5>1
      <4>4. ASSUME NEW x \in DeletesOf(u)
            PROVE  \E j \in 0..(R - 1) : x[2][1]..x[2][2] = {OldKey(cmd, u, j)}
        <5>1. PICK j \in 0..(R - 1) : x = <<FileOf("delete", u, cmd.delete_segments, PartOf(R, Parts(cmd.delete_segments), j)), OldKeys(cmd, u)[j]>>
          BY <4>1 DEF Placed
        <5>2. x[2] = <<OldKey(cmd, u, j), OldKey(cmd, u, j)>>
          BY <4>2, <5>1
        <5> QED
          BY <4>3, <5>2
      <4>5. ASSUME NEW j \in 0..(R - 1)
            PROVE  \E x \in DeletesOf(u) : x[2][1]..x[2][2] = {OldKey(cmd, u, j)}
        <5> DEFINE x == <<FileOf("delete", u, cmd.delete_segments, PartOf(R, Parts(cmd.delete_segments), j)), OldKeys(cmd, u)[j]>>
        <5>1. x \in DeletesOf(u)
          BY <4>1 DEF Placed
        <5>2. x[2] = <<OldKey(cmd, u, j), OldKey(cmd, u, j)>>
          BY <4>2
        <5> HIDE DEF x
        <5>3. x[2][1]..x[2][2] = {OldKey(cmd, u, j)}
          BY <4>3, <5>2
        <5> QED
          BY <5>1, <5>3
      <4> QED
        BY <4>4, <4>5 DEF Covered, OldSet
    <3> QED
      BY <3>1, <3>2
  <2>5. OldSet(cmd, u, R) = {insert_key(cmd, n, 0) : n \in a..(a + R - 1)}
    <3>1. ASSUME NEW j \in 0..(R - 1)
          PROVE  a + j \in a..(a + R - 1) /\ OldKey(cmd, u, j) = insert_key(cmd, a + j, 0)
      <4>1. j \in Nat /\ a + j \in a..(a + R - 1)
        BY <2>2
      <4> QED
        BY <2>1, <2>2, <4>1, OldKeysLoaded
    <3>2. ASSUME NEW n \in a..(a + R - 1)
          PROVE  n - a \in 0..(R - 1) /\ OldKey(cmd, u, n - a) = insert_key(cmd, n, 0)
      <4>1. n - a \in 0..(R - 1) /\ a + (n - a) = n
        BY <2>2
      <4> QED
        BY <3>1, <4>1
    <3> HIDE DEF a, R
    <3> QED
      BY <3>1, <3>2 DEF OldSet
  <2>6. a + R - 1 <= loaded(cmd)
    <3>1. u * R <= loaded(cmd)
      BY <2>1, <2>2, FirstCycle
    <3>2. u * R = (u - 1) * R + R /\ (u - 1) * R \in Nat
      BY <2>2
    <3> QED
      BY <2>2, <3>1, <3>2
  <2>7. a..(a + R - 1) \subseteq 1..loaded(cmd)
    BY <2>2, <2>6
  <2> QED
    BY <2>3, <2>4, <2>5, <2>7
<1> QED
  BY <1>1, SegmentsInvariant, PTL
=============================================================================
