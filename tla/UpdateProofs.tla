---------------------------- MODULE UpdateProofs ----------------------------
(***************************************************************************)
(* Order keys of updates are new, for every base, scale below              *)
(* MAX_32B_SCALE, refresh percentage, number of pairs and of segments.     *)
(***************************************************************************)
EXTENDS Update, TLAPS

(* What is assumed of the options. *)
LEMMA CommandTyped ==
  ASSUME NEW c \in Commands
  PROVE  /\ LineBase \in Nat \ {0} /\ FULL \in Nat \ {0} /\ PAIRS \in Nat \ {0}
         /\ c.scale \in Nat \ {0} /\ c.step \in Nat \cup {-1}
         /\ c.refresh \in Nat \ {0} /\ c.refresh <= FULL
         /\ c.updates \in Nat /\ c.updates < PAIRS
         /\ c.insert_segments \in Nat /\ c.delete_segments \in Nat
         /\ c.gen_rng \in BOOLEAN /\ c.gen_sql \in BOOLEAN
<1>1. FULL \in Nat \ {0} /\ PAIRS \in Nat \ {0}
  BY DEF FULL, PAIRS
<1> QED
  BY <1>1, UpdateAssumption

-----------------------------------------------------------------------------
(* Arithmetic. *)

LEMMA DivMod ==
  ASSUME NEW a \in Nat, NEW n \in Nat \ {0}
  PROVE  /\ a \div n \in Nat /\ a % n \in 0..(n - 1)
         /\ a = (a \div n) * n + (a % n)
BY SMT

LEMMA TimesMonotone ==
  ASSUME NEW r \in Nat, NEW a \in Nat, NEW b \in Nat, a <= b
  PROVE  r * a <= r * b
<1>1. PICK d \in Nat : b = a + d
  BY SMT
<1>2. r * b = r * a + r * d
  BY <1>1
<1>3. r * d \in Nat
  OBVIOUS
<1> QED
  BY <1>2, <1>3

LEMMA ProductTyped ==
  ASSUME NEW a \in Nat, NEW b \in Nat
  PROVE  a * b \in Nat
OBVIOUS

(* The rows of the table and of a pair, and the pairs of a cycle. *)
LEMMA CountsTyped ==
  ASSUME NEW c \in Commands
  PROVE  /\ loaded(c) \in Nat \ {0} /\ rowcnt(c) \in Nat
         /\ cycle(c) \in Nat \ {0}
<1>1. /\ c.scale \in Nat \ {0} /\ c.refresh \in Nat \ {0} /\ c.refresh <= FULL /\ FULL \in Nat \ {0}
      /\ LineBase \in Nat \ {0}
  BY CommandTyped
<1>2. LineBase * c.scale \in Nat \ {0}
  BY <1>1
<1>3. LineBase * c.scale * c.refresh \in Nat
  <2> QED
    BY <1>1, <1>2, ProductTyped
<1>4. rowcnt(c) \in Nat
  BY <1>1, <1>3, DivMod DEF rowcnt
<1>5. cycle(c) \in Nat \ {0}
  <2> DEFINE r == c.refresh
  <2>1. r \in Nat \ {0} /\ r <= FULL /\ FULL \in Nat
    BY <1>1
  <2> HIDE DEF r
  <2>2. FULL \div r \in Nat /\ FULL % r \in 0..(r - 1) /\ FULL = (FULL \div r) * r + (FULL % r)
    BY <2>1, DivMod
  <2>3. FULL \div r # 0
    BY <2>1, <2>2
  <2> QED
    BY <2>2, <2>3 DEF cycle, r
<1> QED
  BY <1>2, <1>4, <1>5 DEF loaded

(* The first row of a pair, and that the next pair starts where it ends. *)
LEMMA PairStarts ==
  ASSUME NEW c \in Commands, NEW u \in Nat
  PROVE  /\ minrow(c, u + 1) \in Nat \ {0}
         /\ minrow(c, u + 1) = u * rowcnt(c) + 1
         /\ minrow(c, u + 2) = minrow(c, u + 1) + rowcnt(c)
<1> DEFINE r == rowcnt(c)
<1>1. r \in Nat
  BY CountsTyped
<1> HIDE DEF r
<1>2. u * r \in Nat /\ (u + 1) * r = u * r + r
  BY <1>1
<1>3. u + 1 - 1 = u /\ u + 2 - 1 = u + 1
  OBVIOUS
<1> QED
  BY <1>1, <1>2, <1>3 DEF minrow, r

-----------------------------------------------------------------------------
(* Keys. *)

(* A row and its generation can be read off the key up to multiples of     *)
(* four in the generation.                                                 *)
LEMMA SparseTyped ==
  ASSUME NEW row \in Nat, NEW seq \in Nat
  PROVE  /\ ez_sparse(row, seq) \in Nat
         /\ \A scale : mk_sparse(row, seq, scale) \in Nat
BY DEF mk_sparse, ez_sparse, hd_sparse

(* A later row of the same or a later generation has a larger key. *)
LEMMA SparseMonotone ==
  ASSUME NEW row \in Nat, NEW later \in Nat, row < later,
         NEW seq \in Nat, NEW next \in Nat, seq <= next
  PROVE  ez_sparse(row, seq) < ez_sparse(later, next)
BY DEF ez_sparse

(* Two rows that share a key are eight rows apart for every four           *)
(* generations.                                                            *)
LEMMA SparseShared ==
  ASSUME NEW row \in Nat, NEW seq \in Nat, NEW old \in Nat,
         ez_sparse(row, seq) = ez_sparse(old, 0)
  PROVE  \E k \in Nat : seq = 4 * k /\ old = row + 8 * k
<1> DEFINE q == row \div 8
           b == row % 8
           p == old \div 8
           a == old % 8
<1>1. /\ q \in Nat /\ b \in 0..7 /\ row = 8 * q + b
      /\ p \in Nat /\ a \in 0..7 /\ old = 8 * p + a
  OBVIOUS
<1>2. (q * 4 + seq) * 8 + b = (p * 4 + 0) * 8 + a
  BY DEF ez_sparse
<1> HIDE DEF q, b, p, a
<1>3. q * 4 + seq = p * 4 /\ a = b
  BY <1>1, <1>2
<1>4. p - q \in Nat /\ seq = 4 * (p - q) /\ old = row + 8 * (p - q)
  BY <1>1, <1>3
<1> QED
  BY <1>4

(* The pairs of one cycle go through the whole table but for a rest. *)
LEMMA CycleCovers ==
  ASSUME NEW c \in Commands
  PROVE  loaded(c) < (cycle(c) + 1) * (rowcnt(c) + 1)
<1> DEFINE N == LineBase * c.scale
           r == c.refresh
           P == FULL \div r
           R == (N * r) \div FULL
<1>1. N \in Nat \ {0} /\ r \in Nat \ {0} /\ FULL \in Nat \ {0}
  <2>1. loaded(c) \in Nat \ {0}
    BY CountsTyped
  <2> QED
    BY <2>1, CommandTyped DEF loaded
<1>0. loaded(c) = N /\ cycle(c) = P /\ rowcnt(c) = R
  BY DEF loaded, cycle, rowcnt
<1> HIDE DEF N, r
<1>2. P \in Nat /\ FULL % r \in 0..(r - 1) /\ FULL = P * r + (FULL % r)
  BY <1>1, DivMod
<1>3. N * r \in Nat
  BY <1>1
<1>4. R \in Nat /\ N * r < (R + 1) * FULL
  <2> DEFINE m == N * r
  <2>1. m \in Nat
    BY <1>3
  <2> HIDE DEF m
  <2>2. m \div FULL \in Nat /\ m % FULL \in 0..(FULL - 1) /\ m = (m \div FULL) * FULL + (m % FULL)
    BY <1>1, <2>1, DivMod
  <2>3. (m \div FULL + 1) * FULL = (m \div FULL) * FULL + FULL
    BY <1>1, <2>2
  <2>4. m < (m \div FULL + 1) * FULL
    BY <1>1, <2>1, <2>2, <2>3
  <2> QED
    BY <2>2, <2>4 DEF m
<1> HIDE DEF P, R
<1>5. (P + 1) * r = P * r + r /\ P * r \in Nat
  BY <1>1, <1>2
<1>6. FULL < (P + 1) * r /\ (P + 1) * r \in Nat
  BY <1>1, <1>2, <1>5
<1>7. N * FULL <= N * ((P + 1) * r)
  BY <1>1, <1>6, TimesMonotone
<1>8. N * ((P + 1) * r) = (P + 1) * (N * r)
  BY <1>1, <1>2
<1>9. N * r + 1 <= (R + 1) * FULL /\ (R + 1) * FULL \in Nat /\ N * r + 1 \in Nat
  BY <1>1, <1>3, <1>4
<1>10. (P + 1) * (N * r + 1) <= (P + 1) * ((R + 1) * FULL)
  BY <1>2, <1>9, TimesMonotone
<1>11. (P + 1) * (N * r + 1) = (P + 1) * (N * r) + (P + 1)
  BY <1>2, <1>3
<1>12. (P + 1) * ((R + 1) * FULL) = ((P + 1) * (R + 1)) * FULL
  BY <1>1, <1>2, <1>4
<1>13. (P + 1) * (R + 1) \in Nat /\ (P + 1) * (N * r) \in Nat
  BY <1>2, <1>3, <1>4
<1>14. N * FULL < ((P + 1) * (R + 1)) * FULL
  BY <1>1, <1>2, <1>7, <1>8, <1>10, <1>11, <1>12, <1>13
<1>15. N < (P + 1) * (R + 1)
  BY <1>1, <1>13, <1>14
<1> QED
  BY <1>0, <1>15

(* Whether a key is new: an order of pair u has not the key of an order of *)
(* the table.  A key could be shared after three cycles only, and the rows *)
(* are past the end of the table then.                                     *)
LEMMA InsertedKeyNew ==
  ASSUME NEW c \in Commands, NEW u \in Nat \ {0}, NEW row \in Nat,
         minrow(c, u) <= row, row < minrow(c, u) + rowcnt(c),
         NEW old \in 1..loaded(c), c.scale < MAX_32B_SCALE
  PROVE  insert_key(c, row, u) # insert_key(c, old, 0)
<1> DEFINE P == cycle(c)
           R == rowcnt(c)
           N == loaded(c)
           g == u \div P
<1>1. P \in Nat \ {0} /\ R \in Nat /\ N \in Nat
  BY CountsTyped
<1>2. N < (P + 1) * (R + 1)
  BY CycleCovers
<1>3. minrow(c, u) = (u - 1) * R + 1
  BY DEF minrow
<1>4. insert_key(c, row, u) = ez_sparse(row, 1 + g) /\ insert_key(c, old, 0) = ez_sparse(old, 0)
  BY DEF insert_key, mk_sparse
<1>5. old \in Nat /\ old <= N
  BY <1>1
<1> HIDE DEF P, R, N
<1>6. g \in Nat /\ 1 + g \in Nat /\ u = g * P + (u % P) /\ u % P \in Nat
  <2>1. u \in Nat
    OBVIOUS
  <2>2. u \div P \in Nat /\ u % P \in 0..(P - 1) /\ u = (u \div P) * P + (u % P)
    BY <1>1, <2>1, DivMod
  <2> QED
    BY <1>1, <2>2
<1> HIDE DEF g
<1>7. SUFFICES ASSUME ez_sparse(row, 1 + g) = ez_sparse(old, 0)
               PROVE  FALSE
  BY <1>4
<1>8. PICK k \in Nat : 1 + g = 4 * k /\ old = row + 8 * k
  <2> DEFINE seq == 1 + g
  <2>1. seq \in Nat /\ ez_sparse(row, seq) = ez_sparse(old, 0)
    BY <1>6, <1>7
  <2> HIDE DEF seq
  <2>2. \E k \in Nat : seq = 4 * k /\ old = row + 8 * k
    BY <1>5, <2>1, SparseShared
  <2> QED
    BY <2>2 DEF seq
<1>9. k >= 1 /\ g >= 3
  BY <1>6, <1>8
<1>10. u >= 3 * P
  <2>1. P * 3 <= P * g
    BY <1>1, <1>6, <1>9, TimesMonotone
  <2>2. P * g = g * P /\ g * P \in Nat
    BY <1>1, <1>6
  <2> QED
    BY <1>1, <1>6, <2>1, <2>2
<1>11. R >= 1
  <2>1. (u - 1) * R \in Nat
    BY <1>1
  <2> QED
    BY <1>1, <1>3, <2>1 DEF R
<1>12. R * (3 * P - 1) <= R * (u - 1)
  <2>1. 3 * P - 1 \in Nat /\ u - 1 \in Nat /\ 3 * P - 1 <= u - 1
    BY <1>1, <1>10
  <2> QED
    BY <1>1, <2>1, TimesMonotone
<1>13. R * (u - 1) = (u - 1) * R /\ R * (u - 1) \in Nat
  BY <1>1
<1>14. R * (3 * P - 1) + 9 <= row + 8
  <2>1. R * (3 * P - 1) \in Nat
    BY <1>1
  <2> QED
    BY <1>1, <1>3, <1>12, <1>13, <2>1
<1>15. row + 8 <= old
  BY <1>8, <1>9
<1>16. R * (3 * P - 1) + 9 <= N
  <2>1. R * (3 * P - 1) \in Nat
    BY <1>1
  <2> QED
    BY <1>1, <1>5, <1>14, <1>15, <2>1
<1>17. PICK p \in Nat, r \in Nat : P = p + 1 /\ R = r + 1
  BY <1>1, <1>11
<1>18. R * (3 * P - 1) = 3 * (r * p) + 2 * r + 3 * p + 2 /\ (P + 1) * (R + 1) = r * p + 2 * p + 2 * r + 4
  BY <1>17
<1>19. r * p \in Nat
  BY <1>17
<1> QED
  BY <1>1, <1>2, <1>16, <1>17, <1>18, <1>19

-----------------------------------------------------------------------------
(* The inductive invariant. *)

Below(b) == \A x \in Inserted : x[2][2] < b

(* Where the rows are while a pair is generated, and which files are open. *)
PairInv ==
  /\ pc \in {"idle", "start"} => disk = {}
  /\ pc \in {"inserts", "deletes"} => upd_num < cmd.updates
  /\ pc = "inserts" =>
       /\ mode % PAIRS = upd_num + 1
       /\ minrow(cmd, upd_num + 1) <= i /\ i + left = minrow(cmd, upd_num + 1) + rowcnt(cmd)
       /\ Below(i)
  /\ pc = "deletes" => drange.last_num = upd_num + 1 /\ Below(minrow(cmd, upd_num + 1) + rowcnt(cmd))
  /\ pc = "pairs" => Below(minrow(cmd, upd_num + 1))
  /\ line.last_mode # 0 => line.file[1] = "lineorder" /\ line.file[2] = line.last_mode % PAIRS
  /\ drange.last_num # 0 => drange.file[1] = "delete"

(* An entry has its row in its pair, and the key of its row. *)
Keyed(x) ==
  /\ x[1][2] \in 1..(upd_num + 1)
  /\ minrow(cmd, x[1][2]) <= x[2][2] /\ x[2][2] < minrow(cmd, x[1][2]) + rowcnt(cmd)
  /\ x[2][1] = insert_key(cmd, x[2][2], x[1][2])

(* Every row is inserted once, and the rows grow with the pairs. *)
KeysInv ==
  /\ \A x \in Inserted : Keyed(x)
  /\ \A x, y \in Inserted : x[2][2] = y[2][2] => x = y
  /\ \A x, y \in Inserted : x[2][2] < y[2][2] => x[1][2] <= y[1][2]

UInv == UTypeOK /\ PairInv /\ KeysInv

LEMMA EntryTyped ==
  ASSUME UTypeOK, NEW x \in Inserted
  PROVE  /\ x \in disk /\ x[1] \in {"lineorder", "delete"} \X Nat \X Nat /\ x[2] \in Int \X Int
         /\ x[1][1] = "lineorder" /\ x[1][2] \in Nat /\ x[2][1] \in Int /\ x[2][2] \in Int
<1>1. x \in disk /\ x[1][1] = "lineorder"
  BY DEF Inserted
<1>2. x \in ({"lineorder", "delete"} \X Nat \X Nat) \X (Int \X Int)
  BY <1>1 DEF UTypeOK
<1> QED
  BY <1>1, <1>2

(* The invariant gives the property. *)
LEMMA KeysInvFresh ==
  ASSUME UTypeOK, KeysInv, cmd.scale < MAX_32B_SCALE
  PROVE  FreshKeys
<1>1. cmd \in Commands /\ upd_num \in Nat
  BY DEF UTypeOK
<1>2. cycle(cmd) \in Nat \ {0} /\ loaded(cmd) \in Nat /\ rowcnt(cmd) \in Nat
  BY <1>1, CountsTyped
<1>3. \A x \in Inserted : /\ x[1][2] \in Nat \ {0} /\ x[2][2] \in Nat \ {0}
                           /\ x[2][1] = ez_sparse(x[2][2], 1 + x[1][2] \div cycle(cmd))
                           /\ 1 + x[1][2] \div cycle(cmd) \in Nat
  <2> SUFFICES ASSUME NEW x \in Inserted
               PROVE  /\ x[1][2] \in Nat \ {0} /\ x[2][2] \in Nat \ {0}
                      /\ x[2][1] = ez_sparse(x[2][2], 1 + x[1][2] \div cycle(cmd))
                      /\ 1 + x[1][2] \div cycle(cmd) \in Nat
    OBVIOUS
  <2>1. Keyed(x) /\ x[2][2] \in Int /\ x[1][2] \in Nat
    BY EntryTyped DEF KeysInv
  <2>2. x[1][2] # 0
    BY <1>1, <2>1 DEF Keyed
  <2>3. minrow(cmd, x[1][2]) \in Nat \ {0}
    <3>1. x[1][2] - 1 \in Nat /\ (x[1][2] - 1) + 1 = x[1][2]
      BY <2>1, <2>2
    <3> QED
      BY <1>1, <3>1, PairStarts
  <2>4. x[2][2] \in Nat \ {0}
    BY <2>1, <2>3 DEF Keyed
  <2>5. x[1][2] \div cycle(cmd) \in Nat
    BY <1>2, <2>1, DivMod
  <2> QED
    BY <2>1, <2>2, <2>4, <2>5 DEF Keyed, insert_key, mk_sparse
<1>4. ASSUME NEW x \in Inserted, NEW y \in Inserted, x[2][2] < y[2][2]
      PROVE  x[2][1] < y[2][1]
  <2>1. x[1][2] <= y[1][2]
    BY <1>4 DEF KeysInv
  <2> DEFINE P == cycle(cmd)
             a == x[1][2]
             b == y[1][2]
  <2>2. P \in Nat \ {0} /\ a \in Nat /\ b \in Nat /\ a <= b
    BY <1>2, <1>3, <2>1
  <2> HIDE DEF P, a, b
  <2>3. a \div P <= b \div P
    <3> DEFINE q == a \div P
               t == b \div P
    <3>1. /\ q \in Nat /\ a % P \in 0..(P - 1) /\ a = q * P + (a % P)
          /\ t \in Nat /\ b % P \in 0..(P - 1) /\ b = t * P + (b % P)
      BY <2>2, DivMod
    <3> HIDE DEF q, t
    <3>2. ASSUME t + 1 <= q
          PROVE  FALSE
      <4>1. P * (t + 1) <= P * q
        BY <2>2, <3>1, <3>2, TimesMonotone
      <4>2. P * (t + 1) = t * P + P /\ P * q = q * P /\ t * P \in Nat /\ q * P \in Nat
        BY <2>2, <3>1
      <4> QED
        BY <2>2, <3>1, <4>1, <4>2
    <3> QED
      BY <3>1, <3>2 DEF q, t
  <2>4. a \div P \in Nat /\ b \div P \in Nat
    BY <2>2, DivMod
  <2>5. 1 + a \div P \in Nat /\ 1 + b \div P \in Nat /\ 1 + a \div P <= 1 + b \div P
    BY <2>3, <2>4
  <2>6. ez_sparse(x[2][2], 1 + a \div P) < ez_sparse(y[2][2], 1 + b \div P)
    BY <1>3, <1>4, <2>5, SparseMonotone
  <2> QED
    BY <1>3, <2>6 DEF P, a, b
<1>5. ASSUME NEW x \in Inserted, NEW y \in Inserted, x[2][1] = y[2][1]
      PROVE  x = y
  <2>1. x[2][1] \in Int /\ y[2][1] \in Int /\ x[2][2] \in Int /\ y[2][2] \in Int
    BY EntryTyped
  <2>2. ~(x[2][2] < y[2][2]) /\ ~(y[2][2] < x[2][2])
    BY <1>4, <1>5, <2>1
  <2>3. x[2][2] = y[2][2]
    BY <2>1, <2>2
  <2> QED
    BY <2>3 DEF KeysInv
<1>6. ASSUME NEW x \in Inserted, x[2][1] \in LoadedKeys
      PROVE  FALSE
  <2>1. PICK old \in 1..loaded(cmd) : x[2][1] = insert_key(cmd, old, 0)
    BY <1>6 DEF LoadedKeys
  <2>2. Keyed(x) /\ x[1][2] \in Nat \ {0} /\ x[2][2] \in Nat
    BY <1>3 DEF KeysInv
  <2>3. insert_key(cmd, x[2][2], x[1][2]) # insert_key(cmd, old, 0)
    BY <1>1, <2>2, InsertedKeyNew DEF Keyed
  <2> QED
    BY <2>1, <2>2, <2>3 DEF Keyed
<1> QED
  BY <1>5, <1>6 DEF FreshKeys

-----------------------------------------------------------------------------
(* Helpers of the steps. *)

LEMMA ModShift ==
  ASSUME NEW m \in Nat
  PROVE  /\ m + PAIRS \in Nat /\ (m + PAIRS) % PAIRS = m % PAIRS
         /\ m % PAIRS \in Nat /\ (m < PAIRS => m % PAIRS = m)
BY DEF PAIRS

LEMMA InsertKeyTyped ==
  ASSUME NEW c \in Commands, NEW row \in Nat, NEW u \in Nat
  PROVE  insert_key(c, row, u) \in Nat
<1>1. u \div cycle(c) \in Nat
  BY CountsTyped, DivMod
<1>2. 0 \in Nat /\ 1 + u \div cycle(c) \in Nat
  BY <1>1
<1> QED
  BY <1>2, SparseTyped DEF insert_key

LEMMA DeleteKeyTyped ==
  ASSUME NEW c \in Commands, NEW row \in Nat, NEW u \in Nat
  PROVE  delete_key(c, row, u + 1) \in Int
<1> DEFINE g == u \div cycle(c)
<1>1. u + 1 - 1 = u
  OBVIOUS
<1>2. g \in Nat
  BY CountsTyped, DivMod
<1> HIDE DEF g
<1>3. MK_SPARSE(row, g) \in Int
  BY <1>2 DEF MK_SPARSE
<1> QED
  BY <1>1, <1>3 DEF delete_key, g

LEMMA SkippedTyped ==
  ASSUME NEW c \in Commands, NEW g \in Int, NEW s \in Streams
  PROVE  set_state(c, g)[s] \in Int /\ skip_prior(c)[s] \in Int
<1>1. \A child \in {0, 1}, n \in Int : sd_order(n)[s] \in Int /\ sd_line(child, n)[s] \in Int
  BY DEF sd_order, sd_line, S!O_LCNT_MAX
<1>2. loaded(c) \in Int /\ rowcnt(c) \in Int /\ c.step \in Int
  BY CountsTyped, CommandTyped
<1>3. set_state(c, g)[s] \in Int
  BY <1>1, <1>2 DEF set_state
<1>4. rowcnt(c) * (c.step - 1) \in Int
  BY <1>2
<1>5. skip_prior(c)[s] \in Int
  BY <1>1, <1>4 DEF skip_prior
<1> QED
  BY <1>3, <1>5

LEMMA TakesTyped ==
  ASSUME NEW usage \in S!mk_order, NEW s \in Streams
  PROVE  S!RowTakes(S!LINE, usage, s) \in Int
<1>1. s \in S!Stream
  BY DEF Streams, S!Stream
<1>2. usage[s] \in Int
  BY <1>1 DEF S!mk_order, S!O_LCNT_MAX
<1>3. S!Boundary(s) \in Int
  BY DEF S!Boundary, S!O_LCNT_MAX, S!MAX_COLOR
<1>4. S!row_stop(S!LINE, usage)[s] \in Int
  BY <1>1, <1>2, <1>3 DEF S!row_stop
<1>5. S!Uncounted(S!LINE)[s] \in Int
  BY <1>1 DEF S!Uncounted, S!Once, S!LINE, S!PART, S!SUPP, S!CUST
<1> QED
  BY <1>2, <1>4, <1>5 DEF S!RowTakes

(* Entries that leave the inserted ones alone keep the keys as they are. *)
LEMMA KeysKept ==
  ASSUME UTypeOK, KeysInv, cmd' = cmd, Inserted' = Inserted,
         upd_num' \in Nat, upd_num <= upd_num'
  PROVE  KeysInv'
<1>1. \A x \in Inserted : Keyed(x)'
  <2> SUFFICES ASSUME NEW x \in Inserted
               PROVE  Keyed(x)'
    OBVIOUS
  <2>1. Keyed(x) /\ upd_num \in Nat
    BY DEF KeysInv, UTypeOK
  <2>2. x[1][2] \in 1..(upd_num' + 1)
    BY <2>1 DEF Keyed
  <2> QED
    BY <2>1, <2>2 DEF Keyed, minrow, rowcnt, insert_key, cycle
<1> QED
  BY <1>1 DEF KeysInv

LEMMA DeleteEntry ==
  ASSUME NEW D, NEW f, NEW e, f[1] = "delete", D \subseteq disk,
         \A x \in disk : x[1] # f => x \in D, disk' = D \cup {<<f, e>>}
  PROVE  Inserted' = Inserted
<1>1. \A x \in disk : x[1][1] = "lineorder" => x \in D
  OBVIOUS
<1>2. <<f, e>>[1][1] # "lineorder"
  OBVIOUS
<1> QED
  BY <1>1, <1>2 DEF Inserted

-----------------------------------------------------------------------------
(* The invariant holds initially, and every step keeps it. *)

LEMMA UntouchedInv == cmd \in Commands /\ pc \in {"idle", "start"} /\ Untouched => UInv
<1> SUFFICES ASSUME cmd \in Commands, pc \in {"idle", "start"}, Untouched
             PROVE  UInv
  OBVIOUS
<1>1. Inserted = {}
  BY DEF Untouched, Inserted
<1>2. None \in {"none", "lineorder"} \X Nat \X Nat /\ None \in {"none", "delete"} \X Nat \X Nat
  BY DEF None
<1>3. UTypeOK
  BY <1>2 DEF Untouched, UTypeOK
<1>4. PairInv
  BY DEF Untouched, PairInv
<1>5. KeysInv
  BY <1>1 DEF KeysInv
<1> QED
  BY <1>3, <1>4, <1>5 DEF UInv

LEMMA StartStep == UInv /\ StartUpdates => UInv'
<1> SUFFICES ASSUME UInv, StartUpdates
             PROVE  UInv'
  OBVIOUS
<1>1. UTypeOK /\ PairInv /\ KeysInv
  BY DEF UInv
<1>2. disk' = {} /\ Inserted' = {} /\ cmd' = cmd /\ cmd \in Commands /\ pc' = "pairs"
  BY <1>1 DEF StartUpdates, PairInv, UTypeOK, Inserted, ufiles
<1>3. upd_num' \in Nat
  BY <1>2, CommandTyped DEF StartUpdates
<1>4. extra' \in Int
  BY UpdateAssumption DEF StartUpdates
<1>5. seeds' \in [Streams -> Int]
  <2>1. \A s \in Streams : seeds[s] \in Int
    BY <1>1 DEF UTypeOK
  <2>2. \A s \in Streams : set_state(cmd, extra')[s] \in Int /\ skip_prior(cmd)[s] \in Int
    BY <1>2, <1>4, SkippedTyped
  <2> QED
    BY <2>1, <2>2 DEF StartUpdates
<1>6. UTypeOK'
  BY <1>1, <1>2, <1>3, <1>4, <1>5 DEF StartUpdates, UTypeOK, ufiles
<1>7. PairInv'
  BY <1>1, <1>2 DEF StartUpdates, PairInv, Below, ufiles
<1>8. KeysInv'
  BY <1>2 DEF KeysInv
<1> QED
  BY <1>6, <1>7, <1>8 DEF UInv

LEMMA PairStep == UInv /\ BeginPair => UInv'
<1> SUFFICES ASSUME UInv, BeginPair
             PROVE  UInv'
  OBVIOUS
<1>1. UTypeOK /\ PairInv /\ KeysInv
  BY DEF UInv
<1>2. /\ cmd \in Commands /\ upd_num \in Nat /\ upd_num < cmd.updates
      /\ cmd.updates \in Nat /\ cmd.updates < PAIRS /\ PAIRS \in Nat /\ rowcnt(cmd) \in Nat
  BY <1>1, CommandTyped, CountsTyped DEF UTypeOK, BeginPair
<1>3. cmd' = cmd /\ disk' = disk /\ Inserted' = Inserted /\ upd_num' = upd_num
  BY DEF BeginPair, Inserted
<1>4. mode' = upd_num + 1 /\ mode' \in Nat /\ mode' % PAIRS = upd_num + 1
  <2>1. upd_num + 1 \in Nat /\ upd_num + 1 < PAIRS
    BY <1>2
  <2>2. (upd_num + 1) % PAIRS = upd_num + 1
    BY <2>1, ModShift
  <2> QED
    BY <2>1, <2>2 DEF BeginPair
<1>5. i' = minrow(cmd, upd_num + 1) /\ i' \in Nat /\ left' = rowcnt(cmd)
  BY <1>2, PairStarts DEF BeginPair
<1>6. UTypeOK'
  BY <1>1, <1>2, <1>4, <1>5 DEF BeginPair, UTypeOK, useeds
<1>7. PairInv'
  <2>1. Below(minrow(cmd, upd_num + 1))
    BY <1>1 DEF PairInv, BeginPair
  <2>2. Below(i)'
    BY <1>3, <1>5, <2>1 DEF Below
  <2>3. minrow(cmd, upd_num + 1)' = minrow(cmd, upd_num + 1) /\ rowcnt(cmd)' = rowcnt(cmd)
    BY <1>3 DEF minrow, rowcnt
  <2>4. pc' = "inserts" /\ line' = line /\ drange' = drange
    BY DEF BeginPair
  <2>5. i' <= i' /\ i' + left' = i' + rowcnt(cmd)
    BY <1>5
  <2> QED
    BY <1>1, <1>2, <1>3, <1>4, <1>5, <2>2, <2>3, <2>4, <2>5 DEF PairInv
<1>8. KeysInv'
  BY <1>1, <1>2, <1>3, KeysKept
<1> QED
  BY <1>6, <1>7, <1>8 DEF UInv

(* The new entry has a row above all others, so the keys stay in order. *)
LEMMA KeysGrow ==
  ASSUME UTypeOK, KeysInv, Below(i), upd_num \in Nat,
         cmd' = cmd, upd_num' = upd_num,
         NEW D, D \subseteq disk, NEW new, disk' = D \cup {new},
         new[1][1] = "lineorder", new[1][2] = upd_num + 1, new[2][2] = i,
         new[2][1] = insert_key(cmd, i, upd_num + 1),
         minrow(cmd, upd_num + 1) <= i, i < minrow(cmd, upd_num + 1) + rowcnt(cmd)
  PROVE  KeysInv' /\ \A x \in Inserted' : x[2][2] < i + 1
<1>1. \A x \in Inserted' : x = new \/ x \in Inserted
  BY DEF Inserted
<1>2. i \in Nat
  BY DEF UTypeOK
<1>3. \A x \in Inserted : /\ x[2][2] \in Int /\ x[2][2] < i /\ Keyed(x)
                           /\ x[1][2] \in 1..(upd_num + 1) /\ x[1][2] \in Nat
  BY EntryTyped DEF Below, KeysInv, Keyed
<1>4. \A x \in Inserted' : Keyed(x)'
  <2>1. Keyed(new)
    BY DEF Keyed
  <2> QED
    BY <1>1, <1>3, <2>1 DEF Keyed, minrow, rowcnt, insert_key, cycle
<1>5. ASSUME NEW x \in Inserted', NEW y \in Inserted', x[2][2] = y[2][2]
      PROVE  x = y
  BY <1>1, <1>2, <1>3, <1>5 DEF KeysInv
<1>6. ASSUME NEW x \in Inserted', NEW y \in Inserted', x[2][2] < y[2][2]
      PROVE  x[1][2] <= y[1][2]
  <2>1. CASE y = new
    BY <1>1, <1>2, <1>3, <2>1
  <2>2. CASE y # new
    <3>1. y \in Inserted /\ y[2][2] < i
      BY <1>1, <1>3, <2>2
    <3>2. x # new
      BY <1>2, <1>3, <1>6, <3>1
    <3> QED
      BY <1>1, <1>6, <3>1, <3>2 DEF KeysInv
  <2> QED
    BY <2>1, <2>2
<1>7. \A x \in Inserted' : x[2][2] < i + 1
  BY <1>1, <1>2, <1>3
<1> QED
  BY <1>4, <1>5, <1>6, <1>7 DEF KeysInv

LEMMA InsertStep == UInv /\ InsertRow => UInv'
<1> SUFFICES ASSUME UInv, InsertRow
             PROVE  UInv'
  OBVIOUS
<1>1. UTypeOK /\ PairInv /\ KeysInv
  BY DEF UInv
<1>2. /\ cmd \in Commands /\ upd_num \in Nat /\ mode \in Nat /\ segment \in Nat
      /\ i \in Nat /\ left \in Nat /\ left > 0 /\ pc = "inserts" /\ rows_this_segment \in Int
  BY <1>1 DEF UTypeOK, InsertRow
<1>3. /\ mode % PAIRS = upd_num + 1 /\ Below(i) /\ minrow(cmd, upd_num + 1) <= i
      /\ i + left = minrow(cmd, upd_num + 1) + rowcnt(cmd)
  BY <1>1, <1>2 DEF PairInv
<1>4. minrow(cmd, upd_num + 1) \in Nat /\ rowcnt(cmd) \in Nat
  BY <1>2, PairStarts, CountsTyped
<1>5. mode' \in Nat /\ mode' % PAIRS = upd_num + 1 /\ mode' # 0
  <2>1. mode' \in {mode, mode + PAIRS}
    BY DEF InsertRow
  <2>2. mode' \in Nat /\ mode' % PAIRS = upd_num + 1
    BY <1>2, <1>3, <2>1, ModShift
  <2>3. 0 % PAIRS = 0
    BY ModShift, CommandTyped, <1>2
  <2> QED
    BY <1>2, <2>2, <2>3
<1> DEFINE opens == mode' # line.last_mode
           seg == IF opens THEN NextSegment(cmd.insert_segments, segment) ELSE segment
           file == IF opens THEN insert_file(mode', seg) ELSE line.file
           D == IF opens THEN Emptied(file) ELSE disk
           new == <<file, <<insert_key(cmd, i, upd_num + 1), i>>>>
<1>6. /\ segment' = seg /\ line' = [last_mode |-> mode', file |-> file]
      /\ disk' = D \cup {new}
  BY <1>3 DEF InsertRow
<1>7. seg \in Nat
  BY <1>2 DEF NextSegment
<1>8. file \in {"lineorder"} \X Nat \X Nat /\ file[1] = "lineorder" /\ file[2] = upd_num + 1
  <2>1. CASE opens
    <3>1. file = <<"lineorder", upd_num + 1, seg>>
      BY <1>5, <2>1 DEF insert_file
    <3>2. upd_num + 1 \in Nat
      BY <1>2
    <3> HIDE DEF file, seg, opens
    <3> QED
      BY <1>7, <3>1, <3>2
  <2>2. CASE ~opens
    <3>1. file = line.file /\ line.last_mode = mode'
      BY <2>2
    <3>2. file \in {"none", "lineorder"} \X Nat \X Nat
      BY <1>1, <3>1 DEF UTypeOK
    <3>3. file[1] = "lineorder" /\ file[2] = mode' % PAIRS
      BY <1>1, <1>5, <3>1 DEF PairInv
    <3> QED
      BY <1>5, <3>2, <3>3
  <2> QED
    BY <2>1, <2>2
<1>9. D \subseteq disk
  BY DEF Emptied
<1>10. new \in ({"lineorder", "delete"} \X Nat \X Nat) \X (Int \X Int)
  <2>1. insert_key(cmd, i, upd_num + 1) \in Nat
    <3>1. upd_num + 1 \in Nat
      BY <1>2
    <3> QED
      BY <1>2, <3>1, InsertKeyTyped
  <2> HIDE DEF file
  <2> QED
    BY <1>2, <1>8, <2>1
<1> HIDE DEF opens, seg, file, D
<1>11. /\ cmd' = cmd /\ upd_num' = upd_num /\ pc' = pc /\ drange' = drange /\ i' = i + 1 /\ left' = left - 1
       /\ delete_segment' = delete_segment /\ range' = range /\ extra' = extra
  BY DEF InsertRow
<1>12. seeds' \in [Streams -> Int]
  <2>1. PICK usage \in S!mk_order : seeds' = [s \in Streams |-> seeds[s] + S!RowTakes(S!LINE, usage, s)]
    BY DEF InsertRow
  <2>2. \A s \in Streams : seeds[s] \in Int /\ S!RowTakes(S!LINE, usage, s) \in Int
    BY <1>1, TakesTyped DEF UTypeOK
  <2> QED
    BY <2>1, <2>2
<1>13. rows_this_segment' \in Int
  BY <1>2 DEF InsertRow
<1>14. disk' \subseteq (({"lineorder", "delete"} \X Nat \X Nat) \X (Int \X Int))
  BY <1>1, <1>6, <1>9, <1>10 DEF UTypeOK
<1>15. line' \in [last_mode : Nat, file : {"none", "lineorder"} \X Nat \X Nat]
  BY <1>5, <1>6, <1>8
<1>16. UTypeOK'
  <2>1. i' \in Nat /\ left' \in Nat
    BY <1>2, <1>11
  <2> QED
    BY <1>1, <1>5, <1>6, <1>7, <1>11, <1>12, <1>13, <1>14, <1>15, <2>1 DEF UTypeOK
<1>17. i < minrow(cmd, upd_num + 1) + rowcnt(cmd)
  BY <1>2, <1>3, <1>4
<1>18. KeysInv' /\ \A x \in Inserted' : x[2][2] < i + 1
  <2>1. new[1][1] = "lineorder" /\ new[1][2] = upd_num + 1 /\ new[2][2] = i /\ new[2][1] = insert_key(cmd, i, upd_num + 1)
    BY <1>8
  <2> HIDE DEF new
  <2> QED
    BY <1>1, <1>2, <1>3, <1>6, <1>9, <1>11, <1>17, <2>1, KeysGrow
<1>19. PairInv'
  <2>1. Below(i)'
    BY <1>11, <1>18 DEF Below
  <2>2. minrow(cmd, upd_num + 1)' = minrow(cmd, upd_num + 1) /\ rowcnt(cmd)' = rowcnt(cmd)
    BY <1>11 DEF minrow, rowcnt
  <2>3. minrow(cmd, upd_num + 1) <= i' /\ i' + left' = minrow(cmd, upd_num + 1) + rowcnt(cmd)
    BY <1>2, <1>3, <1>4, <1>11
  <2>4. line'.last_mode = mode' /\ line'.file = file
    BY <1>6
  <2>5. upd_num < cmd.updates /\ (drange.last_num # 0 => drange.file[1] = "delete")
    BY <1>1, <1>2 DEF PairInv
  <2> QED
    BY <1>2, <1>5, <1>8, <1>11, <2>1, <2>2, <2>3, <2>4, <2>5 DEF PairInv
<1> QED
  BY <1>16, <1>18, <1>19 DEF UInv

LEMMA InsertsDoneStep == UInv /\ InsertsDone => UInv'
<1> SUFFICES ASSUME UInv, InsertsDone
             PROVE  UInv'
  OBVIOUS
<1>1. UTypeOK /\ PairInv /\ KeysInv
  BY DEF UInv
<1>2. /\ cmd \in Commands /\ upd_num \in Nat /\ delete_segment \in Nat
      /\ i \in Nat /\ left = 0 /\ pc = "inserts"
  BY <1>1 DEF UTypeOK, InsertsDone
<1> DEFINE num == upd_num + 1
           opens == drange.last_num # num
           seg == IF opens THEN NextSegment(cmd.delete_segments, delete_segment) ELSE delete_segment
           key == delete_key(cmd, minrow(cmd, num), num)
<1>3. num \in Nat /\ num # 0
  BY <1>2
<1>4. minrow(cmd, num) \in Nat /\ rowcnt(cmd) \in Nat /\ key \in Int
  BY <1>2, PairStarts, CountsTyped, DeleteKeyTyped
<1>5. seg \in Nat
  BY <1>2 DEF NextSegment
<1>6. /\ delete_segment' = seg
      /\ drange' = IF opens THEN [drange EXCEPT !.last_num = num, !.rows_this_segment = 0,
                                                !.file = delete_file(num, seg)]
                   ELSE drange
      /\ disk' = IF opens THEN Emptied(delete_file(num, seg)) ELSE disk
      /\ range' = [start |-> key, last |-> key - 1]
      /\ i' = minrow(cmd, num) /\ left' = rowcnt(cmd)
  BY DEF InsertsDone
<1>7. /\ cmd' = cmd /\ upd_num' = upd_num /\ mode' = mode /\ rows_this_segment' = rows_this_segment
      /\ line' = line /\ segment' = segment /\ seeds' = seeds /\ extra' = extra /\ pc' = "deletes"
  BY DEF InsertsDone, useeds
<1> HIDE DEF num, seg, key, opens
<1>8. /\ delete_file(num, seg) \in {"none", "delete"} \X Nat \X Nat
      /\ delete_file(num, seg)[1] = "delete"
  BY <1>3, <1>5 DEF delete_file
<1> DEFINE f == delete_file(num, seg)
<1> HIDE DEF f
<1>9. /\ drange' \in [last_num : Nat, rows_per_segment : Nat, rows_this_segment : Nat,
                       residual_rows : Nat, file : {"none", "delete"} \X Nat \X Nat]
      /\ drange'.last_num = num /\ drange'.file[1] = "delete"
  <2>1. f \in {"none", "delete"} \X Nat \X Nat /\ f[1] = "delete"
    BY <1>8 DEF f
  <2>2. CASE opens
    <3>1. drange' = [drange EXCEPT !.last_num = num, !.rows_this_segment = 0, !.file = f]
      BY <1>6, <2>2 DEF f
    <3> QED
      BY <1>1, <1>3, <2>1, <3>1 DEF UTypeOK
  <2>3. CASE ~opens
    <3>1. drange' = drange /\ drange.last_num = num
      BY <1>6, <2>3 DEF opens
    <3> QED
      BY <1>1, <1>3, <3>1 DEF UTypeOK, PairInv
  <2> QED
    BY <2>2, <2>3
<1>10. Inserted' = Inserted /\ disk' \subseteq disk
  <2>1. \A x \in disk : x[1][1] = "lineorder" => x[1] # f
    BY <1>8 DEF f
  <2>2. disk' = {x \in disk : x[1] # f} \/ disk' = disk
    BY <1>6 DEF Emptied, f
  <2> QED
    BY <2>1, <2>2 DEF Inserted
<1>11. range' \in [start : Int, last : Int]
  BY <1>4, <1>6
<1>12. UTypeOK'
  BY <1>1, <1>2, <1>4, <1>5, <1>6, <1>7, <1>9, <1>10, <1>11 DEF UTypeOK
<1>13. PairInv'
  <2>1. minrow(cmd, num)' = minrow(cmd, num) /\ rowcnt(cmd)' = rowcnt(cmd) /\ num' = num
    BY <1>7 DEF minrow, rowcnt, num
  <2>2. i = minrow(cmd, num) + rowcnt(cmd) /\ Below(i) /\ upd_num < cmd.updates
    <3>1. i + left = minrow(cmd, num) + rowcnt(cmd) /\ Below(i) /\ upd_num < cmd.updates
      BY <1>1, <1>2 DEF PairInv, num
    <3> QED
      BY <1>2, <3>1
  <2>3. \A x \in Inserted' : x[2][2] < minrow(cmd, num) + rowcnt(cmd)
    BY <1>10, <2>2 DEF Below
  <2>4. Below(minrow(cmd, num) + rowcnt(cmd))'
    BY <2>1, <2>3 DEF Below
  <2> QED
    BY <1>1, <1>7, <1>9, <2>1, <2>2, <2>4 DEF PairInv, num
<1>14. KeysInv'
  BY <1>1, <1>2, <1>7, <1>10, KeysKept
<1> QED
  BY <1>12, <1>13, <1>14 DEF UInv

(* What the three ways to take a key to delete have in common. *)
LEMMA KeyTaken ==
  ASSUME UInv, pc = "deletes", left > 0, UTypeOK', Inserted' = Inserted,
         cmd' = cmd, pc' = pc, upd_num' = upd_num, line' = line,
         drange'.last_num = drange.last_num, drange'.file[1] = "delete"
  PROVE  UInv'
<1>1. UTypeOK /\ PairInv /\ KeysInv /\ upd_num \in Nat
  BY DEF UInv, UTypeOK
<1>2. Below(minrow(cmd, upd_num + 1) + rowcnt(cmd))'
  BY <1>1 DEF PairInv, Below, minrow, rowcnt
<1>3. PairInv'
  BY <1>1, <1>2 DEF PairInv
<1>4. KeysInv'
  BY <1>1, KeysKept
<1> QED
  BY <1>3, <1>4 DEF UInv

LEMMA ExtendStep == UInv /\ ExtendRange => UInv'
<1> SUFFICES ASSUME UInv, ExtendRange
             PROVE  UInv'
  OBVIOUS
<1>1. UTypeOK /\ PairInv /\ cmd \in Commands /\ upd_num \in Nat /\ i \in Nat /\ left \in Nat
  BY DEF UInv, UTypeOK
<1>2. DeleteKey \in Int
  BY <1>1, DeleteKeyTyped DEF DeleteKey
<1>3. Inserted' = Inserted /\ drange.file[1] = "delete"
  BY <1>1 DEF ExtendRange, Inserted, PairInv
<1>4. UTypeOK'
  BY <1>1, <1>2 DEF ExtendRange, UTypeOK, useeds
<1> QED
  BY <1>3, <1>4, KeyTaken DEF ExtendRange

LEMMA RangeTyped ==
  ASSUME UTypeOK
  PROVE  /\ range.start \in Int /\ range.last \in Int
         /\ drange.file \in {"none", "delete"} \X Nat \X Nat
BY DEF UTypeOK

LEMMA DeleteFileTyped ==
  ASSUME NEW f \in {"none", "delete"} \X Nat \X Nat, f[1] = "delete",
         NEW a \in Int, NEW b \in Int
  PROVE  <<f, <<a, b>>>> \in ({"lineorder", "delete"} \X Nat \X Nat) \X (Int \X Int)
OBVIOUS

LEMMA WriteRangeStep == UInv /\ WriteRange => UInv'
<1> SUFFICES ASSUME UInv, WriteRange
             PROVE  UInv'
  OBVIOUS
<1>1. UTypeOK /\ PairInv /\ cmd \in Commands /\ upd_num \in Nat /\ i \in Nat /\ left \in Nat
  BY DEF UInv, UTypeOK
<1>2. DeleteKey \in Int
  BY <1>1, DeleteKeyTyped DEF DeleteKey
<1>3. drange.file[1] = "delete"
  BY <1>1 DEF WriteRange, PairInv
<1>4. disk' = disk \cup {<<drange.file, <<range.start, range.last>>>>}
  BY DEF WriteRange
<1>5. Inserted' = Inserted
  BY <1>3, <1>4, DeleteEntry
<1>6. disk' \subseteq (({"lineorder", "delete"} \X Nat \X Nat) \X (Int \X Int))
  BY <1>1, <1>3, <1>4, RangeTyped, DeleteFileTyped DEF UTypeOK
<1>7. UTypeOK'
  BY <1>1, <1>2, <1>6 DEF WriteRange, UTypeOK, useeds
<1> QED
  BY <1>3, <1>5, <1>7, KeyTaken DEF WriteRange

LEMMA DeleteRowsTyped ==
  ASSUME UTypeOK, NEW n \in Nat, NEW segments \in Nat
  PROVE  /\ DeleteRows(drange, n, segments) \in
               [last_num : Nat, rows_per_segment : Nat, rows_this_segment : Nat,
                residual_rows : Nat, file : {"none", "delete"} \X Nat \X Nat]
         /\ DeleteRows(drange, n, segments).last_num = drange.last_num
         /\ DeleteRows(drange, n, segments).file = drange.file
<1>1. CASE segments > 0 /\ drange.rows_per_segment = 0
  <2>1. n \div segments + 1 \in Nat /\ n % segments \in Nat
    BY <1>1, DivMod
  <2> QED
    BY <1>1, <2>1 DEF DeleteRows, UTypeOK
<1>2. CASE ~(segments > 0 /\ drange.rows_per_segment = 0)
  BY <1>2 DEF DeleteRows, UTypeOK
<1> QED
  BY <1>1, <1>2

LEMMA WriteKeyStep == UInv /\ WriteKey => UInv'
<1> SUFFICES ASSUME UInv, WriteKey
             PROVE  UInv'
  OBVIOUS
<1>1. /\ UTypeOK /\ PairInv /\ cmd \in Commands /\ upd_num \in Nat /\ i \in Nat /\ left \in Nat
      /\ delete_segment \in Nat
  BY DEF UInv, UTypeOK
<1>2. DeleteKey \in Int /\ cmd.delete_segments \in Nat
  BY <1>1, DeleteKeyTyped, CommandTyped DEF DeleteKey
<1> DEFINE d == DeleteRows(drange, left, cmd.delete_segments)
           rolls == cmd.delete_segments > 0 /\ DeleteRolls(d, delete_segment)
           seg == IF rolls THEN delete_segment + 1 ELSE delete_segment
           file == IF rolls THEN delete_file(upd_num + 1, seg) ELSE d.file
           rows == IF rolls THEN 1
                   ELSE IF cmd.delete_segments > 0 THEN d.rows_this_segment + 1 ELSE d.rows_this_segment
           D == IF rolls THEN Emptied(file) ELSE disk
<1>3. /\ d \in [last_num : Nat, rows_per_segment : Nat, rows_this_segment : Nat,
                 residual_rows : Nat, file : {"none", "delete"} \X Nat \X Nat]
      /\ d.last_num = drange.last_num /\ d.file = drange.file
  <2>1. ASSUME NEW n \in Nat, NEW segments \in Nat
        PROVE  /\ DeleteRows(drange, n, segments) \in
                     [last_num : Nat, rows_per_segment : Nat, rows_this_segment : Nat,
                      residual_rows : Nat, file : {"none", "delete"} \X Nat \X Nat]
               /\ DeleteRows(drange, n, segments).last_num = drange.last_num
               /\ DeleteRows(drange, n, segments).file = drange.file
    BY <1>1, DeleteRowsTyped
  <2> QED
    BY <1>1, <1>2, <2>1
<1>4. delete_segment' = seg /\ disk' = D \cup {<<file, <<DeleteKey, DeleteKey>>>>}
  BY DEF WriteKey
<1>5. drange' = [d EXCEPT !.file = file, !.rows_this_segment = rows]
  BY DEF WriteKey
<1>6. drange.file[1] = "delete" /\ pc = "deletes" /\ left > 0
  BY <1>1 DEF WriteKey, PairInv
<1> HIDE DEF d
<1>7. rows \in Nat
  BY <1>3
<1>8. seg \in Nat
  BY <1>1
<1> HIDE DEF rolls, seg
<1>9. file \in {"none", "delete"} \X Nat \X Nat /\ file[1] = "delete"
  <2>1. CASE rolls
    <3>1. upd_num + 1 \in Nat
      BY <1>1
    <3> QED
      BY <1>8, <2>1, <3>1 DEF delete_file
  <2>2. CASE ~rolls
    <3>1. file = drange.file
      BY <1>3, <2>2
    <3> QED
      BY <1>1, <1>6, <3>1, RangeTyped
  <2> QED
    BY <2>1, <2>2
<1>10. D \subseteq disk /\ \A x \in disk : x[1] # file => x \in D
  BY DEF Emptied
<1> HIDE DEF file, rows, D
<1>11. Inserted' = Inserted
  BY <1>4, <1>9, <1>10, DeleteEntry
<1>12. disk' \subseteq (({"lineorder", "delete"} \X Nat \X Nat) \X (Int \X Int))
  <2>1. <<file, <<DeleteKey, DeleteKey>>>> \in ({"lineorder", "delete"} \X Nat \X Nat) \X (Int \X Int)
    BY <1>2, <1>9, DeleteFileTyped
  <2> QED
    BY <1>1, <1>4, <1>10, <2>1 DEF UTypeOK
<1>13. /\ drange' \in [last_num : Nat, rows_per_segment : Nat, rows_this_segment : Nat,
                        residual_rows : Nat, file : {"none", "delete"} \X Nat \X Nat]
       /\ drange'.last_num = drange.last_num /\ drange'.file = file
  BY <1>3, <1>5, <1>7, <1>9
<1>14. /\ cmd' = cmd /\ pc' = pc /\ upd_num' = upd_num /\ mode' = mode /\ line' = line /\ segment' = segment
       /\ rows_this_segment' = rows_this_segment /\ seeds' = seeds /\ extra' = extra
       /\ i' = i + 1 /\ left' = left - 1 /\ range' = [start |-> DeleteKey, last |-> DeleteKey]
  BY DEF WriteKey, useeds
<1>15. i' \in Nat /\ left' \in Nat /\ range' \in [start : Int, last : Int]
  BY <1>1, <1>2, <1>6, <1>14
<1>16. UTypeOK'
  BY <1>1, <1>4, <1>8, <1>12, <1>13, <1>14, <1>15 DEF UTypeOK
<1> QED
  BY <1>6, <1>9, <1>11, <1>13, <1>14, <1>16, KeyTaken

LEMMA DeletesDoneStep == UInv /\ DeletesDone => UInv'
<1> SUFFICES ASSUME UInv, DeletesDone
             PROVE  UInv'
  OBVIOUS
<1>1. UTypeOK /\ PairInv /\ KeysInv /\ cmd \in Commands /\ upd_num \in Nat /\ pc = "deletes"
  BY DEF UInv, UTypeOK, DeletesDone
<1>2. drange.file[1] = "delete" /\ Below(minrow(cmd, upd_num + 1) + rowcnt(cmd))
  BY <1>1 DEF PairInv
<1>3. disk' = disk \/ disk' = disk \cup {<<drange.file, <<range.start, range.last>>>>}
  BY DEF DeletesDone
<1>4. Inserted' = Inserted
  BY <1>2, <1>3, DeleteEntry DEF Inserted
<1>5. disk' \subseteq (({"lineorder", "delete"} \X Nat \X Nat) \X (Int \X Int))
  BY <1>1, <1>2, <1>3, RangeTyped, DeleteFileTyped DEF UTypeOK
<1>6. UTypeOK'
  BY <1>1, <1>5 DEF DeletesDone, UTypeOK, useeds
<1>7. /\ cmd' = cmd /\ upd_num' = upd_num + 1 /\ pc' = "pairs" /\ line' = line /\ drange' = drange
      /\ upd_num' \in Nat /\ upd_num <= upd_num'
  BY <1>1 DEF DeletesDone
<1>8. Below(minrow(cmd, upd_num + 1))'
  <2>1. minrow(cmd, upd_num + 2) = minrow(cmd, upd_num + 1) + rowcnt(cmd)
    BY <1>1, PairStarts
  <2>2. upd_num' + 1 = upd_num + 2
    BY <1>1, <1>7
  <2>3. minrow(cmd, upd_num + 1)' = minrow(cmd, upd_num + 2)
    BY <1>7, <2>2 DEF minrow, rowcnt
  <2> QED
    BY <1>2, <1>4, <2>1, <2>3 DEF Below
<1>9. PairInv'
  BY <1>1, <1>7, <1>8 DEF PairInv
<1>10. KeysInv'
  BY <1>1, <1>4, <1>7, KeysKept
<1> QED
  BY <1>6, <1>9, <1>10 DEF UInv

LEMMA ExitStep == UInv /\ (Exit \/ UNCHANGED uvars) => UInv'
<1> SUFFICES ASSUME UInv, Exit \/ UNCHANGED uvars
             PROVE  UInv'
  OBVIOUS
<1>1. UTypeOK /\ PairInv /\ KeysInv
  BY DEF UInv
<1>2. /\ cmd' = cmd /\ upd_num' = upd_num /\ i' = i /\ left' = left /\ mode' = mode
      /\ rows_this_segment' = rows_this_segment /\ line' = line /\ segment' = segment /\ drange' = drange
      /\ delete_segment' = delete_segment /\ range' = range /\ disk' = disk /\ seeds' = seeds /\ extra' = extra
      /\ pc' \in {pc, "done"}
  BY DEF Exit, uvars, ucontrol, ufiles, useeds
<1>3. Inserted' = Inserted /\ upd_num \in Nat
  BY <1>1, <1>2 DEF Inserted, UTypeOK
<1>4. UTypeOK'
  BY <1>1, <1>2 DEF UTypeOK
<1>5. PairInv'
  BY <1>1, <1>2, <1>3 DEF PairInv, Below, minrow, rowcnt
<1>6. KeysInv'
  BY <1>1, <1>2, <1>3, KeysKept
<1> QED
  BY <1>4, <1>5, <1>6 DEF UInv

LEMMA UInvStep == UInv /\ [UNext]_uvars => UInv'
BY StartStep, PairStep, InsertStep, InsertsDoneStep, ExtendStep, WriteRangeStep, WriteKeyStep,
   DeletesDoneStep, ExitStep DEF UNext

(* The invariant is inductive. *)
THEOREM UpdateInvariant == USpec => []UInv
<1>1. UInit => UInv
  BY UntouchedInv DEF UInit
<1> QED
  BY <1>1, UInvStep, PTL DEF USpec

-----------------------------------------------------------------------------
(* The streams. *)

Taken(s) == IF s \in S!LineStreams THEN S!O_LCNT_MAX ELSE 1

(* The streams stand where the rows before row n leave them. *)
Drawn(n) == \A s \in Streams : seeds[s] = set_state(cmd, extra)[s] + (n - 1) * Taken(s)

SeedInv ==
  /\ pc = "start" => seeds = [s \in Streams |-> 0]
  /\ pc = "pairs" => Drawn(minrow(cmd, upd_num + 1))
  /\ pc = "inserts" => Drawn(i)
  /\ pc = "deletes" => Drawn(minrow(cmd, upd_num + 1) + rowcnt(cmd))

(* An order takes the same from its streams however many lines it has. *)
LEMMA OrderTakes ==
  ASSUME NEW usage \in S!mk_order, NEW s \in Streams
  PROVE  S!RowTakes(S!LINE, usage, s) = Taken(s)
<1>1. s \in S!Stream
  BY DEF Streams, S!Stream
<1>2. PICK lines \in 1..S!O_LCNT_MAX :
        usage = [t \in S!Stream |-> IF t \in S!OrderStreams THEN 1 ELSE IF t \in S!LineStreams THEN lines ELSE 0]
  BY DEF S!mk_order
<1>3. lines \in Int
  BY <1>2 DEF S!O_LCNT_MAX
<1>4. S!Uncounted(S!LINE)[s] = 0
  BY <1>1 DEF S!Uncounted, S!Once, S!LINE, S!PART, S!SUPP, S!CUST
<1>5. CASE s \in S!LineStreams
  <2>1. s \notin S!OrderStreams
    BY <1>5 DEF S!OrderStreams, S!LineStreams
  <2>2. usage[s] = lines
    BY <1>1, <1>2, <1>5, <2>1
  <2>3. S!SeedTable(s) = S!LINE
    BY <1>5 DEF S!SeedTable, S!PartStreams, S!SuppStreams, S!CustStreams, S!OrderStreams, S!LineStreams
  <2>4. S!Boundary(s) = S!O_LCNT_MAX
    BY <1>5 DEF S!Boundary, S!LineStreams
  <2>5. S!row_stop(S!LINE, usage)[s] = S!O_LCNT_MAX - lines
    BY <1>1, <2>2, <2>3, <2>4 DEF S!row_stop
  <2> QED
    BY <1>3, <1>4, <1>5, <2>2, <2>5 DEF S!RowTakes, Taken, S!O_LCNT_MAX
<1>6. CASE s \notin S!LineStreams
  <2>1. s \in S!OrderStreams
    BY <1>6 DEF Streams
  <2>2. usage[s] = 1
    BY <1>1, <1>2, <2>1
  <2>3. S!SeedTable(s) # S!LINE
    BY <2>1 DEF S!SeedTable, S!PartStreams, S!SuppStreams, S!CustStreams, S!OrderStreams, S!LineStreams,
                S!ORDER, S!LINE
  <2>4. S!row_stop(S!LINE, usage)[s] = 0
    BY <1>1, <2>3 DEF S!row_stop
  <2> QED
    BY <1>4, <1>6, <2>2, <2>4 DEF S!RowTakes, Taken
<1> QED
  BY <1>5, <1>6

(* What -S skips is what the pairs before would have taken. *)
LEMMA PriorTakes ==
  ASSUME NEW c \in Commands, NEW s \in Streams
  PROVE  skip_prior(c)[s] = (minrow(c, (IF c.step > 0 THEN c.step - 1 ELSE 0) + 1) - 1) * Taken(s)
<1> DEFINE r == rowcnt(c)
           k == c.step
<1>1. r \in Nat /\ k \in Int /\ Taken(s) \in Int
  BY CountsTyped, CommandTyped DEF Taken, S!O_LCNT_MAX
<1>2. s \in S!OrderStreams <=> s \notin S!LineStreams
  BY DEF Streams, S!OrderStreams, S!LineStreams
<1>3. CASE k > 0
  <2> HIDE DEF r, k
  <2>1. r * (k - 1) \in Int /\ ((k - 1) * r + 1) - 1 = r * (k - 1)
    BY <1>1
  <2> DEFINE n == r * (k - 1)
  <2>2. n \in Int
    BY <2>1
  <2> HIDE DEF n
  <2>3. sd_order(n)[s] + sd_line(0, n)[s] = n * Taken(s)
    <3>1. CASE s \in S!LineStreams
      <4>1. sd_order(n)[s] = 0 /\ sd_line(0, n)[s] = S!O_LCNT_MAX * n
        BY <1>2, <3>1 DEF sd_order, sd_line
      <4> QED
        BY <2>2, <3>1, <4>1 DEF Taken, S!O_LCNT_MAX
    <3>2. CASE s \notin S!LineStreams
      <4>1. sd_order(n)[s] = n /\ sd_line(0, n)[s] = 0
        BY <1>2, <3>2 DEF sd_order, sd_line
      <4> QED
        BY <2>2, <3>2, <4>1 DEF Taken
    <3> QED
      BY <3>1, <3>2
  <2>4. skip_prior(c)[s] = sd_order(n)[s] + sd_line(0, n)[s]
    BY <1>3 DEF skip_prior, n, r, k
  <2>5. minrow(c, (k - 1) + 1) - 1 = n
    <3>1. k - 1 \in Nat
      BY <1>1, <1>3
    <3> DEFINE u == k - 1
    <3>2. minrow(c, u + 1) = u * r + 1
      BY <3>1, PairStarts DEF r
    <3>3. (u * r + 1) - 1 = n
      BY <2>1 DEF n
    <3> HIDE DEF u
    <3>4. minrow(c, u + 1) - 1 = n
      BY <3>2, <3>3
    <3> QED
      BY <3>4 DEF u
  <2> QED
    BY <1>3, <2>3, <2>4, <2>5 DEF k
<1>4. CASE ~(k > 0)
  <2>1. skip_prior(c)[s] = 0
    BY <1>2, <1>4 DEF skip_prior, sd_order
  <2>2. minrow(c, 0 + 1) - 1 = 0
    BY <1>1 DEF minrow
  <2> HIDE DEF r
  <2> QED
    BY <1>1, <1>4, <2>1, <2>2
<1> QED
  BY <1>3, <1>4

LEMMA DrawnKept ==
  ASSUME NEW n, Drawn(n), seeds' = seeds, extra' = extra, cmd' = cmd
  PROVE  \A s \in Streams : seeds'[s] = set_state(cmd', extra')[s] + (n - 1) * Taken(s)
BY DEF Drawn

LEMMA SeedStep == UInv /\ SeedInv /\ [UNext]_uvars => SeedInv'
<1> SUFFICES ASSUME UInv, SeedInv, [UNext]_uvars
             PROVE  SeedInv'
  OBVIOUS
<1>1. UTypeOK /\ PairInv
  BY DEF UInv
<1>2. /\ cmd \in Commands /\ upd_num \in Nat /\ i \in Nat /\ left \in Nat /\ extra \in Int
      /\ \A s \in Streams : seeds[s] \in Int
  BY <1>1 DEF UTypeOK
<1>3. CASE StartUpdates
  <2>1. /\ cmd' = cmd /\ pc = "start" /\ pc' = "pairs" /\ extra' \in Int
        /\ upd_num' = IF cmd.step > 0 THEN cmd.step - 1 ELSE 0
        /\ seeds' = [s \in Streams |-> seeds[s] + set_state(cmd, extra')[s] + skip_prior(cmd)[s]]
    BY <1>3, UpdateAssumption DEF StartUpdates
  <2>2. ASSUME NEW s \in Streams
        PROVE  seeds'[s] = set_state(cmd, extra')[s] + (minrow(cmd, upd_num' + 1) - 1) * Taken(s)
    <3>1. seeds[s] = 0
      BY <2>1 DEF SeedInv
    <3>2. set_state(cmd, extra')[s] \in Int /\ skip_prior(cmd)[s] \in Int
      BY <1>2, <2>1, SkippedTyped
    <3>3. skip_prior(cmd)[s] = (minrow(cmd, upd_num' + 1) - 1) * Taken(s)
      BY <1>2, <2>1, PriorTakes
    <3> QED
      BY <2>1, <3>1, <3>2, <3>3
  <2> QED
    BY <2>1, <2>2 DEF SeedInv, Drawn, minrow, rowcnt
<1>4. CASE BeginPair
  BY <1>4 DEF BeginPair, SeedInv, Drawn, useeds
<1>5. CASE InsertRow
  <2>1. /\ cmd' = cmd /\ pc = "inserts" /\ pc' = "inserts" /\ i' = i + 1 /\ extra' = extra
    BY <1>5 DEF InsertRow
  <2>2. PICK usage \in S!mk_order : seeds' = [s \in Streams |-> seeds[s] + S!RowTakes(S!LINE, usage, s)]
    BY <1>5 DEF InsertRow
  <2>3. ASSUME NEW s \in Streams
        PROVE  seeds'[s] = set_state(cmd, extra)[s] + (i' - 1) * Taken(s)
    <3> DEFINE a == set_state(cmd, extra)[s]
               t == Taken(s)
    <3>1. a \in Int /\ t \in Int
      BY <1>2, SkippedTyped DEF Taken, S!O_LCNT_MAX
    <3>2. seeds'[s] = seeds[s] + t
      BY <2>2, OrderTakes
    <3>3. seeds[s] = a + (i - 1) * t
      BY <2>1 DEF SeedInv, Drawn
    <3> HIDE DEF a, t
    <3>4. i' - 1 = i /\ (i - 1) * t + t = i * t /\ (i - 1) * t \in Int
      BY <1>2, <2>1, <3>1
    <3>5. seeds'[s] = a + (i' - 1) * t
      BY <1>2, <3>1, <3>2, <3>3, <3>4
    <3> QED
      BY <3>5 DEF a, t
  <2> QED
    BY <2>1, <2>3 DEF SeedInv, Drawn
<1>6. CASE InsertsDone
  <2>1. /\ cmd' = cmd /\ seeds' = seeds /\ extra' = extra /\ upd_num' = upd_num
        /\ pc = "inserts" /\ pc' = "deletes" /\ left = 0
    BY <1>6 DEF InsertsDone, useeds
  <2>2. i = minrow(cmd, upd_num + 1) + rowcnt(cmd)
    <3>1. i + left = minrow(cmd, upd_num + 1) + rowcnt(cmd)
      BY <1>1, <2>1 DEF PairInv
    <3> QED
      BY <1>2, <2>1, <3>1
  <2>3. Drawn(minrow(cmd, upd_num + 1) + rowcnt(cmd))
    BY <2>1, <2>2 DEF SeedInv
  <2>4. Drawn(minrow(cmd, upd_num + 1) + rowcnt(cmd))'
    BY <2>1, <2>3, DrawnKept DEF Drawn, minrow, rowcnt
  <2> QED
    BY <2>1, <2>4 DEF SeedInv
<1>7. CASE ExtendRange \/ WriteRange \/ WriteKey
  <2>1. /\ cmd' = cmd /\ seeds' = seeds /\ extra' = extra /\ upd_num' = upd_num
        /\ pc = "deletes" /\ pc' = "deletes"
    BY <1>7 DEF ExtendRange, WriteRange, WriteKey, useeds
  <2> QED
    BY <2>1 DEF SeedInv, Drawn, minrow, rowcnt
<1>8. CASE DeletesDone
  <2>1. /\ cmd' = cmd /\ seeds' = seeds /\ extra' = extra /\ upd_num' = upd_num + 1
        /\ pc = "deletes" /\ pc' = "pairs"
    BY <1>8 DEF DeletesDone, useeds
  <2>2. upd_num' + 1 = upd_num + 2
    BY <1>2, <2>1
  <2>3. Drawn(minrow(cmd, upd_num + 2))
    BY <1>2, <2>1, PairStarts DEF SeedInv
  <2>4. Drawn(minrow(cmd, upd_num + 1))'
    BY <2>1, <2>2, <2>3 DEF Drawn, minrow, rowcnt
  <2> QED
    BY <2>1, <2>4 DEF SeedInv
<1>9. CASE Exit
  BY <1>9 DEF Exit, SeedInv
<1>10. CASE UNCHANGED uvars
  <2>1. cmd' = cmd /\ seeds' = seeds /\ extra' = extra /\ upd_num' = upd_num /\ pc' = pc /\ i' = i
    BY <1>10 DEF uvars, ucontrol, useeds
  <2> QED
    BY <2>1 DEF SeedInv, Drawn, minrow, rowcnt
<1> QED
  BY <1>3, <1>4, <1>5, <1>6, <1>7, <1>8, <1>9, <1>10 DEF UNext
=============================================================================
