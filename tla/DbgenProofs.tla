---------------------------- MODULE DbgenProofs ----------------------------
(***************************************************************************)
(* The parts of a table that set_state and partial cut are a partition of  *)
(* its rows for every base, scale and number of children; main and its     *)
(* children generate each row once, and main goes on when they have: they  *)
(* implement TableLoad.                                                    *)
(***************************************************************************)
EXTENDS Dbgen, FiniteSetTheorems, TLAPS

Opts == {process_options(o) : o \in CommandLines}

(* What process_options can return. *)
LEMMA OptTyped ==
  ASSUME NEW o \in Opts
  PROVE  /\ o \in [children : Nat \ {0}, step : Int, scale : Nat \ {0}, asked : SUBSET Tables]
         /\ o.step = -1 \/ o.step \in 1..o.children
<1>1. PICK l \in CommandLines : o = process_options(l)
  BY DEF Opts
<1>2. /\ l \in [children : Nat \ {0}, step : Int, scale : Nat \ {0},
               T : {"c", "p", "s", "d", "l", "a", "none"}, late : BOOLEAN]
      /\ l.step = -1 \/ l.step \in 1..l.children
  BY OptionsAssumption
<1>3. \A x, y : Named(x, y) \subseteq Tables
  BY DEF Named, Tables
<1>4. AskedFor(l) \subseteq Tables
  BY <1>3 DEF AskedFor
<1> QED
  BY <1>1, <1>2, <1>4 DEF process_options

-----------------------------------------------------------------------------
(* Arithmetic. *)

LEMMA DivMod ==
  ASSUME NEW a \in Nat, NEW n \in Nat \ {0}
  PROVE  /\ a \div n \in Nat /\ a % n \in 0..(n - 1)
         /\ a = (a \div n) * n + (a % n)
BY SMT

LEMMA TimesMonotone ==
  ASSUME NEW r \in Nat, NEW a \in Nat, NEW b \in Nat, a <= b
  PROVE  r * a <= r * b
<1>1. PICK d \in Nat : b = a + d
  BY SMT
<1>2. r * b = r * a + r * d
  BY <1>1
<1>3. r * d \in Nat
  OBVIOUS
<1> QED
  BY <1>2, <1>3

(* The rows that set_state gives to the children add up to the table. *)
LEMMA RowsAddUp ==
  ASSUME NEW o \in Opts, NEW t \in Tables
  PROVE  /\ rowcount_of(t, o) \in Nat /\ extra_rows(t, o) \in Nat
         /\ rowcount_of(t, o) * o.children + extra_rows(t, o) = Base[t] * o.scale
<1> DEFINE B == Base[t]
           S == o.scale
           n == o.children
<1>0. B \in Nat /\ S \in Nat /\ n \in Nat \ {0}
  BY OptTyped, OptionsAssumption
<1> DEFINE q == B \div n
           m == B % n
<1> HIDE DEF B, S, n
<1>1. q \in Nat /\ m \in Nat /\ B = q * n + m
  BY <1>0, DivMod
<1>2. m * S \in Nat
  BY <1>0, <1>1
<1> DEFINE d == (m * S) \div n
           e == (m * S) % n
<1>3. d \in Nat /\ e \in Nat /\ m * S = d * n + e
  BY <1>0, <1>2, DivMod
<1> HIDE DEF q, m, d, e
<1>4. (q * S + d) * n + e = q * S * n + (d * n + e)
  BY <1>0, <1>1, <1>3
<1>5. q * S * n + m * S = (q * n + m) * S
  BY <1>0, <1>1
<1>6. rowcount_of(t, o) = q * S + d /\ extra_rows(t, o) = e
  BY DEF rowcount_of, extra_rows, q, m, d, e, B, S, n
<1>7. q * S + d \in Nat
  BY <1>0, <1>1, <1>3
<1> QED
  BY <1>0, <1>1, <1>3, <1>4, <1>5, <1>6, <1>7 DEF B, S, n

PartRows(t, o, s) == part_start(t, o, s)..(part_start(t, o, s) + part_count(t, o, s) - 1)

LEMMA PartTyped ==
  ASSUME NEW o \in Opts, NEW t \in Tables, NEW s \in 1..o.children
  PROVE  part_start(t, o, s) \in Nat \ {0} /\ part_count(t, o, s) \in Nat
<1>1. rowcount_of(t, o) \in Nat /\ extra_rows(t, o) \in Nat /\ s - 1 \in Nat
  BY RowsAddUp, OptTyped
<1>2. rowcount_of(t, o) * (s - 1) \in Nat
  BY <1>1
<1> QED
  BY <1>1, <1>2 DEF part_start, part_count

(* A part ends before the next one starts. *)
LEMMA PartsInOrder ==
  ASSUME NEW o \in Opts, NEW t \in Tables, NEW a \in 1..o.children, NEW b \in 1..o.children, a < b
  PROVE  part_start(t, o, a) + part_count(t, o, a) <= part_start(t, o, b)
<1> DEFINE rc == rowcount_of(t, o)
<1>1. rc \in Nat /\ o.children \in Nat
  BY RowsAddUp, OptTyped
<1>2. part_count(t, o, a) = rc
  BY <1>1 DEF part_count
<1> HIDE DEF rc
<1>3. rc * a <= rc * (b - 1)
  BY <1>1, TimesMonotone
<1>4. rc * (a - 1) + rc = rc * a
  BY <1>1
<1>5. rc * a \in Nat /\ rc * (b - 1) \in Nat /\ rc * (a - 1) \in Nat
  BY <1>1
<1> QED
  BY <1>1, <1>2, <1>3, <1>4, <1>5 DEF part_start, rc

(* The last part ends with the table. *)
LEMMA LastPart ==
  ASSUME NEW o \in Opts, NEW t \in Tables
  PROVE  part_start(t, o, o.children) + part_count(t, o, o.children) = Base[t] * o.scale + 1
<1> DEFINE rc == rowcount_of(t, o)
           n == o.children
<1>1. rc \in Nat /\ n \in Nat \ {0} /\ extra_rows(t, o) \in Nat
      /\ rc * n + extra_rows(t, o) = Base[t] * o.scale
  BY RowsAddUp, OptTyped
<1>2. part_start(t, o, n) = rc * (n - 1) + 1 /\ part_count(t, o, n) = rc + extra_rows(t, o)
  BY DEF part_start, part_count
<1> HIDE DEF rc, n
<1>3. rc * (n - 1) + rc = rc * n /\ rc * (n - 1) \in Nat /\ rc * n \in Nat
  BY <1>1
<1>4. part_start(t, o, n) + part_count(t, o, n) = rc * n + extra_rows(t, o) + 1
  BY <1>1, <1>2, <1>3
<1> QED
  BY <1>1, <1>4 DEF n

(* Every part lies within the table. *)
LEMMA PartWithin ==
  ASSUME NEW o \in Opts, NEW t \in Tables, NEW s \in 1..o.children
  PROVE  PartRows(t, o, s) \subseteq 1..(Base[t] * o.scale)
<1>1. o.children \in Nat \ {0} /\ Base[t] * o.scale \in Nat /\ o.children \in 1..o.children
  BY OptTyped, OptionsAssumption
<1>2. part_start(t, o, s) + part_count(t, o, s) <= Base[t] * o.scale + 1
  <2>1. CASE s = o.children
    BY <1>1, <2>1, LastPart
  <2>2. CASE s < o.children
    <3>1. part_start(t, o, s) + part_count(t, o, s) <= part_start(t, o, o.children)
      BY <1>1, <2>2, PartsInOrder
    <3> QED
      BY <1>1, <3>1, LastPart, PartTyped
  <2> QED
    BY <1>1, <2>1, <2>2
<1> QED
  BY <1>1, <1>2, PartTyped DEF PartRows

(* Every row of the table lies in a part. *)
LEMMA PartsCover ==
  ASSUME NEW o \in Opts, NEW t \in Tables, NEW r \in 1..(Base[t] * o.scale)
  PROVE  \E s \in 1..o.children : r \in PartRows(t, o, s)
<1> DEFINE rc == rowcount_of(t, o)
           n == o.children
<1>1. rc \in Nat /\ n \in Nat \ {0} /\ n \in 1..n /\ r \in Nat \ {0} /\ Base[t] * o.scale \in Nat
  BY RowsAddUp, OptTyped, OptionsAssumption
<1>2. \A s \in 1..n : part_start(t, o, s) = rc * (s - 1) + 1
  BY DEF part_start
<1>3. part_start(t, o, n) + part_count(t, o, n) = Base[t] * o.scale + 1
  BY LastPart
<1>4. \A s \in 1..n : s # n => part_count(t, o, s) = rc
  BY DEF part_count
<1>5. part_count(t, o, n) \in Nat /\ part_start(t, o, n) \in Nat
  BY <1>1, PartTyped
<1> HIDE DEF rc, n
<1>6. CASE r >= part_start(t, o, n)
  <2>1. r \in PartRows(t, o, n)
    BY <1>1, <1>3, <1>5, <1>6 DEF PartRows
  <2> QED
    BY <1>1, <2>1 DEF n
<1>7. CASE r < part_start(t, o, n)
  <2>1. rc * (n - 1) \in Nat /\ r - 1 < rc * (n - 1) /\ r - 1 \in Nat
    BY <1>1, <1>2, <1>7
  <2>2. rc \in Nat \ {0}
    <3>1. CASE rc = 0
      BY <1>1, <2>1, <3>1
    <3> QED
      BY <1>1, <3>1
  <2> DEFINE d == (r - 1) \div rc
  <2>3. d \in Nat /\ r - 1 = d * rc + ((r - 1) % rc) /\ (r - 1) % rc \in 0..(rc - 1)
    BY <2>1, <2>2, DivMod
  <2> HIDE DEF d
  <2>4. d < n - 1
    <3>1. CASE d >= n - 1
      <4>1. rc * (n - 1) <= rc * d
        BY <1>1, <2>3, <3>1, TimesMonotone
      <4>2. rc * d = d * rc /\ d * rc \in Nat
        BY <1>1, <2>3
      <4> QED
        BY <1>1, <2>1, <2>3, <4>1, <4>2
    <3> QED
      BY <1>1, <2>3, <3>1
  <2>5. d + 1 \in 1..n /\ d + 1 # n
    BY <1>1, <2>3, <2>4
  <2>6. part_start(t, o, d + 1) = d * rc + 1 /\ part_count(t, o, d + 1) = rc /\ d * rc \in Nat
    BY <1>1, <1>2, <1>4, <2>3, <2>5
  <2>7. r \in PartRows(t, o, d + 1)
    BY <1>1, <2>1, <2>2, <2>3, <2>6 DEF PartRows
  <2> QED
    BY <2>5, <2>7 DEF n
<1> QED
  BY <1>1, <1>5, <1>6, <1>7
-----------------------------------------------------------------------------
(* What main and its children have to build. *)

Files(o) == IF o.children = 1 THEN {0} ELSE 1..o.children
First(t, o, f) == IF o.children = 1 THEN 1 ELSE part_start(t, o, f)
Size(t, o, f) == IF o.children = 1 THEN serial_rows(t, o) ELSE part_count(t, o, f)
FileRows(t, o, f) == First(t, o, f)..(First(t, o, f) + Size(t, o, f) - 1)

LEMMA SerialTyped ==
  ASSUME NEW o \in Opts, NEW t \in Tables
  PROVE  serial_rows(t, o) \in Nat
<1>1. o.scale \in Nat /\ Base[t] \in Nat
  BY OptTyped, OptionsAssumption
<1>2. Log2(o.scale) \in Nat
  <2>1. IsFiniteSet(1..o.scale)
    BY <1>1, FS_Interval
  <2>2. IsFiniteSet({k \in 1..o.scale : 2^k <= o.scale})
    BY <2>1, FS_Subset
  <2> QED
    BY <2>2, FS_CardinalityType DEF Log2
<1>3. Base[t] * (1 + Log2(o.scale)) \in Nat /\ Base[t] * o.scale \in Nat
  BY <1>1, <1>2
<1> QED
  BY <1>1, <1>3 DEF serial_rows

LEMMA FileTyped ==
  ASSUME NEW o \in Opts, NEW t \in Tables, NEW f \in Files(o)
  PROVE  First(t, o, f) \in Nat \ {0} /\ Size(t, o, f) \in Nat
BY SerialTyped, PartTyped DEF First, Size, Files

-----------------------------------------------------------------------------
(* The children and main's counter. *)

Alive == {k \in Kids : kid[k] # "none"}

KidsInv ==
  /\ phase \in {"fork", "wait", "aborted"} => opt.children > 1 /\ opt.step < 0
  /\ phase = "rows" => opt.children = 1 \/ opt.step > 0
  /\ phase \in {"tables", "rows", "done"} => \A k \in Kids : kid[k] = "none"
  /\ phase = "fork" => \A k \in Kids : kid[k] # "none" <=> k <= c
  /\ phase = "wait" => Cardinality(Alive) = c

Inv == TypeOK /\ KidsInv

LEMMA KidsFinite ==
  ASSUME opt \in Opts
  PROVE  opt.children \in Nat \ {0} /\ IsFiniteSet(Kids) /\ Cardinality(Kids) = opt.children
<1>1. opt.children \in Nat \ {0}
  BY OptTyped
<1>2. IsFiniteSet(1..opt.children)
      /\ Cardinality(1..opt.children) = IF 1 > opt.children THEN 0 ELSE opt.children - 1 + 1
  BY <1>1, FS_Interval
<1> QED
  BY <1>1, <1>2 DEF Kids

LEMMA TablesTyped == Tables \subseteq 0..LINE
BY DEF Tables, PART, SUPP, CUST, DATE, LINE

LEMMA InvInit == Init => Inv
<1> SUFFICES ASSUME Init PROVE Inv
  OBVIOUS
<1>1. opt \in Opts /\ opt.children \in Nat
  BY OptTyped DEF Init, Opts
<1>2. TypeOK
  BY <1>1 DEF TypeOK, Init, Opts, PART, LINE
<1>3. KidsInv
  BY DEF KidsInv, Init
<1> QED
  BY <1>2, <1>3 DEF Inv

-----------------------------------------------------------------------------
(* The streams. *)

LEMMA TablesApart ==
  /\ PART # SUPP /\ PART # CUST /\ PART # DATE /\ PART # LINE
  /\ SUPP # CUST /\ SUPP # DATE /\ SUPP # LINE
  /\ CUST # DATE /\ CUST # LINE /\ DATE # LINE
BY DEF PART, SUPP, CUST, DATE, LINE

LEMMA DrawsOf ==
  /\ Draws(PART) = mk_part /\ Draws(SUPP) = mk_supp /\ Draws(CUST) = mk_cust
  /\ Draws(LINE) = mk_order /\ Draws(DATE) = {Once({})}
BY TablesApart, Zenon DEF Draws

LEMMA SeedsOf ==
  /\ gen_seed(PART) = sd_part /\ gen_seed(SUPP) = sd_supp /\ gen_seed(CUST) = sd_cust
  /\ gen_seed(LINE) = sd_line /\ gen_seed(DATE) = Once({})
BY TablesApart, Zenon DEF gen_seed

LEMMA OnceTyped == \A S : Once(S) \in [Stream -> Nat]
BY DEF Once

LEMMA ExceptTyped ==
  ASSUME NEW f \in [Stream -> Nat], NEW x, NEW a \in Nat
  PROVE  [f EXCEPT ![x] = a] \in [Stream -> Nat]
OBVIOUS

LEMMA OnceBut ==
  ASSUME NEW S, NEW x, NEW y, NEW a \in Nat, NEW b \in Nat
  PROVE  [Once(S) EXCEPT ![x] = a, ![y] = b] \in [Stream -> Nat]
<1>1. [Once(S) EXCEPT ![x] = a] \in [Stream -> Nat]
  BY OnceTyped, ExceptTyped
<1> QED
  BY <1>1, ExceptTyped

LEMMA SeedTyped ==
  /\ \A s \in Stream : Boundary(s) \in Nat
  /\ \A t \in Tables : gen_seed(t) \in [Stream -> Nat]
<1>1. \A s \in Stream : Boundary(s) \in Nat
  BY DEF Boundary, O_LCNT_MAX, MAX_COLOR
<1>2. sd_part \in [Stream -> Nat]
  BY OnceTyped, ExceptTyped DEF sd_part, MAX_COLOR
<1>3. sd_supp \in [Stream -> Nat]
  BY OnceBut DEF sd_supp
<1>4. sd_cust \in [Stream -> Nat]
  BY OnceBut DEF sd_cust
<1>5. sd_line \in [Stream -> Nat]
  BY DEF sd_line, O_LCNT_MAX
<1> QED
  BY <1>1, <1>2, <1>3, <1>4, <1>5, SeedsOf, OnceTyped, Zenon DEF Tables

LEMMA DrawsTyped ==
  ASSUME NEW t \in Tables, NEW u \in Draws(t)
  PROVE  u \in [Stream -> Nat]
<1>1. CASE t = PART
  <2>1. u = [Once(PartStreams) EXCEPT !["P_NAME"] = MAX_COLOR]
    BY <1>1, DrawsOf, Zenon DEF mk_part
  <2> QED
    BY <2>1, OnceTyped, ExceptTyped DEF MAX_COLOR
<1>2. CASE t = SUPP
  <2>1. PICK a \in AddrDraws : u = [Once({"S_NTRG"}) EXCEPT !["S_ADDR"] = a, !["C_PHNE"] = 3]
    BY <1>2, DrawsOf, Zenon DEF mk_supp
  <2>2. a \in Nat /\ 3 \in Nat
    BY DEF AddrDraws
  <2> QED
    BY <2>1, <2>2, OnceBut, Zenon
<1>3. CASE t = CUST
  <2>1. PICK a \in AddrDraws :
          u = [Once({"C_NTRG", "C_MSEG"}) EXCEPT !["C_ADDR"] = a, !["C_PHNE"] = 3]
    BY <1>3, DrawsOf, Zenon DEF mk_cust
  <2>2. a \in Nat /\ 3 \in Nat
    BY DEF AddrDraws
  <2> QED
    BY <2>1, <2>2, OnceBut, Zenon
<1>4. CASE t = LINE
  <2>1. u \in mk_order
    BY <1>4, DrawsOf, Zenon
  <2> QED
    BY <2>1 DEF mk_order, O_LCNT_MAX
<1>5. CASE t = DATE
  BY <1>5, DrawsOf, OnceTyped, Zenon
<1> QED
  BY <1>1, <1>2, <1>3, <1>4, <1>5, Zenon DEF Tables

LEMMA RowTakesTyped ==
  ASSUME NEW t \in Tables, NEW u \in Draws(t), NEW s \in Stream
  PROVE  RowTakes(t, u, s) \in Int
<1>1. u[s] \in Int
  BY DrawsTyped
<1>2. Uncounted(t)[s] \in Int
  BY OnceTyped DEF Uncounted
<1>3. row_stop(t, u)[s] \in Int
  BY <1>1, SeedTyped DEF row_stop
<1> QED
  BY <1>1, <1>2, <1>3 DEF RowTakes

LEMMA SetStateTyped ==
  ASSUME NEW o \in Opts, NEW t \in Tables, NEW s \in Int, NEW from \in [Stream -> Int]
  PROVE  set_state(t, o, s, from) \in [Stream -> Int]
<1> SUFFICES ASSUME NEW x \in Stream
             PROVE  from[x] + (s - 1) * rowcount_of(t, o) * gen_seed(t)[x] \in Int
  BY DEF set_state
<1>1. rowcount_of(t, o) \in Int /\ gen_seed(t)[x] \in Int /\ from[x] \in Int
  BY RowsAddUp, SeedTyped
<1> QED
  BY <1>1

-----------------------------------------------------------------------------
(* No action leaves the invariant of the children. *)

LEMMA InvNext == Inv /\ [Next]_vars => Inv'
<1> SUFFICES ASSUME Inv, [Next]_vars
             PROVE  Inv'
  OBVIOUS
<1>o. opt \in Opts /\ opt.asked \subseteq Tables /\ opt.children \in Nat \ {0}
      /\ opt.step \in Int /\ (opt.step = -1 \/ opt.step \in 1..opt.children)
  BY OptTyped DEF Inv, TypeOK, Opts
<1>t. Tables \subseteq 0..LINE /\ LINE = 5
  BY TablesTyped DEF LINE
<1>s. \A t \in Tables : serial_rows(t, opt) \in Nat
  BY <1>o, SerialTyped
<1>p. \A t \in Tables : \A s \in Kids : part_start(t, opt, s) \in Nat /\ part_count(t, opt, s) \in Nat
  BY <1>o, PartTyped DEF Kids
<1>e. \A t \in Tables : \A s \in Int : \A from \in [Stream -> Int] :
         set_state(t, opt, s, from) \in [Stream -> Int]
  BY <1>o, SetStateTyped
<1>f. IsFiniteSet(Kids) /\ Cardinality(Kids) = opt.children
  BY <1>o, KidsFinite
<1>0. 0 \in Procs /\ Kids \subseteq Procs /\ Procs \subseteq Nat
  BY <1>o DEF Procs, Kids
<1> USE DEF Inv
<1>1. CASE Serial
  <2>1. TypeOK'
    BY <1>1, <1>o, <1>s, <1>t, <1>0 DEF TypeOK, Serial, IsNext, Ahead, Kids, Procs
  <2>2. KidsInv'
    BY <1>1, <1>o DEF KidsInv, Serial, Kids
  <2> QED
    BY <2>1, <2>2
<1>2. CASE Partial
  <2>0. opt.step \in Kids
    BY <1>2, <1>o DEF Partial, Kids
  <2>1. PICK t \in Tables :
          /\ t \in opt.asked /\ tbl' = t
          /\ row' = [row EXCEPT ![0] = part_start(t, opt, opt.step)]
          /\ left' = [left EXCEPT ![0] = part_count(t, opt, opt.step)]
          /\ seeds' = [seeds EXCEPT ![0] = set_state(t, opt, opt.step, seeds[0])]
    BY <1>2 DEF Partial, IsNext, Ahead
  <2>3. row' \in [Procs -> Nat] /\ left' \in [Procs -> Nat]
    BY <1>p, <2>0, <2>1 DEF TypeOK
  <2>4. seeds' \in [Procs -> [Stream -> Int]]
    BY <1>o, <1>e, <1>0, <2>1 DEF TypeOK
  <2>5. TypeOK'
    BY <1>2, <1>t, <2>1, <2>3, <2>4 DEF TypeOK, Partial, Kids, Procs
  <2>2. KidsInv'
    BY <1>2, <1>o DEF KidsInv, Partial, Kids
  <2> QED
    BY <2>2, <2>5
<1>3. CASE Pload
  <2>1. TypeOK'
    BY <1>3, <1>o, <1>t DEF TypeOK, Pload, IsNext, Ahead, Kids, Procs
  <2>2. KidsInv'
    BY <1>3, <1>o DEF KidsInv, Pload, Kids
  <2> QED
    BY <2>1, <2>2
<1>4. CASE Return
  BY <1>4 DEF TypeOK, KidsInv, Return, Kids, Procs
<1>5. CASE Fork
  <2>0. c + 1 \in Kids /\ tbl \in Tables
    BY <1>5, <1>o DEF TypeOK, Fork, Kids
  <2>1. TypeOK'
    <3>1. row' \in [Procs -> Nat] /\ left' \in [Procs -> Nat]
      BY <1>5, <1>p, <2>0 DEF TypeOK, Fork
    <3>2. seeds' \in [Procs -> [Stream -> Int]]
      <4>1. seeds[0] \in [Stream -> Int] /\ c + 1 \in Int
        BY <1>0, <1>o DEF TypeOK
      <4>2. set_state(tbl, opt, c + 1, seeds[0]) \in [Stream -> Int]
        BY <1>e, <2>0, <4>1
      <4> QED
        BY <1>5, <4>2 DEF TypeOK, Fork
    <3>3. kid' \in [Kids -> {"none", "running", "zombie"}] /\ c' \in 0..opt.children
      BY <1>5, <1>o, <2>0 DEF TypeOK, Fork
    <3> QED
      BY <1>5, <3>1, <3>2, <3>3 DEF TypeOK, Fork, Kids, Procs
  <2>2. KidsInv'
    <3>1. phase' = "fork" /\ opt.children > 1 /\ opt.step < 0 /\ c \in Nat
          /\ opt' = opt /\ Kids' = Kids /\ c' = c + 1
      BY <1>5, <1>o DEF TypeOK, KidsInv, Fork, Kids
    <3>2. \A k \in Kids : kid[k] # "none" <=> k <= c
      BY <1>5 DEF KidsInv, Fork
    <3>3. \A k \in Kids : kid'[k] = IF k = c + 1 THEN "running" ELSE kid[k]
      BY <1>5, <2>0 DEF TypeOK, Fork
    <3>4. \A k \in Kids : kid'[k] # "none" <=> k <= c + 1
      <4>1. \A k \in Kids : k \in Nat
        BY <1>0
      <4> QED
        BY <3>1, <3>2, <3>3, <4>1
    <3> QED
      BY <3>1, <3>4 DEF KidsInv
  <2> QED
    BY <2>1, <2>2
<1>6. CASE ForkFails
  BY <1>6 DEF TypeOK, KidsInv, ForkFails, kill_load, Kids, Procs
<1>7. CASE AllForked
  <2>1. TypeOK'
    BY <1>7 DEF TypeOK, AllForked, Kids, Procs
  <2>2. Alive' = Kids
    BY <1>7, <1>o DEF TypeOK, KidsInv, AllForked, Alive, Kids
  <2>3. KidsInv'
    BY <1>7, <1>f, <2>2 DEF KidsInv, AllForked
  <2> QED
    BY <2>1, <2>3
<1>8. CASE Wait
  <2>1. TypeOK'
    BY <1>8, <1>o DEF TypeOK, Wait, Kids, Procs
  <2>2. PICK k \in Kids : kid[k] = "zombie" /\ kid' = [kid EXCEPT ![k] = "none"]
    BY <1>8 DEF Wait
  <2>3. Alive' = Alive \ {k} /\ k \in Alive
    BY <1>8, <2>2 DEF TypeOK, Wait, Alive, Kids
  <2>4. IsFiniteSet(Alive)
    BY <1>f, FS_Subset DEF Alive
  <2>5. Cardinality(Alive') = Cardinality(Alive) - 1
    BY <2>3, <2>4, FS_RemoveElement
  <2>6. KidsInv'
    BY <1>8, <1>o, <2>5 DEF TypeOK, KidsInv, Wait
  <2> QED
    BY <2>1, <2>6
<1>9. CASE Waited
  <2>1. TypeOK'
    BY <1>9, <1>o, <1>t DEF TypeOK, Waited, Kids, Procs
  <2>2. IsFiniteSet(Alive)
    BY <1>f, FS_Subset DEF Alive
  <2>3. Alive = {}
    BY <1>9, <2>2, FS_EmptySet DEF KidsInv, Waited
  <2>4. KidsInv'
    BY <1>9, <2>3 DEF KidsInv, Waited, Alive, Kids
  <2> QED
    BY <2>1, <2>4
<1>10. CASE TableDone
  <2>1. TypeOK'
    BY <1>10, <1>o, <1>t DEF TypeOK, TableDone, Kids, Procs
  <2>2. KidsInv'
    BY <1>10 DEF KidsInv, TableDone, Kids
  <2> QED
    BY <2>1, <2>2
<1>11. ASSUME NEW p \in Procs, GenRow(p) PROVE Inv'
  <2>0. p \in Nat /\ (p # 0 => p \in Kids)
    BY <1>0 DEF Procs, Kids
  <2>1. tbl \in Tables
    BY <1>11, <1>o, <2>0 DEF TypeOK, KidsInv, GenRow, Generates
  <2>2. FileOf(p, opt) \in Nat
    BY <1>11, <1>o, <2>0 DEF KidsInv, GenRow, Generates, FileOf
  <2>3. seeds' \in [Procs -> [Stream -> Int]]
    <3>1. PICK usage \in Draws(tbl) :
            seeds' = [seeds EXCEPT ![p] = [s \in Stream |-> seeds[p][s] + RowTakes(tbl, usage, s)]]
      BY <1>11 DEF GenRow, TypeOK
    <3>2. [s \in Stream |-> seeds[p][s] + RowTakes(tbl, usage, s)] \in [Stream -> Int]
      <4> SUFFICES ASSUME NEW s \in Stream PROVE seeds[p][s] + RowTakes(tbl, usage, s) \in Int
        OBVIOUS
      <4>1. RowTakes(tbl, usage, s) \in Int /\ seeds[p][s] \in Int
        BY <2>1, RowTakesTyped DEF TypeOK
      <4> QED
        BY <4>1
    <3> QED
      BY <3>1, <3>2 DEF TypeOK
  <2>4. TypeOK'
    <3>1. row' \in [Procs -> Nat] /\ left' \in [Procs -> Nat] /\ row[p] \in Nat
      BY <1>11 DEF TypeOK, GenRow
    <3>2. written' \subseteq Tables \X Nat \X Nat
      BY <1>11, <2>1, <2>2, <3>1 DEF TypeOK, GenRow
    <3> QED
      BY <1>11, <2>3, <3>1, <3>2 DEF TypeOK, GenRow, Kids, Procs
  <2>5. KidsInv'
    BY <1>11 DEF KidsInv, GenRow, Kids, Alive
  <2> QED
    BY <2>4, <2>5
<1>12. ASSUME NEW k \in Kids, KidExits(k) \/ KidDies(k) PROVE Inv'
  <2>1. phase \in {"fork", "wait", "aborted"} /\ tbl \in Tables
    BY <1>12, <1>o DEF TypeOK, KidsInv, KidExits, KidDies
  <2>2. TypeOK'
    <3>1. kid' \in [Kids -> {"none", "running", "zombie"}]
      BY <1>12 DEF TypeOK, KidExits, KidDies
    <3>2. deaths' \subseteq Tables \X Kids
      BY <1>12, <2>1 DEF TypeOK, KidExits, KidDies
    <3> QED
      BY <1>12, <3>1, <3>2 DEF TypeOK, KidExits, KidDies, Kids, Procs
  <2>3. Alive' = Alive
    BY <1>12 DEF TypeOK, KidExits, KidDies, Alive, Kids
  <2>4. KidsInv'
    BY <1>12, <2>1, <2>3 DEF TypeOK, KidsInv, KidExits, KidDies, Kids
  <2> QED
    BY <2>2, <2>4
<1>13. CASE UNCHANGED vars
  BY <1>13 DEF TypeOK, KidsInv, vars, Kids, Procs, Alive
<1> QED
  BY <1>1, <1>2, <1>3, <1>4, <1>5, <1>6, <1>7, <1>8, <1>9, <1>10, <1>11, <1>12, <1>13 DEF Next

(* Every variable keeps its type: in particular main's counter stays       *)
(* within the number of children, and a child works on a table that was    *)
(* asked for.                                                              *)
THEOREM TypeCorrect == Spec => []TypeOK
<1>1. Inv => TypeOK
  BY DEF Inv
<1> QED
  BY InvInit, InvNext, <1>1, PTL DEF Spec

(* pload collects exactly its children, for every number of them and every *)
(* order in which they end.                                                *)
THEOREM EveryChildIsWaitedFor == Spec => []WaitsForAll
<1>1. Inv => WaitsForAll
  BY DEF Inv, KidsInv, WaitsForAll, Alive
<1> QED
  BY InvInit, InvNext, <1>1, PTL DEF Spec
-----------------------------------------------------------------------------
(* What is written. *)

Busy(p) == IF p = 0 THEN phase = "rows" ELSE kid[p] # "none"

(* A process has written its rows up to the one it is at. *)
ProgressInv ==
  \A p \in Procs : Busy(p) =>
    /\ row[p] >= First(tbl, opt, FileOf(p, opt))
    /\ row[p] + left[p] = First(tbl, opt, FileOf(p, opt)) + Size(tbl, opt, FileOf(p, opt))
    /\ \A r \in First(tbl, opt, FileOf(p, opt))..(row[p] - 1) : <<tbl, FileOf(p, opt), r>> \in written

(* A child that ended by itself had nothing left, and all of its part is   *)
(* there when it has been collected.                                       *)
EndedInv ==
  /\ \A k \in Kids : (kid[k] = "zombie" /\ <<tbl, k>> \notin deaths) => left[k] = 0
  /\ phase = "wait" =>
       \A k \in Kids : (kid[k] = "none" /\ <<tbl, k>> \notin deaths) =>
         \A r \in FileRows(tbl, opt, k) : <<tbl, k, r>> \in written

(* A file holds rows of its part only. *)
WrittenInv == \A x \in written : x[2] \in Files(opt) /\ x[3] \in FileRows(x[1], opt, x[2])

(* The tables behind main are complete. *)
BehindInv ==
  \A t \in opt.asked : (t < tbl /\ opt.step < 0 /\ \A k \in Kids : <<t, k>> \notin deaths) =>
    \A f \in Files(opt) : \A r \in FileRows(t, opt, f) : <<t, f, r>> \in written

RowsInv == ProgressInv /\ EndedInv /\ WrittenInv /\ BehindInv

(* A process that is busy writes to a file of the table. *)
LEMMA BusyFile ==
  ASSUME Inv, NEW p \in Procs, Busy(p)
  PROVE  /\ tbl \in Tables /\ FileOf(p, opt) \in Files(opt)
         /\ row[p] \in Nat /\ left[p] \in Nat
         /\ First(tbl, opt, FileOf(p, opt)) \in Nat /\ Size(tbl, opt, FileOf(p, opt)) \in Nat
<1>1. opt \in Opts /\ opt.asked \subseteq Tables /\ opt.children \in Nat \ {0} /\ opt.step \in Int
      /\ (opt.step = -1 \/ opt.step \in 1..opt.children)
  BY OptTyped DEF Inv, TypeOK, Opts
<1>2. p \in Nat /\ (p # 0 => p \in Kids)
  BY <1>1 DEF Procs, Kids
<1>3. tbl \in Tables
  BY <1>1, <1>2 DEF Inv, TypeOK, KidsInv, Busy
<1>4. FileOf(p, opt) \in Files(opt)
  BY <1>1, <1>2 DEF Inv, TypeOK, KidsInv, Busy, FileOf, Files, Kids
<1>5. row[p] \in Nat /\ left[p] \in Nat
  BY DEF Inv, TypeOK
<1> QED
  BY <1>1, <1>3, <1>4, <1>5, FileTyped

LEMMA RowsInit == Init => RowsInv
<1> SUFFICES ASSUME Init PROVE RowsInv
  OBVIOUS
<1>1. opt \in Opts /\ opt.children \in Nat /\ opt.asked \subseteq Tables
  BY OptTyped DEF Init, Opts
<1>2. \A t \in Tables : ~(t < PART)
  BY DEF Tables, PART, SUPP, CUST, DATE, LINE
<1>3. \A p \in Procs : ~Busy(p)
  BY <1>1 DEF Init, Busy, Procs, Kids
<1>4. ProgressInv
  BY <1>3 DEF ProgressInv
<1>5. EndedInv /\ WrittenInv
  BY DEF Init, EndedInv, WrittenInv
<1>6. BehindInv
  BY <1>1, <1>2 DEF Init, BehindInv
<1> QED
  BY <1>4, <1>5, <1>6 DEF RowsInv

LEMMA RowsNext == Inv /\ Inv' /\ RowsInv /\ [Next]_vars => RowsInv'
<1> SUFFICES ASSUME Inv, Inv', RowsInv, [Next]_vars
             PROVE  RowsInv'
  OBVIOUS
<1>o. opt \in Opts /\ opt.asked \subseteq Tables /\ opt.children \in Nat \ {0} /\ opt.step \in Int
      /\ (opt.step = -1 \/ opt.step \in 1..opt.children)
  BY OptTyped DEF Inv, TypeOK, Opts
<1>0. 0 \in Procs /\ Kids \subseteq Procs /\ Procs \subseteq Nat /\ 0 \notin Kids
      /\ Procs = Kids \cup {0}
  BY <1>o DEF Procs, Kids
<1>1. tbl \in Int /\ \A t \in opt.asked : t \in Int
  <2>1. \A t \in Tables : t \in Int
    BY DEF Tables, PART, SUPP, CUST, DATE, LINE
  <2> QED
    BY <1>o, <2>1 DEF Inv, TypeOK, LINE
<1>2. ASSUME NEW t, IsNext(t), tbl' = t, UNCHANGED <<opt, written, deaths>>
      PROVE  BehindInv' /\ WrittenInv'
  <2>1. \A u \in opt.asked : u < t => u < tbl
    BY <1>o, <1>1, <1>2 DEF IsNext, Ahead
  <2> QED
    BY <1>2, <2>1 DEF RowsInv, BehindInv, WrittenInv, Kids
<1>3. CASE Serial
  <2>1. PICK t \in Tables : /\ IsNext(t) /\ tbl' = t
                            /\ row' = [row EXCEPT ![0] = 1]
                            /\ left' = [left EXCEPT ![0] = serial_rows(t, opt)]
    BY <1>3 DEF Serial
  <2>2. BehindInv' /\ WrittenInv'
    BY <1>2, <1>3, <2>1 DEF Serial
  <2>3. \A k \in Kids : kid'[k] = "none"
    BY <1>3 DEF Serial, Inv, KidsInv
  <2>4. EndedInv'
    BY <1>3, <2>3 DEF Serial, EndedInv, Kids
  <2>5. row'[0] = 1 /\ left'[0] = serial_rows(t, opt)
    BY <1>0, <2>1 DEF Inv, TypeOK
  <2>6. FileOf(0, opt) = 0 /\ First(t, opt, 0) = 1 /\ Size(t, opt, 0) = serial_rows(t, opt)
    BY <1>3 DEF Serial, FileOf, First, Size
  <2>7. ProgressInv'
    BY <1>3, <1>0, <2>1, <2>3, <2>5, <2>6 DEF Serial, ProgressInv, Busy, Procs
  <2> QED
    BY <2>2, <2>4, <2>7 DEF RowsInv
<1>4. CASE Partial
  <2>1. PICK t \in Tables :
          /\ IsNext(t) /\ tbl' = t
          /\ row' = [row EXCEPT ![0] = part_start(t, opt, opt.step)]
          /\ left' = [left EXCEPT ![0] = part_count(t, opt, opt.step)]
    BY <1>4 DEF Partial
  <2>2. BehindInv' /\ WrittenInv'
    BY <1>2, <1>4, <2>1 DEF Partial
  <2>3. \A k \in Kids : kid'[k] = "none"
    BY <1>4 DEF Partial, Inv, KidsInv
  <2>4. EndedInv'
    BY <1>4, <2>3 DEF Partial, EndedInv, Kids
  <2>5. row'[0] = part_start(t, opt, opt.step) /\ left'[0] = part_count(t, opt, opt.step)
    BY <1>0, <2>1 DEF Inv, TypeOK
  <2>6. FileOf(0, opt) = opt.step /\ First(t, opt, opt.step) = part_start(t, opt, opt.step)
        /\ Size(t, opt, opt.step) = part_count(t, opt, opt.step)
    BY <1>4, <1>o DEF Partial, FileOf, First, Size
  <2>7. part_start(t, opt, opt.step) \in Nat
    BY <1>4, <1>o, PartTyped DEF Partial
  <2>8. ProgressInv'
    BY <1>4, <1>0, <2>1, <2>3, <2>5, <2>6, <2>7 DEF Partial, ProgressInv, Busy, Procs
  <2> QED
    BY <2>2, <2>4, <2>8 DEF RowsInv
<1>5. CASE Pload
  <2>1. BehindInv' /\ WrittenInv'
    BY <1>2, <1>5 DEF Pload
  <2>2. \A k \in Kids : kid'[k] = "none"
    BY <1>5 DEF Pload, Inv, KidsInv
  <2>3. EndedInv' /\ ProgressInv'
    BY <1>5, <1>0, <2>2 DEF Pload, EndedInv, ProgressInv, Busy, Kids, Procs
  <2> QED
    BY <2>1, <2>3 DEF RowsInv
<1>6. CASE Return
  BY <1>6 DEF Return, RowsInv, ProgressInv, EndedInv, WrittenInv, BehindInv, Busy, Kids, Procs
<1>7. CASE Fork
  <2>1. c + 1 \in Kids /\ tbl \in Tables /\ opt.children > 1 /\ c + 1 > 0
    BY <1>7, <1>o DEF Fork, Inv, TypeOK, KidsInv, Kids
  <2>2. BehindInv' /\ WrittenInv'
    BY <1>7 DEF Fork, RowsInv, BehindInv, WrittenInv, Kids
  <2>3. EndedInv'
    BY <1>7, <1>0, <2>1 DEF Fork, RowsInv, EndedInv, Inv, TypeOK, Kids
  <2>4. ASSUME NEW p \in Procs, Busy(p)', p # c + 1
        PROVE  Busy(p) /\ row'[p] = row[p] /\ left'[p] = left[p]
    BY <1>7, <1>0, <2>1, <2>4 DEF Fork, Busy, Inv, TypeOK
  <2>5. /\ FileOf(c + 1, opt) = c + 1
        /\ row'[c + 1] = First(tbl, opt, c + 1) /\ left'[c + 1] = Size(tbl, opt, c + 1)
        /\ First(tbl, opt, c + 1) \in Nat
    BY <1>7, <1>0, <1>o, <2>1, PartTyped DEF Fork, FileOf, First, Size, Inv, TypeOK, Kids
  <2>6. ProgressInv'
    <3> SUFFICES ASSUME NEW p \in Procs, Busy(p)'
                 PROVE  /\ row'[p] >= First(tbl, opt, FileOf(p, opt))
                        /\ row'[p] + left'[p] = First(tbl, opt, FileOf(p, opt)) + Size(tbl, opt, FileOf(p, opt))
                        /\ \A r \in First(tbl, opt, FileOf(p, opt))..(row'[p] - 1) :
                             <<tbl, FileOf(p, opt), r>> \in written
      BY <1>7 DEF Fork, ProgressInv, Procs
    <3>1. CASE p = c + 1
      BY <2>5, <3>1
    <3>2. CASE p # c + 1
      BY <2>4, <3>2 DEF RowsInv, ProgressInv
    <3> QED
      BY <3>1, <3>2
  <2> QED
    BY <2>2, <2>3, <2>6 DEF RowsInv
<1>8. CASE ForkFails
  BY <1>8 DEF ForkFails, RowsInv, ProgressInv, EndedInv, WrittenInv, BehindInv, Busy, Kids, Procs
<1>9. CASE AllForked
  <2>1. \A k \in Kids : kid[k] # "none"
    BY <1>9, <1>o DEF AllForked, Inv, KidsInv, Kids
  <2> QED
    BY <1>9, <2>1 DEF AllForked, RowsInv, ProgressInv, EndedInv, WrittenInv, BehindInv, Busy, Kids, Procs
<1>10. CASE Wait
  <2>1. PICK k \in Kids : kid[k] = "zombie" /\ kid' = [kid EXCEPT ![k] = "none"]
    BY <1>10 DEF Wait
  <2>2. \A p \in Procs : Busy(p)' => Busy(p)
    BY <1>10, <1>0, <2>1 DEF Wait, Busy, Inv, TypeOK
  <2>3. ProgressInv'
    BY <1>10, <2>2 DEF Wait, RowsInv, ProgressInv, Procs
  <2>4. BehindInv' /\ WrittenInv'
    BY <1>10 DEF Wait, RowsInv, BehindInv, WrittenInv, Kids
  <2>5. <<tbl, k>> \notin deaths => \A r \in FileRows(tbl, opt, k) : <<tbl, k, r>> \in written
    <3>1. Busy(k) /\ k \in Procs /\ FileOf(k, opt) = k
      BY <1>0, <2>1 DEF Busy, FileOf, Kids
    <3> QED
      BY <2>1, <3>1, BusyFile DEF RowsInv, ProgressInv, EndedInv, FileRows
  <2>6. EndedInv'
    BY <1>10, <2>1, <2>5 DEF Wait, RowsInv, EndedInv, Inv, TypeOK, Kids
  <2> QED
    BY <2>3, <2>4, <2>6 DEF RowsInv
<1>11. CASE Waited
  <2>1. \A k \in Kids : kid'[k] = "none" /\ kid[k] = "none"
    BY <1>11 DEF Waited, Inv, KidsInv, Kids
  <2>2. ProgressInv' /\ EndedInv' /\ WrittenInv'
    BY <1>11, <1>0, <2>1 DEF Waited, RowsInv, ProgressInv, EndedInv, WrittenInv, Busy, Kids, Procs
  <2>3. Files(opt) = Kids
    BY <1>11, <1>o DEF Waited, Inv, KidsInv, Files, Kids
  <2>4. \A t \in opt.asked : t < tbl + 1 => t < tbl \/ t = tbl
    BY <1>o, <1>1
  <2>5. BehindInv'
    BY <1>11, <2>1, <2>3, <2>4 DEF Waited, RowsInv, BehindInv, EndedInv, Kids
  <2> QED
    BY <2>2, <2>5 DEF RowsInv
<1>12. CASE TableDone
  <2>1. \A k \in Kids : kid'[k] = "none"
    BY <1>12 DEF TableDone, Inv, KidsInv, Kids
  <2>2. ProgressInv' /\ EndedInv' /\ WrittenInv'
    BY <1>12, <1>0, <2>1 DEF TableDone, RowsInv, ProgressInv, EndedInv, WrittenInv, Busy, Kids, Procs
  <2>3. opt.step < 0 => Files(opt) = {0} /\ FileOf(0, opt) = 0
    BY <1>12, <1>o DEF TableDone, Inv, KidsInv, Files, FileOf
  <2>4. \A t \in opt.asked : t < tbl + 1 => t < tbl \/ t = tbl
    BY <1>o, <1>1
  <2>5. opt.step < 0 => \A r \in FileRows(tbl, opt, 0) : <<tbl, 0, r>> \in written
    BY <1>12, <1>0, <2>3, BusyFile DEF TableDone, RowsInv, ProgressInv, Busy, FileRows
  <2>6. BehindInv'
    BY <1>12, <2>3, <2>4, <2>5 DEF TableDone, RowsInv, BehindInv, Kids
  <2> QED
    BY <2>2, <2>6 DEF RowsInv
<1>13. ASSUME NEW p \in Procs, GenRow(p) PROVE RowsInv'
  <2> DEFINE f == FileOf(p, opt)
  <2>1. Busy(p) /\ left[p] > 0 /\ UNCHANGED <<opt, phase, tbl, kid, deaths>>
        /\ written' = written \cup {<<tbl, f, row[p]>>}
    BY <1>13 DEF GenRow, Generates, Busy
  <2>2. tbl \in Tables /\ f \in Files(opt) /\ row[p] \in Nat /\ left[p] \in Nat
        /\ First(tbl, opt, f) \in Nat /\ Size(tbl, opt, f) \in Nat
    BY <2>1, BusyFile
  <2>3. /\ row'[p] = row[p] + 1 /\ left'[p] = left[p] - 1
        /\ \A q \in Procs : q # p => row'[q] = row[q] /\ left'[q] = left[q]
    BY <1>13 DEF GenRow, Inv, TypeOK
  <2>4. ProgressInv'
    <3> SUFFICES ASSUME NEW q \in Procs, Busy(q)
                 PROVE  /\ row'[q] >= First(tbl, opt, FileOf(q, opt))
                        /\ row'[q] + left'[q] = First(tbl, opt, FileOf(q, opt)) + Size(tbl, opt, FileOf(q, opt))
                        /\ \A r \in First(tbl, opt, FileOf(q, opt))..(row'[q] - 1) :
                             <<tbl, FileOf(q, opt), r>> \in written'
      BY <2>1 DEF ProgressInv, Procs, Busy
    <3>1. CASE q = p
      <4>1. /\ row[p] >= First(tbl, opt, f)
            /\ row[p] + left[p] = First(tbl, opt, f) + Size(tbl, opt, f)
            /\ \A r \in First(tbl, opt, f)..(row[p] - 1) : <<tbl, f, r>> \in written
        BY <2>1 DEF RowsInv, ProgressInv
      <4> HIDE DEF f
      <4>2. \A r \in First(tbl, opt, f)..(row'[p] - 1) :
               r \in First(tbl, opt, f)..(row[p] - 1) \/ r = row[p]
        BY <2>2, <2>3
      <4>3. \A r \in First(tbl, opt, f)..(row'[p] - 1) : <<tbl, f, r>> \in written'
        BY <2>1, <4>1, <4>2
      <4>4. row'[p] >= First(tbl, opt, f) /\ row'[p] + left'[p] = First(tbl, opt, f) + Size(tbl, opt, f)
        BY <2>2, <2>3, <4>1
      <4> QED
        BY <3>1, <4>3, <4>4 DEF f
    <3>2. CASE q # p
      BY <2>1, <2>3, <3>2 DEF RowsInv, ProgressInv
    <3> QED
      BY <3>1, <3>2
  <2>5. EndedInv'
    <3>1. \A k \in Kids : kid[k] = "zombie" => k # p
      BY <1>13, <1>0 DEF GenRow, Generates
    <3> QED
      BY <1>0, <2>1, <2>3, <3>1 DEF RowsInv, EndedInv, Kids
  <2>6. WrittenInv'
    <3>1. row[p] \in FileRows(tbl, opt, f)
      BY <2>1, <2>2 DEF RowsInv, ProgressInv, FileRows
    <3> QED
      BY <2>1, <2>2, <3>1 DEF RowsInv, WrittenInv
  <2>7. BehindInv'
    BY <2>1 DEF RowsInv, BehindInv, Kids
  <2> QED
    BY <2>4, <2>5, <2>6, <2>7 DEF RowsInv
<1>14. ASSUME NEW k \in Kids, KidExits(k) PROVE RowsInv'
  <2>1. \A p \in Procs : Busy(p)' => Busy(p)
    BY <1>14, <1>0 DEF KidExits, Busy, Inv, TypeOK
  <2>2. ProgressInv'
    BY <1>14, <2>1 DEF KidExits, RowsInv, ProgressInv, Procs
  <2>3. EndedInv'
    BY <1>14 DEF KidExits, RowsInv, EndedInv, Inv, TypeOK, Kids
  <2>4. WrittenInv' /\ BehindInv'
    BY <1>14 DEF KidExits, RowsInv, WrittenInv, BehindInv, Kids
  <2> QED
    BY <2>2, <2>3, <2>4 DEF RowsInv
<1>15. ASSUME NEW k \in Kids, KidDies(k) PROVE RowsInv'
  <2>1. \A p \in Procs : Busy(p)' => Busy(p)
    BY <1>15, <1>0 DEF KidDies, Busy, Inv, TypeOK
  <2>2. ProgressInv'
    BY <1>15, <2>1 DEF KidDies, RowsInv, ProgressInv, Procs
  <2>3. EndedInv'
    BY <1>15 DEF KidDies, RowsInv, EndedInv, Inv, TypeOK, Kids
  <2>4. WrittenInv' /\ BehindInv'
    BY <1>15 DEF KidDies, RowsInv, WrittenInv, BehindInv, Kids
  <2> QED
    BY <2>2, <2>3, <2>4 DEF RowsInv
<1>16. CASE UNCHANGED vars
  BY <1>16 DEF vars, RowsInv, ProgressInv, EndedInv, WrittenInv, BehindInv, Busy, Kids, Procs
<1> QED
  BY <1>3, <1>4, <1>5, <1>6, <1>7, <1>8, <1>9, <1>10, <1>11, <1>12, <1>13, <1>14, <1>15, <1>16 DEF Next

(* Two files of a table have no row in common. *)
LEMMA FilesDisjoint ==
  ASSUME NEW o \in Opts, NEW t \in Tables, NEW f \in Files(o), NEW g \in Files(o),
         NEW r \in FileRows(t, o, f), r \in FileRows(t, o, g)
  PROVE  f = g
<1>1. o.children \in Nat \ {0}
  BY OptTyped
<1>2. CASE o.children = 1
  BY <1>2 DEF Files
<1>3. CASE o.children # 1
  <2>1. f \in 1..o.children /\ g \in 1..o.children
        /\ part_start(t, o, f) \in Nat /\ part_count(t, o, f) \in Nat
        /\ part_start(t, o, g) \in Nat /\ part_count(t, o, g) \in Nat
    BY <1>3, PartTyped DEF Files
  <2>2. r \in part_start(t, o, f)..(part_start(t, o, f) + part_count(t, o, f) - 1)
        /\ r \in part_start(t, o, g)..(part_start(t, o, g) + part_count(t, o, g) - 1)
    BY <1>3 DEF FileRows, First, Size
  <2>3. ~(f < g)
    BY <2>1, <2>2, PartsInOrder
  <2>4. ~(g < f)
    BY <2>1, <2>2, PartsInOrder
  <2> QED
    BY <1>1, <2>1, <2>3, <2>4
<1> QED
  BY <1>2, <1>3

(* The files of a table hold all of its rows. *)
LEMMA FilesCover ==
  ASSUME NEW o \in Opts, NEW t \in Tables
  PROVE  UNION {FileRows(t, o, f) : f \in Files(o)}
           = 1..(IF o.children = 1 THEN serial_rows(t, o) ELSE Base[t] * o.scale)
<1>1. CASE o.children = 1
  <2>1. Files(o) = {0} /\ FileRows(t, o, 0) = 1..(1 + serial_rows(t, o) - 1)
    BY <1>1 DEF Files, FileRows, First, Size
  <2>2. 1 + serial_rows(t, o) - 1 = serial_rows(t, o)
    BY SerialTyped
  <2> QED
    BY <1>1, <2>1, <2>2
<1>2. CASE o.children # 1
  <2>1. Files(o) = 1..o.children /\ \A f \in Files(o) : FileRows(t, o, f) = PartRows(t, o, f)
    BY <1>2 DEF Files, FileRows, First, Size, PartRows
  <2>2. \A f \in 1..o.children : PartRows(t, o, f) \subseteq 1..(Base[t] * o.scale)
    BY PartWithin
  <2>3. \A r \in 1..(Base[t] * o.scale) : \E f \in 1..o.children : r \in PartRows(t, o, f)
    BY PartsCover
  <2>4. UNION {FileRows(t, o, f) : f \in Files(o)} = 1..(Base[t] * o.scale)
    BY <2>1, <2>2, <2>3
  <2> QED
    BY <1>2, <2>4
<1> QED
  BY <1>1, <1>2

(* The inductive invariant: the children that pload has to collect, how    *)
(* far each process is, and what the files hold.                           *)
THEOREM InductiveInvariant == Spec => [](Inv /\ RowsInv)
BY InvInit, InvNext, RowsInit, RowsNext, PTL DEF Spec

(* For every base, scale and number of children: no row is generated by    *)
(* two processes.                                                          *)
THEOREM RowsOnce == Spec => []NoRowTwice
<1>1. Inv /\ RowsInv => NoRowTwice
  <2> SUFFICES ASSUME Inv, RowsInv, NEW x \in written, NEW y \in written, x[1] = y[1], x[3] = y[3]
               PROVE  x[2] = y[2]
    BY DEF NoRowTwice
  <2>1. opt \in Opts /\ x[1] \in Tables
    BY DEF Inv, TypeOK, Opts
  <2>2. /\ x[2] \in Files(opt) /\ x[3] \in FileRows(x[1], opt, x[2])
        /\ y[2] \in Files(opt) /\ x[3] \in FileRows(x[1], opt, y[2])
    BY DEF RowsInv, WrittenInv
  <2> QED
    BY <2>1, <2>2, FilesDisjoint
<1> QED
  BY InductiveInvariant, <1>1, PTL

(* For every base, scale and number of children: main leaves no table      *)
(* behind that misses a row, unless a child died on it.                    *)
THEOREM NoRowMissing == Spec => []TableComplete
<1>1. Inv /\ RowsInv => TableComplete
  <2> SUFFICES ASSUME Inv, RowsInv, NEW t \in opt.asked, t < tbl, opt.step < 0,
                      \A k \in Kids : <<t, k>> \notin deaths
               PROVE  RowsOf(t) = AllRows(t)
    BY DEF TableComplete
  <2>1. opt \in Opts /\ t \in Tables /\ written \subseteq Tables \X Nat \X Nat
    BY OptTyped DEF Inv, TypeOK, Opts
  <2>2. AllRows(t) = UNION {FileRows(t, opt, f) : f \in Files(opt)}
    BY <2>1, FilesCover DEF AllRows
  <2>3. \A r \in RowsOf(t) : \E f \in Files(opt) : r \in FileRows(t, opt, f)
    BY DEF RowsOf, RowsInv, WrittenInv
  <2>4. \A f \in Files(opt) : \A r \in FileRows(t, opt, f) : r \in RowsOf(t)
    <3> SUFFICES ASSUME NEW f \in Files(opt), NEW r \in FileRows(t, opt, f) PROVE r \in RowsOf(t)
      OBVIOUS
    <3>1. <<t, f, r>> \in written
      BY DEF RowsInv, BehindInv
    <3>2. <<t, f, r>>[1] = t /\ <<t, f, r>>[3] = r
      OBVIOUS
    <3> QED
      BY <3>1, <3>2, Zenon DEF RowsOf
  <2> QED
    BY <2>2, <2>3, <2>4
<1> QED
  BY InductiveInvariant, <1>1, PTL
-----------------------------------------------------------------------------
(* The streams of the columns that gen_seed skips in step with row_stop. *)

LEMMA ContinuedOf ==
  /\ Continued(PART) = PartStreams \ {"P_MFG"} /\ Continued(SUPP) = {"S_ADDR", "S_NTRG"}
  /\ Continued(CUST) = CustStreams /\ Continued(LINE) = LineStreams \cup {"O_ODATE", "O_LCNT"}
  /\ Continued(DATE) = {}
BY TablesApart, Zenon DEF Continued

LEMMA SeedTableOf ==
  /\ \A s \in PartStreams : SeedTable(s) = PART
  /\ \A s \in SuppStreams : SeedTable(s) = SUPP
  /\ \A s \in CustStreams : SeedTable(s) = CUST
  /\ \A s \in OrderStreams : SeedTable(s) = ORDER
  /\ \A s \in LineStreams : SeedTable(s) = LINE
BY DEF SeedTable, PartStreams, SuppStreams, CustStreams, OrderStreams, LineStreams

LEMMA BoundaryOf ==
  /\ \A s \in LineStreams : Boundary(s) = O_LCNT_MAX
  /\ Boundary("S_ADDR") = 9 /\ Boundary("C_ADDR") = 9 /\ Boundary("C_PHNE") = 3
  /\ Boundary("P_NAME") = MAX_COLOR
  /\ \A s \in {"P_BRND", "P_TYPE", "P_SIZE", "P_CNTR", "S_NTRG", "C_NTRG", "C_MSEG", "O_ODATE", "O_LCNT"} :
       Boundary(s) = 1
BY DEF Boundary, LineStreams

LEMMA ContinuedStreams ==
  ASSUME NEW t \in Tables, NEW s \in Continued(t)
  PROVE  s \in Stream /\ s # "P_MFG"
BY ContinuedOf DEF Tables, Stream, PartStreams, SuppStreams, CustStreams, OrderStreams, LineStreams

(* gen_seed skips a row's boundary. *)
LEMMA SkipsBoundary ==
  ASSUME NEW t \in Tables, NEW s \in Continued(t)
  PROVE  gen_seed(t)[s] = Boundary(s)
<1>0. s \in Stream
  BY ContinuedStreams
<1>1. CASE t = PART
  BY <1>0, <1>1, ContinuedOf, SeedsOf, BoundaryOf DEF sd_part, Once, PartStreams
<1>2. CASE t = SUPP
  BY <1>0, <1>2, ContinuedOf, SeedsOf, BoundaryOf DEF sd_supp, Once
<1>3. CASE t = CUST
  BY <1>0, <1>3, ContinuedOf, SeedsOf, BoundaryOf DEF sd_cust, Once, CustStreams
<1>4. CASE t = LINE
  BY <1>0, <1>4, ContinuedOf, SeedsOf, BoundaryOf DEF sd_line, LineStreams
<1>5. CASE t = DATE
  BY <1>5, ContinuedOf
<1> QED
  BY <1>1, <1>2, <1>3, <1>4, <1>5 DEF Tables

(* So does a row that is generated, whatever it draws. *)
LEMMA TakesBoundary ==
  ASSUME NEW t \in Tables, NEW u \in Draws(t), NEW s \in Continued(t)
  PROVE  RowTakes(t, u, s) = Boundary(s)
<1>0. s \in Stream /\ u[s] \in Nat /\ Boundary(s) \in Nat /\ Uncounted(t)[s] = 0
  BY ContinuedStreams, DrawsTyped, SeedTyped DEF Uncounted, Once
<1>1. CASE SeedTable(s) = t
  BY <1>0, <1>1 DEF RowTakes, row_stop
<1>2. CASE SeedTable(s) # t
  <2>1. t = LINE /\ s \in {"O_ODATE", "O_LCNT"}
    BY <1>2, ContinuedOf, SeedTableOf DEF Tables, SuppStreams
  <2>2. u \in mk_order
    BY <2>1, DrawsOf, Zenon
  <2>3. u[s] = 1
    BY <1>0, <2>1, <2>2 DEF mk_order, OrderStreams
  <2> QED
    BY <1>0, <1>2, <2>1, <2>3, BoundaryOf DEF RowTakes, row_stop
<1> QED
  BY <1>1, <1>2

(* Main has not touched its streams before its only table, or before it    *)
(* forks; a process that generates a table is a boundary further with      *)
(* every row.                                                              *)
StreamsInv ==
  /\ (opt.children > 1 /\ opt.step < 0) => \A s \in Stream : seeds[0][s] = 0
  /\ \A t : (phase = "tables" /\ opt.asked = {t} /\ tbl <= t) => \A s \in Stream : seeds[0][s] = 0
  /\ \A p \in Procs : (Generates(p) /\ Fresh(p)) =>
       \A s \in Continued(tbl) : seeds[p][s] = (row[p] - 1) * Boundary(s)

LEMMA StreamsInit == Init => StreamsInv
<1> SUFFICES ASSUME Init PROVE StreamsInv
  OBVIOUS
<1>1. opt.children \in Nat
  BY OptTyped DEF Init, Opts
<1>2. \A s \in Stream : seeds[0][s] = 0
  BY <1>1 DEF Init, Procs
<1>3. \A p \in Procs : ~Generates(p)
  BY <1>1 DEF Init, Generates, Procs, Kids
<1> QED
  BY <1>2, <1>3 DEF StreamsInv

(* The streams after set_state, from their start. *)
LEMMA SetStateSkips ==
  ASSUME NEW o \in Opts, NEW t \in Tables, NEW k \in 1..o.children, NEW s \in Continued(t),
         NEW from \in [Stream -> Int], \A x \in Stream : from[x] = 0
  PROVE  set_state(t, o, k, from)[s] = (part_start(t, o, k) - 1) * Boundary(s)
<1>1. s \in Stream /\ Boundary(s) \in Nat /\ gen_seed(t)[s] = Boundary(s)
  BY ContinuedStreams, SeedTyped, SkipsBoundary
<1>2. rowcount_of(t, o) \in Nat /\ o.children \in Nat /\ k \in Nat
  BY RowsAddUp, OptTyped
<1>3. set_state(t, o, k, from)[s] = 0 + (k - 1) * rowcount_of(t, o) * Boundary(s)
  BY <1>1 DEF set_state
<1>4. part_start(t, o, k) - 1 = (k - 1) * rowcount_of(t, o)
  BY <1>2 DEF part_start
<1>5. (k - 1) * rowcount_of(t, o) * Boundary(s) \in Int
  BY <1>1, <1>2
<1> QED
  BY <1>3, <1>4, <1>5

LEMMA StreamsNext == Inv /\ Inv' /\ StreamsInv /\ [Next]_vars => StreamsInv'
<1> SUFFICES ASSUME Inv, Inv', StreamsInv, [Next]_vars
             PROVE  StreamsInv'
  OBVIOUS
<1>o. opt \in Opts /\ opt.asked \subseteq Tables /\ opt.children \in Nat \ {0} /\ opt.step \in Int
      /\ (opt.step = -1 \/ opt.step \in 1..opt.children)
  BY OptTyped DEF Inv, TypeOK, Opts
<1>0. 0 \in Procs /\ Kids \subseteq Procs /\ Procs \subseteq Nat /\ 0 \notin Kids
      /\ Procs = Kids \cup {0}
  BY <1>o DEF Procs, Kids
<1>1. seeds[0] \in [Stream -> Int] /\ tbl \in Int
  BY <1>0 DEF Inv, TypeOK, LINE
<1>b. \A t \in Tables : \A s \in Continued(t) : s \in Stream /\ Boundary(s) \in Nat
  BY ContinuedStreams, SeedTyped
<1>2. ASSUME UNCHANGED <<opt, tbl, row, seeds>>, phase' # "tables",
             \A p \in Procs : Generates(p)' => Generates(p)
      PROVE  StreamsInv'
  BY <1>2 DEF StreamsInv, Fresh, Procs
<1>3. ASSUME NEW t \in Tables, IsNext(t), opt.asked = {t}, phase = "tables"
      PROVE  \A s \in Stream : seeds[0][s] = 0
  BY <1>3 DEF StreamsInv, IsNext, Ahead
<1>4. CASE Serial
  <2>1. PICK t \in Tables : IsNext(t) /\ tbl' = t /\ row' = [row EXCEPT ![0] = 1]
    BY <1>4 DEF Serial
  <2>2. row'[0] = 1
    BY <1>0, <2>1 DEF Inv, TypeOK
  <2>3. \A p \in Procs : Generates(p)' => p = 0
    BY <1>4, <1>0 DEF Serial, Generates, Inv, KidsInv
  <2>4. ASSUME Fresh(0)', NEW s \in Continued(t)
        PROVE  seeds[0][s] = (row'[0] - 1) * Boundary(s)
    <3>1. seeds[0][s] = 0
      BY <1>3, <1>4, <1>b, <2>1, <2>4 DEF Serial, Fresh
    <3> QED
      BY <1>b, <2>2, <3>1
  <2> QED
    BY <1>4, <2>1, <2>3, <2>4 DEF Serial, StreamsInv, Procs
<1>5. CASE Partial
  <2>1. PICK t \in Tables : /\ IsNext(t) /\ tbl' = t
                            /\ row' = [row EXCEPT ![0] = part_start(t, opt, opt.step)]
                            /\ seeds' = [seeds EXCEPT ![0] = set_state(t, opt, opt.step, seeds[0])]
    BY <1>5 DEF Partial
  <2>2. row'[0] = part_start(t, opt, opt.step) /\ seeds'[0] = set_state(t, opt, opt.step, seeds[0])
    BY <1>0, <2>1 DEF Inv, TypeOK
  <2>3. \A p \in Procs : Generates(p)' => p = 0
    BY <1>5, <1>0 DEF Partial, Generates, Inv, KidsInv
  <2>4. ASSUME Fresh(0)', NEW s \in Continued(t)
        PROVE  seeds'[0][s] = (row'[0] - 1) * Boundary(s)
    <3>1. \A x \in Stream : seeds[0][x] = 0
      BY <1>3, <1>5, <2>1, <2>4 DEF Partial, Fresh
    <3>2. opt.step \in 1..opt.children
      BY <1>5, <1>o DEF Partial
    <3> QED
      BY <1>o, <1>1, <2>2, <3>1, <3>2, SetStateSkips
  <2> QED
    BY <1>5, <1>o, <2>1, <2>3, <2>4 DEF Partial, StreamsInv, Procs
<1>6. CASE Pload
  <2>1. \A p \in Procs : ~Generates(p)'
    BY <1>6, <1>0 DEF Pload, Generates, Inv, KidsInv
  <2> QED
    BY <1>6, <2>1 DEF Pload, StreamsInv, Procs
<1>7. CASE Return
  BY <1>7, <1>2 DEF Return, Generates
<1>8. CASE Fork
  <2>1. c + 1 \in Kids /\ tbl \in Tables /\ opt.children > 1 /\ opt.step < 0
    BY <1>8, <1>o DEF Fork, Inv, TypeOK, KidsInv, Kids
  <2>2. \A x \in Stream : seeds[0][x] = 0
    BY <2>1 DEF StreamsInv
  <2>3. /\ row'[c + 1] = part_start(tbl, opt, c + 1)
        /\ seeds'[c + 1] = set_state(tbl, opt, c + 1, seeds[0])
        /\ \A p \in Procs : p # c + 1 => row'[p] = row[p] /\ seeds'[p] = seeds[p]
    BY <1>8, <1>0, <2>1 DEF Fork, Inv, TypeOK
  <2>4. \A p \in Procs : (Generates(p)' /\ p # c + 1) => Generates(p)
    BY <1>8, <1>0, <2>1 DEF Fork, Generates, Inv, TypeOK
  <2>5. \A s \in Continued(tbl) : seeds'[c + 1][s] = (row'[c + 1] - 1) * Boundary(s)
    BY <1>o, <1>1, <2>1, <2>2, <2>3, SetStateSkips DEF Kids
  <2>6. seeds'[0] = seeds[0]
    BY <1>0, <2>1, <2>3
  <2>7. \A p \in Procs : (Generates(p)' /\ Fresh(p)') =>
           \A s \in Continued(tbl) : seeds'[p][s] = (row'[p] - 1) * Boundary(s)
    <3> SUFFICES ASSUME NEW p \in Procs, Generates(p)', Fresh(p)', NEW s \in Continued(tbl)
                 PROVE  seeds'[p][s] = (row'[p] - 1) * Boundary(s)
      OBVIOUS
    <3>1. CASE p = c + 1
      BY <2>5, <3>1
    <3>2. CASE p # c + 1
      <4>1. Generates(p) /\ Fresh(p)
        BY <1>8, <2>4, <3>2 DEF Fork, Fresh
      <4> QED
        BY <2>3, <3>2, <4>1 DEF StreamsInv
    <3> QED
      BY <3>1, <3>2
  <2> QED
    BY <1>8, <2>2, <2>6, <2>7 DEF Fork, StreamsInv, Procs
<1>9. CASE ForkFails
  BY <1>9, <1>2 DEF ForkFails, Generates
<1>10. CASE AllForked
  BY <1>10, <1>2 DEF AllForked, Generates
<1>11. CASE Wait
  <2>1. \A p \in Procs : Generates(p)' => Generates(p)
    BY <1>11, <1>0 DEF Wait, Generates, Inv, TypeOK
  <2> QED
    BY <1>11, <1>2, <2>1 DEF Wait
<1>12. CASE Waited \/ TableDone
  <2>1. \A p \in Procs : ~Generates(p)'
    BY <1>12, <1>0 DEF Waited, TableDone, Generates, Inv, KidsInv, Kids
  <2>2. \A t : opt.asked = {t} => ~(tbl + 1 <= t)
    <3>1. tbl \in opt.asked
      BY <1>12 DEF Waited, TableDone, Inv, TypeOK
    <3> QED
      BY <1>1, <3>1
  <2> QED
    BY <1>12, <2>1, <2>2 DEF Waited, TableDone, StreamsInv, Procs
<1>13. ASSUME NEW p \in Procs, GenRow(p) PROVE StreamsInv'
  <2>0. tbl \in Tables /\ (p = 0 => opt.children = 1 \/ opt.step > 0)
    BY <1>13, <1>o, <1>0 DEF GenRow, Generates, Inv, TypeOK, KidsInv
  <2>1. PICK usage \in Draws(tbl) :
          seeds' = [seeds EXCEPT ![p] = [s \in Stream |-> seeds[p][s] + RowTakes(tbl, usage, s)]]
    BY <1>13 DEF GenRow, Inv, TypeOK
  <2>2. /\ \A s \in Stream : seeds'[p][s] = seeds[p][s] + RowTakes(tbl, usage, s)
        /\ row'[p] = row[p] + 1 /\ row[p] \in Nat
        /\ \A q \in Procs : q # p => row'[q] = row[q] /\ seeds'[q] = seeds[q]
    BY <1>13, <2>1 DEF GenRow, Inv, TypeOK
  <2>3. UNCHANGED <<opt, tbl, phase, kid>>
    BY <1>13 DEF GenRow
  <2>4. (opt.children > 1 /\ opt.step < 0) => \A s \in Stream : seeds'[0][s] = 0
    BY <1>o, <1>0, <2>0, <2>2 DEF StreamsInv
  <2>5. \A t : (phase = "tables" /\ opt.asked = {t} /\ tbl <= t) => \A s \in Stream : seeds'[0][s] = 0
    <3>1. phase # "tables"
      BY <1>13, <1>0 DEF GenRow, Generates, Inv, KidsInv
    <3> QED
      BY <3>1
  <2>6. \A q \in Procs : (Generates(q) /\ Fresh(q)) =>
           \A s \in Continued(tbl) : seeds'[q][s] = (row'[q] - 1) * Boundary(s)
    <3> SUFFICES ASSUME NEW q \in Procs, Generates(q), Fresh(q), NEW s \in Continued(tbl)
                 PROVE  seeds'[q][s] = (row'[q] - 1) * Boundary(s)
      OBVIOUS
    <3>1. seeds[q][s] = (row[q] - 1) * Boundary(s) /\ s \in Stream /\ Boundary(s) \in Nat
      BY <1>b, <2>0 DEF StreamsInv
    <3>2. CASE q = p
      <4>1. seeds'[p][s] = (row[p] - 1) * Boundary(s) + Boundary(s)
        BY <2>0, <2>2, <3>1, <3>2, TakesBoundary
      <4>2. (row[p] - 1) * Boundary(s) + Boundary(s) = (row[p] + 1 - 1) * Boundary(s)
        BY <2>2, <3>1
      <4> QED
        BY <2>2, <3>2, <4>1, <4>2
    <3>3. CASE q # p
      BY <2>2, <3>1, <3>3
    <3> QED
      BY <3>2, <3>3
  <2> QED
    BY <2>3, <2>4, <2>5, <2>6 DEF StreamsInv, Procs, Generates, Fresh
<1>14. ASSUME NEW k \in Kids, KidExits(k) \/ KidDies(k) PROVE StreamsInv'
  <2>1. \A p \in Procs : Generates(p)' => Generates(p)
    BY <1>14, <1>0 DEF KidExits, KidDies, Generates, Inv, TypeOK
  <2>2. phase' # "tables"
    BY <1>14 DEF KidExits, KidDies, Inv, KidsInv
  <2> QED
    BY <1>14, <1>2, <2>1, <2>2 DEF KidExits, KidDies
<1>15. CASE UNCHANGED vars
  BY <1>15 DEF vars, StreamsInv, Generates, Fresh, Procs
<1> QED
  BY <1>4, <1>5, <1>6, <1>7, <1>8, <1>9, <1>10, <1>11, <1>12, <1>13, <1>14, <1>15 DEF Next

(* For every base, scale, number of children and number of letters and     *)
(* lines drawn: a column whose stream gen_seed skips has the same values   *)
(* whoever generates the row.                                              *)
THEOREM SameColumns == Spec => []PartsContinue
<1>1. StreamsInv => PartsContinue
  BY DEF StreamsInv, PartsContinue
<1> QED
  BY InvInit, InvNext, StreamsInit, StreamsNext, <1>1, PTL DEF Spec

-----------------------------------------------------------------------------
(* The refinement of TableLoad. *)

(* What is not there yet: nothing of the tables ahead of main, nothing in  *)
(* the file of a child that was not forked, and none of the rows that a    *)
(* process has still to generate.                                          *)
AheadInv ==
  /\ \A x \in written : x[1] <= tbl /\ (phase = "tables" => x[1] < tbl)
  /\ phase = "fork" => \A x \in written : x[1] = tbl => x[2] <= c
  /\ \A p \in Procs : Busy(p) =>
       \A x \in written : (x[1] = tbl /\ x[2] = FileOf(p, opt)) => x[3] < row[p]

LEMMA AheadInit == Init => AheadInv
BY DEF Init, AheadInv

(* What a state is known to have: numbers for tables, rows and files. *)
LEMMA StateTyped ==
  ASSUME Inv
  PROVE  /\ opt \in Opts /\ opt.asked \subseteq Tables /\ opt.children \in Nat \ {0} /\ opt.step \in Int
         /\ opt.step = -1 \/ opt.step \in 1..opt.children
         /\ 0 \in Procs /\ Kids \subseteq Procs /\ Procs \subseteq Nat /\ 0 \notin Kids /\ Procs = Kids \cup {0}
         /\ tbl \in Int /\ (\A t \in Tables : t \in Int) /\ c \in Nat
         /\ \A x \in written : x[1] \in Int /\ x[2] \in Nat /\ x[3] \in Nat
         /\ \A p \in Procs : row[p] \in Nat /\ left[p] \in Nat
<1>1. /\ opt \in Opts /\ opt.asked \subseteq Tables /\ opt.children \in Nat \ {0} /\ opt.step \in Int
      /\ opt.step = -1 \/ opt.step \in 1..opt.children
  BY OptTyped DEF Inv, TypeOK, Opts
<1>2. 0 \in Procs /\ Kids \subseteq Procs /\ Procs \subseteq Nat /\ 0 \notin Kids /\ Procs = Kids \cup {0}
  BY <1>1 DEF Procs, Kids
<1>3. \A t \in Tables : t \in Int
  BY DEF Tables, PART, SUPP, CUST, DATE, LINE
<1>4. tbl \in Int /\ c \in Nat /\ written \subseteq Tables \X Nat \X Nat
      /\ row \in [Procs -> Nat] /\ left \in [Procs -> Nat]
  BY <1>1 DEF Inv, TypeOK, LINE
<1> QED
  BY <1>1, <1>2, <1>3, <1>4

(* No two processes that are busy write to the same file. *)
LEMMA OwnFile ==
  ASSUME Inv, NEW p \in Procs, NEW q \in Procs, Busy(p), Busy(q), p # q
  PROVE  FileOf(p, opt) # FileOf(q, opt)
<1>1. p \in Kids /\ q \in Kids
  BY StateTyped DEF Busy, Inv, KidsInv
<1>2. FileOf(p, opt) = p /\ FileOf(q, opt) = q
  BY <1>1, StateTyped DEF FileOf, Kids
<1> QED
  BY <1>2

LEMMA AheadNext == Inv /\ Inv' /\ RowsInv /\ AheadInv /\ [Next]_vars => AheadInv'
<1> SUFFICES ASSUME Inv, Inv', RowsInv, AheadInv, [Next]_vars
             PROVE  AheadInv'
  OBVIOUS
<1>0. /\ 0 \in Procs /\ Kids \subseteq Procs /\ Procs \subseteq Nat /\ 0 \notin Kids /\ Procs = Kids \cup {0}
      /\ tbl \in Int /\ (\A t \in Tables : t \in Int) /\ c \in Nat
      /\ \A x \in written : x[1] \in Int /\ x[2] \in Nat /\ x[3] \in Nat
  BY StateTyped
(* main turns to a table of which nothing is there. *)
<1>1. ASSUME phase = "tables", NEW t \in Tables, IsNext(t), tbl' = t, UNCHANGED <<opt, written>>,
             phase' # "tables"
      PROVE  AheadInv'
  <2>1. t >= tbl
    BY <1>1 DEF IsNext, Ahead
  <2>2. \A x \in written : x[1] < t
    BY <1>0, <1>1, <2>1 DEF AheadInv
  <2>3. \A x \in written' : x[1] <= tbl' /\ x[1] # tbl'
    BY <1>0, <1>1, <2>2
  <2> QED
    BY <1>1, <2>3 DEF AheadInv
<1>2. CASE Serial
  BY <1>1, <1>2 DEF Serial
<1>3. CASE Partial
  BY <1>1, <1>3 DEF Partial
<1>4. CASE Pload
  BY <1>1, <1>4 DEF Pload
<1>5. CASE Return \/ ForkFails \/ AllForked
  BY <1>5 DEF Return, ForkFails, AllForked, AheadInv, Busy, Procs
<1>6. CASE Fork
  <2>1. c + 1 \in Kids /\ phase = "fork" /\ phase' = phase /\ tbl' = tbl /\ opt' = opt /\ written' = written
        /\ c' = c + 1 /\ FileOf(c + 1, opt) = c + 1
    BY <1>0, <1>6, StateTyped DEF Fork, Kids, FileOf
  <2>2. \A p \in Procs : p # c + 1 => row'[p] = row[p] /\ (Busy(p)' => Busy(p))
    BY <1>0, <1>6, <2>1 DEF Fork, Busy, Inv, TypeOK
  <2>3. \A x \in written : x[1] = tbl => x[2] <= c /\ x[2] # c + 1
    BY <1>0, <2>1 DEF AheadInv
  <2>4. \A x \in written : x[1] = tbl => x[2] <= c + 1
    BY <1>0, <2>3
  <2>5. ASSUME NEW p \in Procs, Busy(p)', NEW x \in written, x[1] = tbl, x[2] = FileOf(p, opt)
        PROVE  x[3] < row'[p]
    <3>1. p # c + 1
      BY <2>1, <2>3, <2>5
    <3> QED
      BY <2>2, <2>5, <3>1 DEF AheadInv
  <2> QED
    BY <2>1, <2>4, <2>5 DEF AheadInv, Procs
<1>7. CASE Wait
  <2>1. \A p \in Procs : Busy(p)' => Busy(p)
    BY <1>0, <1>7 DEF Wait, Busy, Inv, TypeOK
  <2> QED
    BY <1>7, <2>1 DEF Wait, AheadInv, Procs
<1>8. CASE Waited \/ TableDone
  <2>1. phase' = "tables" /\ tbl' = tbl + 1 /\ UNCHANGED <<opt, written, kid>>
    BY <1>8 DEF Waited, TableDone
  <2>2. \A x \in written' : x[1] < tbl' /\ x[1] <= tbl' /\ x[1] # tbl'
    BY <1>0, <2>1 DEF AheadInv
  <2> QED
    BY <2>1, <2>2 DEF AheadInv
<1>9. ASSUME NEW p \in Procs, GenRow(p) PROVE AheadInv'
  <2> DEFINE f == FileOf(p, opt)
             new == <<tbl, f, row[p]>>
  <2>1. Busy(p) /\ UNCHANGED <<opt, phase, tbl, c, kid>> /\ written' = written \cup {new}
    BY <1>9 DEF GenRow, Generates, Busy
  <2>2. /\ row'[p] = row[p] + 1 /\ row[p] \in Nat
        /\ \A q \in Procs : q # p => row'[q] = row[q]
    BY <1>9 DEF GenRow, Inv, TypeOK
  <2>3. new[1] = tbl /\ new[2] = f /\ new[3] = row[p]
    OBVIOUS
  <2>4. phase # "tables"
    BY <1>0, <2>1 DEF Busy, Inv, KidsInv
  <2>5. phase = "fork" => f <= c
    <3> SUFFICES ASSUME phase = "fork" PROVE f <= c
      OBVIOUS
    <3>1. p \in Kids
      BY <1>0, <2>1 DEF Busy
    <3> QED
      BY <2>1, <3>1 DEF Inv, KidsInv, Busy, FileOf, Kids
  <2> HIDE DEF f, new
  <2>6. \A x \in written' : x[1] <= tbl
    BY <1>0, <2>1, <2>3 DEF AheadInv
  <2>7. phase = "fork" => \A x \in written' : x[1] = tbl => x[2] <= c
    BY <2>1, <2>3, <2>5 DEF AheadInv
  <2>8. ASSUME NEW q \in Procs, Busy(q), NEW x \in written', x[1] = tbl, x[2] = FileOf(q, opt)
        PROVE  x[3] < row'[q]
    <3>1. CASE x \in written
      <4>1. x[3] < row[q] /\ x[3] \in Nat
        BY <1>0, <2>8, <3>1 DEF AheadInv
      <4> QED
        BY <2>2, <4>1
    <3>2. CASE x = new
      <4>1. q = p
        BY <2>1, <2>3, <2>8, <3>2, OwnFile DEF f
      <4> QED
        BY <2>2, <2>3, <3>2, <4>1
    <3> QED
      BY <2>1, <3>1, <3>2
  <2>9. \A q \in Procs : Busy(q)' => Busy(q)
    BY <2>1 DEF Busy
  <2> QED
    BY <2>1, <2>4, <2>6, <2>7, <2>8, <2>9 DEF AheadInv, Procs
<1>10. ASSUME NEW k \in Kids, KidExits(k) \/ KidDies(k) PROVE AheadInv'
  <2>1. \A p \in Procs : Busy(p)' => Busy(p)
    BY <1>0, <1>10 DEF KidExits, KidDies, Busy, Inv, TypeOK
  <2> QED
    BY <1>10, <2>1 DEF KidExits, KidDies, AheadInv, Procs
<1>11. CASE UNCHANGED vars
  BY <1>11 DEF vars, AheadInv, Busy, Procs
<1> QED
  BY <1>2, <1>3, <1>4, <1>5, <1>6, <1>7, <1>8, <1>9, <1>10, <1>11 DEF Next

(* The rows of a file are among those that are wanted of its table, and    *)
(* those of all files (with -S, of its file) are all that are wanted.      *)
LEMMA WantedIs ==
  ASSUME NEW o \in Opts, NEW t \in Tables
  PROVE  Wanted(t, o) = IF o.children > 1 /\ o.step >= 0 THEN FileRows(t, o, o.step)
                        ELSE UNION {FileRows(t, o, f) : f \in Files(o)}
<1>1. o.children \in Nat \ {0} /\ o.step \in Int
  BY OptTyped
<1>2. CASE o.children > 1 /\ o.step >= 0
  BY <1>1, <1>2 DEF Wanted, FileRows, First, Size
<1>3. CASE ~(o.children > 1 /\ o.step >= 0)
  <2>1. Wanted(t, o) = 1..(IF o.children = 1 THEN serial_rows(t, o) ELSE Base[t] * o.scale)
    BY <1>1, <1>3 DEF Wanted
  <2> QED
    BY <1>3, <2>1, FilesCover
<1> QED
  BY <1>2, <1>3

(* A file of a run is one of TableLoad's. *)
LEMMA FilesKnown ==
  ASSUME NEW o \in Opts, NEW f \in Files(o)
  PROVE  f \in UNION {0..l.children : l \in CommandLines}
<1>1. PICK l \in CommandLines : o = process_options(l)
  BY DEF Opts
<1>2. o.children = l.children /\ o.children \in Nat \ {0}
  BY <1>1, OptTyped DEF process_options
<1>3. f \in 0..l.children
  BY <1>2 DEF Files
<1> QED
  BY <1>3

(* The table that main is at is the one in work. *)
LEMMA TableInWork ==
  ASSUME Inv, phase \in {"rows", "fork", "wait", "aborted"}
  PROVE  tbl \in opt.asked /\ tbl \in Tables /\ Load!InWork(tbl)
<1>1. tbl \in opt.asked /\ opt.asked \subseteq Tables /\ tbl \in Int /\ \A t \in Tables : t \in Int
  BY StateTyped DEF Inv, TypeOK
<1>2. DOMAIN PlanOf(opt) = opt.asked
  BY DEF PlanOf
<1>3. tbl \in opt.asked \ {t \in opt.asked : t < tbl}
  BY <1>1
<1>4. \A u \in opt.asked \ {t \in opt.asked : t < tbl} : tbl <= u
  BY <1>1
<1> QED
  BY <1>1, <1>2, <1>3, <1>4 DEF Load!InWork

LEMMA LoadInit == Init => Load!Init
<1> SUFFICES ASSUME Init PROVE Load!Init
  OBVIOUS
<1>1. PlanOf(opt) \in {PlanOf(process_options(o)) : o \in CommandLines}
  BY DEF Init
<1>2. {t \in opt.asked : t < tbl} = {}
  <2>1. opt \in Opts
    BY DEF Init, Opts
  <2>2. opt.asked \subseteq Tables
    BY <2>1, OptTyped
  <2>3. \A t \in Tables : ~(t < PART)
    BY DEF Tables, PART, SUPP, CUST, DATE, LINE
  <2> QED
    BY <2>2, <2>3 DEF Init
<1> QED
  BY <1>1, <1>2 DEF Init, Load!Init

(* A step of the table that main is at is one of TableLoad. *)
LEMMA StepOfTable ==
  ASSUME tbl \in opt.asked, Load!AddRow(tbl) \/ Load!LoseProcess(tbl) \/ Load!Finish(tbl) \/ Load!GiveUp(tbl)
  PROVE  Load!Next
<1>1. tbl \in DOMAIN PlanOf(opt)
  BY DEF PlanOf
<1>2. \E t \in DOMAIN PlanOf(opt) : Load!AddRow(t) \/ Load!LoseProcess(t) \/ Load!Finish(t) \/ Load!GiveUp(t)
  BY <1>1 DEF Load!AddRow, Load!LoseProcess, Load!Finish, Load!GiveUp, Load!InWork, Load!Complete, Load!Has
<1> QED
  BY <1>2 DEF Load!Next

(* main leaves the table that it is at. *)
LEMMA LoadFinish ==
  ASSUME Inv, phase \in {"rows", "wait"}, phase' = "tables", tbl' = tbl + 1, UNCHANGED <<opt, written, deaths>>,
         Load!Complete(tbl) \/ \E k \in Kids : <<tbl, k>> \in deaths
  PROVE  Load!Next
<1>1. tbl \in opt.asked /\ tbl \in Tables /\ Load!InWork(tbl)
  BY TableInWork
<1>2. {t \in opt.asked : t < tbl + 1} = {t \in opt.asked : t < tbl} \cup {tbl}
  <2>1. opt.asked \subseteq Int /\ tbl \in Int
    BY StateTyped
  <2> QED
    BY <1>1, <2>1
<1>3. Load!Complete(tbl) \/ tbl \in {x[1] : x \in deaths}
  <2>1. ASSUME NEW k \in Kids, <<tbl, k>> \in deaths
        PROVE  tbl \in {x[1] : x \in deaths}
    <3>1. <<tbl, k>>[1] = tbl
      OBVIOUS
    <3> QED
      BY <2>1, <3>1, Zenon
  <2> QED
    BY <2>1
<1>4. Load!Finish(tbl)
  BY <1>1, <1>2, <1>3 DEF Load!Finish
<1> QED
  BY <1>1, <1>4, StepOfTable

(* main waits until no child is left: every part is there, unless its      *)
(* child died.                                                             *)
LEMMA WaitedComplete ==
  ASSUME Inv, RowsInv, phase = "wait", c = 0, \A k \in Kids : <<tbl, k>> \notin deaths
  PROVE  Load!Complete(tbl)
<1>1. tbl \in opt.asked /\ tbl \in Tables /\ opt \in Opts /\ opt.children > 1 /\ opt.step < 0
  BY TableInWork, StateTyped DEF Inv, KidsInv
<1>2. \A k \in Kids : kid[k] = "none"
  <2>1. Cardinality(Alive) = 0 /\ IsFiniteSet(Kids)
    BY <1>1, KidsFinite DEF Inv, KidsInv
  <2>2. IsFiniteSet(Alive)
    BY <2>1, FS_Subset DEF Alive
  <2>3. Alive = {}
    BY <2>1, <2>2, FS_EmptySet
  <2> QED
    BY <2>3 DEF Alive
<1>3. Files(opt) = Kids
  BY <1>1 DEF Files, Kids
<1>4. Wanted(tbl, opt) = UNION {FileRows(tbl, opt, f) : f \in Kids}
  BY <1>1, <1>3, WantedIs, StateTyped
<1>5. ASSUME NEW r \in Wanted(tbl, opt)
      PROVE  Load!Has(tbl, r)
  <2>1. PICK f \in Kids : r \in FileRows(tbl, opt, f)
    BY <1>4, <1>5
  <2>2. <<tbl, f, r>> \in written
    BY <1>2, <2>1 DEF RowsInv, EndedInv
  <2>3. <<tbl, f, r>>[1] = tbl /\ <<tbl, f, r>>[3] = r
    OBVIOUS
  <2> QED
    BY <2>2, <2>3, Zenon DEF Load!Has
<1>6. PlanOf(opt)[tbl] = Wanted(tbl, opt)
  BY <1>1 DEF PlanOf
<1> QED
  BY <1>5, <1>6 DEF Load!Complete

(* main has generated its rows: all of the table, or all of its part. *)
LEMMA OwnComplete ==
  ASSUME Inv, RowsInv, phase = "rows", left[0] = 0
  PROVE  Load!Complete(tbl)
<1> DEFINE f == FileOf(0, opt)
<1>1. tbl \in opt.asked /\ tbl \in Tables /\ opt \in Opts /\ opt.children \in Nat \ {0} /\ opt.step \in Int
      /\ (opt.children = 1 \/ opt.step > 0)
  BY TableInWork, StateTyped DEF Inv, KidsInv
<1>2. Wanted(tbl, opt) = FileRows(tbl, opt, f)
  <2>1. CASE opt.children = 1
    <3>1. Files(opt) = {0} /\ f = 0
      BY <2>1 DEF Files, FileOf
    <3>2. Wanted(tbl, opt) = UNION {FileRows(tbl, opt, g) : g \in {0}}
      BY <1>1, <2>1, <3>1, WantedIs
    <3> QED
      BY <3>1, <3>2
  <2>2. CASE opt.children # 1
    <3>1. f = opt.step /\ opt.children > 1 /\ opt.step >= 0
      BY <1>1, <2>2 DEF FileOf
    <3> QED
      BY <1>1, <3>1, WantedIs
  <2> QED
    BY <2>1, <2>2
<1>3. 0 \in Procs /\ Busy(0)
  BY StateTyped DEF Busy
<1>4. \A r \in FileRows(tbl, opt, f) : <<tbl, f, r>> \in written
  <2>1. /\ row[0] + left[0] = First(tbl, opt, f) + Size(tbl, opt, f)
        /\ \A r \in First(tbl, opt, f)..(row[0] - 1) : <<tbl, f, r>> \in written
    BY <1>3 DEF RowsInv, ProgressInv
  <2>2. row[0] \in Nat /\ First(tbl, opt, f) \in Nat /\ Size(tbl, opt, f) \in Nat
    BY <1>3, BusyFile
  <2> HIDE DEF f
  <2>3. row[0] = First(tbl, opt, f) + Size(tbl, opt, f)
    BY <2>1, <2>2
  <2>4. First(tbl, opt, f) + Size(tbl, opt, f) - 1 = row[0] - 1
    BY <2>2, <2>3
  <2> QED
    BY <2>1, <2>4 DEF FileRows
<1> HIDE DEF f
<1>5. ASSUME NEW r \in Wanted(tbl, opt)
      PROVE  Load!Has(tbl, r)
  <2>1. <<tbl, f, r>> \in written
    BY <1>2, <1>4, <1>5
  <2>2. <<tbl, f, r>>[1] = tbl /\ <<tbl, f, r>>[3] = r
    OBVIOUS
  <2> QED
    BY <2>1, <2>2, Zenon DEF Load!Has
<1>6. PlanOf(opt)[tbl] = Wanted(tbl, opt)
  BY <1>1 DEF PlanOf
<1> QED
  BY <1>5, <1>6 DEF Load!Complete

(* A row that a process generates is wanted, and no file has it. *)
LEMMA RowIsNew ==
  ASSUME Inv, RowsInv, AheadInv, NEW p \in Procs, Busy(p), left[p] > 0
  PROVE  row[p] \in Wanted(tbl, opt) /\ ~Load!Has(tbl, row[p])
<1> DEFINE f == FileOf(p, opt)
           r == row[p]
<1>1. /\ tbl \in Tables /\ opt \in Opts /\ f \in Files(opt) /\ r \in Nat /\ left[p] \in Nat
      /\ First(tbl, opt, f) \in Nat /\ Size(tbl, opt, f) \in Nat
  BY BusyFile, StateTyped
<1>2. r >= First(tbl, opt, f) /\ r + left[p] = First(tbl, opt, f) + Size(tbl, opt, f)
  BY DEF RowsInv, ProgressInv
<1>3. r \in FileRows(tbl, opt, f)
  <2> HIDE DEF f, r
  <2> QED
    BY <1>1, <1>2 DEF FileRows
<1>4. r \in Wanted(tbl, opt)
  <2>1. CASE opt.children > 1 /\ opt.step >= 0
    <3>1. p = 0
      <4>1. ASSUME p # 0 PROVE FALSE
        <5>1. p \in Kids /\ kid[p] # "none"
          BY <4>1, StateTyped DEF Busy
        <5>2. phase \in {"fork", "wait", "aborted"}
          BY <5>1 DEF Inv, KidsInv, TypeOK
        <5> QED
          BY <2>1, <5>2, StateTyped DEF Inv, KidsInv
      <4> QED
        BY <4>1
    <3>2. f = opt.step
      BY <2>1, <3>1, StateTyped DEF FileOf
    <3> QED
      BY <1>1, <1>3, <2>1, <3>2, WantedIs
  <2>2. CASE ~(opt.children > 1 /\ opt.step >= 0)
    <3> HIDE DEF f, r
    <3>1. Wanted(tbl, opt) = UNION {FileRows(tbl, opt, g) : g \in Files(opt)}
      BY <1>1, <2>2, WantedIs
    <3> QED
      BY <1>1, <1>3, <3>1
  <2> QED
    BY <2>1, <2>2
<1>5. ASSUME NEW x \in written, x[1] = tbl, x[3] = r
      PROVE  FALSE
  <2>1. x[2] \in Files(opt) /\ r \in FileRows(tbl, opt, x[2])
    BY <1>5 DEF RowsInv, WrittenInv
  <2>2. x[2] = f
    <3> HIDE DEF f, r
    <3> QED
      BY <1>1, <1>3, <2>1, FilesDisjoint
  <2>3. x[3] < r
    BY <1>5, <2>2 DEF AheadInv
  <2> QED
    BY <1>1, <1>5, <2>3
<1> QED
  BY <1>4, <1>5 DEF Load!Has

(* Every step of main or of a child is a step of TableLoad, or none. *)
LEMMA LoadStep == Inv /\ RowsInv /\ AheadInv /\ [Next]_vars => [Load!Next]_Load!vars
<1> SUFFICES ASSUME Inv, RowsInv, AheadInv, [Next]_vars
             PROVE  Load!Next \/ UNCHANGED Load!vars
  OBVIOUS
<1>0. /\ opt \in Opts /\ opt.asked \subseteq Tables /\ opt.asked \subseteq Int /\ tbl \in Int
      /\ Kids \subseteq Procs /\ 0 \in Procs /\ 0 \notin Kids /\ Procs = Kids \cup {0}
  BY StateTyped
<1>1. ASSUME UNCHANGED <<opt, tbl, written, deaths>>,
             phase \notin {"done", "aborted"}, phase' \notin {"done", "aborted"}
      PROVE  UNCHANGED Load!vars
  BY <1>1 DEF Load!vars
<1>2. ASSUME phase = "tables", NEW t \in Tables, IsNext(t), tbl' = t, UNCHANGED <<opt, written, deaths>>,
             phase' \in {"rows", "fork"}
      PROVE  UNCHANGED Load!vars
  <2>1. \A u \in opt.asked : u < t <=> u < tbl
    BY <1>0, <1>2 DEF IsNext, Ahead
  <2>2. {u \in opt.asked : u < tbl}' = {u \in opt.asked : u < tbl}
    BY <1>2, <2>1
  <2> QED
    BY <1>2, <2>2 DEF Load!vars
<1>3. CASE Serial
  BY <1>2, <1>3 DEF Serial
<1>4. CASE Partial
  BY <1>2, <1>4 DEF Partial
<1>5. CASE Pload
  BY <1>2, <1>5 DEF Pload
<1>6. CASE Return
  <2>1. {t \in opt.asked : t < tbl} = opt.asked
    BY <1>0, <1>6 DEF Return, Ahead
  <2>2. DOMAIN PlanOf(opt) = opt.asked
    BY DEF PlanOf
  <2>3. Load!Return
    BY <1>6, <2>1, <2>2 DEF Return, Load!Return
  <2> QED
    BY <2>3 DEF Load!Next
<1>7. CASE Fork \/ AllForked \/ Wait
  BY <1>1, <1>7 DEF Fork, AllForked, Wait
<1>8. CASE ForkFails
  <2>1. tbl \in opt.asked /\ Load!InWork(tbl)
    BY <1>8, TableInWork DEF ForkFails
  <2>2. Load!GiveUp(tbl)
    BY <1>8, <2>1 DEF ForkFails, Load!GiveUp
  <2> QED
    BY <2>1, <2>2, StepOfTable
<1>9. CASE Waited
  <2>1. phase = "wait" /\ c = 0 /\ phase' = "tables" /\ tbl' = tbl + 1 /\ UNCHANGED <<opt, written, deaths>>
    BY <1>9 DEF Waited
  <2>2. Load!Complete(tbl) \/ \E k \in Kids : <<tbl, k>> \in deaths
    BY <2>1, WaitedComplete
  <2> QED
    BY <2>1, <2>2, LoadFinish
<1>10. CASE TableDone
  <2>1. phase = "rows" /\ left[0] = 0 /\ phase' = "tables" /\ tbl' = tbl + 1 /\ UNCHANGED <<opt, written, deaths>>
    BY <1>10 DEF TableDone
  <2>2. Load!Complete(tbl)
    BY <2>1, OwnComplete
  <2> QED
    BY <2>1, <2>2, LoadFinish
<1>11. ASSUME NEW p \in Procs, GenRow(p) PROVE Load!Next
  <2> DEFINE f == FileOf(p, opt)
             r == row[p]
  <2>1. /\ Busy(p) /\ left[p] > 0 /\ UNCHANGED <<opt, phase, tbl, deaths>>
        /\ written' = written \cup {<<tbl, f, r>>}
    BY <1>11 DEF GenRow, Generates, Busy
  <2>2. phase \in {"rows", "fork", "wait", "aborted"}
    BY <1>0, <2>1 DEF Busy, Inv, KidsInv, TypeOK
  <2>3. tbl \in opt.asked /\ Load!InWork(tbl)
    BY <2>2, TableInWork
  <2>4. f \in UNION {0..l.children : l \in CommandLines}
    BY <1>0, <2>1, BusyFile, FilesKnown
  <2>5. r \in PlanOf(opt)[tbl] /\ ~Load!Has(tbl, r)
    BY <2>1, <2>3, RowIsNew DEF PlanOf
  <2> HIDE DEF f, r
  <2>6. Load!AddRow(tbl)
    BY <2>1, <2>2, <2>3, <2>4, <2>5 DEF Load!AddRow
  <2> QED
    BY <2>3, <2>6, StepOfTable
<1>12. ASSUME NEW k \in Kids, KidExits(k) PROVE Load!Next \/ UNCHANGED Load!vars
  <2>1. UNCHANGED <<opt, phase, tbl, written, deaths>>
    BY <1>12 DEF KidExits
  <2> QED
    BY <2>1 DEF Load!vars
<1>13. ASSUME NEW k \in Kids, KidDies(k) PROVE Load!Next
  <2>1. /\ kid[k] = "running" /\ UNCHANGED <<opt, phase, tbl, written>>
        /\ deaths' = deaths \cup {<<tbl, k>>}
    BY <1>13 DEF KidDies
  <2>2. phase \in {"fork", "wait", "aborted"}
    BY <2>1 DEF Inv, KidsInv, TypeOK
  <2>3. tbl \in opt.asked /\ Load!InWork(tbl)
    BY <2>2, TableInWork
  <2>4. {x[1] : x \in deaths}' = {x[1] : x \in deaths} \cup {tbl}
    <3>1. <<tbl, k>>[1] = tbl
      OBVIOUS
    <3> DEFINE new == <<tbl, k>>
    <3> HIDE DEF new
    <3>2. {x[1] : x \in deaths \cup {new}} = {x[1] : x \in deaths} \cup {new[1]}
      OBVIOUS
    <3> QED
      BY <2>1, <3>1, <3>2 DEF new
  <2>5. Load!LoseProcess(tbl)
    BY <2>1, <2>2, <2>3, <2>4 DEF Load!LoseProcess
  <2> QED
    BY <2>3, <2>5, StepOfTable
<1>14. CASE UNCHANGED vars
  BY <1>14 DEF vars, Load!vars
<1> QED
  BY <1>3, <1>4, <1>5, <1>6, <1>7, <1>8, <1>9, <1>10, <1>11, <1>12, <1>13, <1>14 DEF Next

(* For every base, scale, number of children and step: main and its        *)
(* children implement TableLoad, however they interleave, die or fail to   *)
(* be forked.                                                              *)
THEOREM LoadIsImplemented == Spec => LoadsTables
<1>1. Spec => [](Inv /\ RowsInv /\ AheadInv)
  BY InvInit, InvNext, RowsInit, RowsNext, AheadInit, AheadNext, PTL DEF Spec
<1> QED
  BY <1>1, LoadInit, LoadStep, PTL DEF Spec, LoadsTables, Load!Spec
=============================================================================
