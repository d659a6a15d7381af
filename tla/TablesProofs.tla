---------------------------- MODULE TablesProofs ----------------------------
(***************************************************************************)
(* Theorems about a run that goes through the tables: the types, and the   *)
(* files it writes over; and about the rows: the one that was built last   *)
(* is one that the routine of its table makes for its index, and so the    *)
(* keys of an order are those of rows, the days of DATE follow each other, *)
(* the colors of a part differ, and city, nation, region and phone number  *)
(* agree.                                                                  *)
(***************************************************************************)
EXTENDS Load, CalendarProofs, FiniteSetTheorems, TLAPS

-----------------------------------------------------------------------------
(* The inductive invariant. *)

(* The tables that are not complete yet, the one in work among them. *)
Pending == {todo[k] : k \in DOMAIN todo}

OptInv ==
  /\ opt.found \in [TableFiles -> Nat \cup {-1}]
  /\ opt.tables \subseteq Tables /\ opt.scale \in Nat \ {0}

(* No table is gone through twice, and gen_tbl stops after the last row. *)
TodoInv ==
  /\ phase \in {"names", "tables", "done", "declined", "failed"}
  /\ todo \in Seq(Tables) /\ Pending \subseteq opt.tables
  /\ \A j, k \in DOMAIN todo : todo[j] = todo[k] => j = k
  /\ (phase = "tables" /\ todo # <<>>) => at <= rows_of(Head(todo), opt.scale) + 1
  /\ phase = "done" => todo = <<>>

(* A file that was opened: the answer that allowed it, and that it ends    *)
(* where this run has written to or behind it.                             *)
Overwritten(f) ==
  /\ file[f].fresh > 0
  /\ opt.found[f] >= 0 => (opt.force \/ f \in agreed)
  /\ file[f].written <= file[f].size

AsFound(f) == file[f] = [fresh |-> 0, written |-> 0, size |-> opt.found[f]]

(* The files that a print routine has opened are written over, all others  *)
(* are as they were found.                                                 *)
FileInv ==
  \A f \in TableFiles : IF f[1] \in fp /\ f = Dest(f[1]) THEN Overwritten(f) ELSE AsFound(f)

(* Which files are open, and how far: those of the complete tables have    *)
(* all their rows, the one in work those before gen_tbl's i, the tables    *)
(* after it none, and while names are asked for none is open.              *)
OpenInv ==
  /\ fp \subseteq opt.tables /\ (fp # {} => Prints)
  /\ phase = "names" => fp = {}
  /\ \A t \in opt.tables \ Pending :
       Prints => t \in fp /\ file[Dest(t)].fresh = rows_of(t, opt.scale)
  /\ \A t \in Pending : t # Head(todo) => t \notin fp
  /\ (phase = "tables" /\ todo # <<>> /\ Prints) =>
       file[Dest(Head(todo))].fresh = at - 1 /\ (Head(todo) \in fp <=> at > 1)

FileType == [fresh : Nat, written : Nat, size : Nat \cup {-1}]

VarInv ==
  /\ at \in Nat \ {0}
  /\ name \in [Tables -> Names] /\ fp \subseteq Tables /\ agreed \subseteq TableFiles
  /\ file \in [TableFiles -> FileType]
  /\ \A f \in TableFiles : file[f].fresh > 0 => file[f].written <= file[f].size

Idle == phase = "idle" /\ todo = <<>>

Working == OptInv /\ TodoInv /\ FileInv /\ OpenInv

TInv == VarInv /\ (Idle \/ Working)

OrderInv == o.lines \in 0..MaxLines

-----------------------------------------------------------------------------
(* The tables and their rows. *)

LEMMA TablesAre == Tables = {"part", "supplier", "customer", "date", "lineorder"}
<1>1. DOMAIN Traversal = {1, 2, 3, 4, 5}
  BY DEF Traversal
<1>2. /\ Traversal[1] = "part" /\ Traversal[2] = "supplier" /\ Traversal[3] = "customer"
      /\ Traversal[4] = "date" /\ Traversal[5] = "lineorder"
  BY DEF Traversal
<1> QED
  BY <1>1, <1>2 DEF Tables

LEMMA ThirtyPowers == DOMAIN powers_of_2 = 1..30 /\ IsFiniteSet(DOMAIN powers_of_2)
<1>1. DOMAIN powers_of_2 = 1..30
  BY DEF powers_of_2
<1> DEFINE n == 30
<1>2. n \in Int
  OBVIOUS
<1> HIDE DEF n
<1>3. IsFiniteSet(1..n)
  BY <1>2, FS_Interval
<1> QED
  BY <1>1, <1>3 DEF n

LEMMA RowsPositive ==
  ASSUME NEW t \in Tables, NEW scale \in Nat \ {0}
  PROVE  rows_of(t, scale) \in Nat \ {0}
<1>1. base[t] \in Nat \ {0}
  BY TablesAre, RowsAssumption
<1>2. Lb(scale) \in Nat
  <2>1. IsFiniteSet({k \in DOMAIN powers_of_2 : powers_of_2[k] <= scale})
    BY ThirtyPowers, FS_Subset
  <2> QED
    BY <2>1, FS_CardinalityType DEF Lb
<1>3. \A m, n \in Nat \ {0} : m * n \in Nat \ {0}
  OBVIOUS
<1>4. 1 + Lb(scale) \in Nat \ {0}
  BY <1>2
<1> QED
  BY <1>1, <1>3, <1>4 DEF rows_of

(* The loop of main over one table more. *)
LEMMA AskedNext ==
  ASSUME NEW s \in Seq(Tables), NEW A, NEW t \in Tables, t \notin A,
         {s[k] : k \in DOMAIN s} = opt.tables \cap A,
         \A j, k \in DOMAIN s : s[j] = s[k] => j = k
  PROVE  LET r == s \o Asked(t)
         IN /\ r \in Seq(Tables)
            /\ {r[k] : k \in DOMAIN r} = opt.tables \cap (A \cup {t})
            /\ \A j, k \in DOMAIN r : r[j] = r[k] => j = k
<1> DEFINE r == s \o Asked(t)
<1>1. CASE t \notin opt.tables
  BY <1>1 DEF Asked
<1>2. CASE t \in opt.tables
  <2>1. /\ r \in Seq(Tables) /\ Len(r) = Len(s) + 1 /\ DOMAIN r = 1..Len(r) /\ DOMAIN s = 1..Len(s)
        /\ Len(s) \in Nat /\ r[Len(r)] = t /\ \A k \in DOMAIN s : r[k] = s[k]
    BY <1>2 DEF Asked
  <2>2. \A k \in DOMAIN s : s[k] # t
    OBVIOUS
  <2> HIDE DEF r
  <2>3. \A k \in DOMAIN r : k \in DOMAIN s \/ k = Len(r)
    BY <2>1
  <2>4. {r[k] : k \in DOMAIN r} = {s[k] : k \in DOMAIN s} \cup {t}
    BY <2>1, <2>3
  <2>5. \A j, k \in DOMAIN r : r[j] = r[k] => j = k
    BY <2>1, <2>2, <2>3
  <2>6. {r[k] : k \in DOMAIN r} = opt.tables \cap (A \cup {t})
    BY <1>2, <2>4
  <2> QED
    BY <2>1, <2>5, <2>6 DEF r
<1> QED
  BY <1>1, <1>2

LEMMA AllAsked ==
  ASSUME opt.tables \subseteq Tables,
         todo = Asked("part") \o Asked("supplier") \o Asked("customer") \o Asked("date") \o Asked("lineorder")
  PROVE  todo \in Seq(Tables) /\ Pending = opt.tables /\ \A j, k \in DOMAIN todo : todo[j] = todo[k] => j = k
<1> DEFINE s1 == <<>> \o Asked("part")
           s2 == s1 \o Asked("supplier")
           s3 == s2 \o Asked("customer")
           s4 == s3 \o Asked("date")
           s5 == s4 \o Asked("lineorder")
           Upto(s, A) == /\ s \in Seq(Tables) /\ {s[k] : k \in DOMAIN s} = opt.tables \cap A
                         /\ \A j, k \in DOMAIN s : s[j] = s[k] => j = k
<1>1. Upto(<<>>, {})
  OBVIOUS
<1>2. ASSUME NEW s, NEW A, NEW t \in Tables, t \notin A, Upto(s, A)
      PROVE  Upto(s \o Asked(t), A \cup {t})
  BY <1>2, AskedNext
<1>3. s1 = Asked("part")
  BY DEF Asked
<1> HIDE DEF Upto
<1>4. Upto(s1, {} \cup {"part"})
  BY <1>1, <1>2, TablesAre
<1> HIDE DEF s1
<1>5. Upto(s2, {} \cup {"part"} \cup {"supplier"})
  BY <1>4, <1>2, TablesAre
<1> HIDE DEF s2
<1>6. Upto(s3, {} \cup {"part"} \cup {"supplier"} \cup {"customer"})
  BY <1>5, <1>2, TablesAre
<1> HIDE DEF s3
<1>7. Upto(s4, {} \cup {"part"} \cup {"supplier"} \cup {"customer"} \cup {"date"})
  BY <1>6, <1>2, TablesAre
<1> HIDE DEF s4
<1>8. Upto(s5, {} \cup {"part"} \cup {"supplier"} \cup {"customer"} \cup {"date"} \cup {"lineorder"})
  BY <1>7, <1>2, TablesAre
<1>9. s5 = todo
  BY <1>3 DEF s2, s3, s4
<1> HIDE DEF s5
<1>10. Upto(todo, Tables)
  BY <1>8, <1>9, TablesAre
<1> QED
  BY <1>10 DEF Upto, Pending

(* A table is complete: it is not gone through again. *)
LEMMA TailOf ==
  ASSUME NEW s \in Seq(Tables), s # <<>>, \A j, k \in DOMAIN s : s[j] = s[k] => j = k
  PROVE  LET r == Tail(s)
         IN /\ r \in Seq(Tables) /\ Head(s) \in {s[k] : k \in DOMAIN s}
            /\ {r[k] : k \in DOMAIN r} = {s[k] : k \in DOMAIN s} \ {Head(s)}
            /\ \A j, k \in DOMAIN r : r[j] = r[k] => j = k
            /\ r # <<>> => Head(r) \in {r[k] : k \in DOMAIN r}
<1> DEFINE r == Tail(s)
<1>1. /\ r \in Seq(Tables) /\ Len(r) = Len(s) - 1 /\ DOMAIN r = 1..Len(r) /\ DOMAIN s = 1..Len(s)
      /\ Len(s) \in Nat \ {0} /\ Head(s) = s[1] /\ \A k \in DOMAIN r : r[k] = s[k + 1]
  OBVIOUS
<1>2. r # <<>> => Head(r) = r[1] /\ 1 \in DOMAIN r
  BY <1>1
<1> HIDE DEF r
<1>3. \A k \in DOMAIN r : k + 1 \in DOMAIN s /\ k + 1 # 1
  BY <1>1
<1>4. \A k \in DOMAIN s : k # 1 => k - 1 \in DOMAIN r /\ (k - 1) + 1 = k
  BY <1>1
<1>5. {r[k] : k \in DOMAIN r} = {s[k] : k \in DOMAIN s} \ {Head(s)}
  <2>1. \A k \in DOMAIN r : r[k] \in {s[j] : j \in DOMAIN s} /\ r[k] # s[1]
    BY <1>1, <1>3
  <2>2. \A k \in DOMAIN s : s[k] # s[1] => s[k] \in {r[j] : j \in DOMAIN r}
    <3> SUFFICES ASSUME NEW k \in DOMAIN s, s[k] # s[1]
                 PROVE  s[k] \in {r[j] : j \in DOMAIN r}
      OBVIOUS
    <3>1. k - 1 \in DOMAIN r /\ r[k - 1] = s[k]
      BY <1>1, <1>4
    <3> QED
      BY <3>1
  <2> QED
    BY <1>1, <2>1, <2>2
<1>6. \A j, k \in DOMAIN r : r[j] = r[k] => j = k
  <2> SUFFICES ASSUME NEW j \in DOMAIN r, NEW k \in DOMAIN r, r[j] = r[k]
               PROVE  j = k
    OBVIOUS
  <2>1. j + 1 = k + 1
    BY <1>1, <1>3
  <2> QED
    BY <1>1, <2>1
<1>7. Head(s) \in {s[k] : k \in DOMAIN s}
  BY <1>1
<1>8. r # <<>> => Head(r) \in {r[k] : k \in DOMAIN r}
  BY <1>2
<1> QED
  BY <1>1, <1>5, <1>6, <1>7, <1>8 DEF r

-----------------------------------------------------------------------------
(* The start. *)

LEMMA FreshVars ==
  ASSUME Fresh, opt.found \in [TableFiles -> Nat \cup {-1}]
  PROVE  VarInv /\ OrderInv
<1>1. name \in [Tables -> Names]
  BY DEF Fresh, Names
<1>2. /\ file \in [TableFiles -> FileType]
      /\ \A f \in TableFiles : file[f].fresh > 0 => file[f].written <= file[f].size
  BY DEF Fresh, FileType
<1>3. o.lines = 0
  BY DEF Fresh, NoOrder
<1> QED
  BY <1>1, <1>2, <1>3, RowsAssumption DEF Fresh, VarInv, OrderInv

(* The numbers from 1 up to anything. *)
LEMMA OneAndMore == ASSUME NEW b, NEW n \in 1..b PROVE n \in Nat \ {0}
  OBVIOUS

LEMMA StartedIs ==
  ASSUME TInit
  PROVE  OptInv /\ opt.direct \in BOOLEAN /\ opt.fnames \in BOOLEAN
<1>1. PICK c \in Options, found \in Earlier : opt = Started(c, found)
  BY DEF TInit
<1>2. /\ found \in [TableFiles -> Nat \cup {-1}]
      /\ c.tables \in SUBSET Tables /\ c.scale \in 1..MaxScale /\ c.direct \in BOOLEAN /\ c.fnames \in BOOLEAN
  BY TablesAssumption
<1>3. /\ opt.found = found /\ opt.tables = c.tables /\ opt.scale = c.scale
      /\ opt.direct = c.direct /\ opt.fnames = c.fnames
  BY <1>1 DEF Started
<1>4. c.scale \in Nat \ {0}
  BY <1>2, OneAndMore
<1> QED
  BY <1>2, <1>3, <1>4 DEF OptInv

LEMMA TInvInit == main => TInv /\ OrderInv
<1>1. ASSUME TIdle
      PROVE  TInv /\ OrderInv
  <2>1. opt.found \in [TableFiles -> Nat \cup {-1}]
    BY <1>1 DEF TIdle
  <2>2. Idle
    BY <1>1 DEF TIdle, Fresh, Idle
  <2> QED
    BY <1>1, <2>1, <2>2, FreshVars DEF TIdle, TInv
<1>2. ASSUME TInit
      PROVE  TInv /\ OrderInv
  <2>1. OptInv /\ Fresh
    BY <1>2, StartedIs DEF TInit
  <2>2. VarInv /\ OrderInv
    BY <2>1, FreshVars DEF OptInv
  <2>3. todo \in Seq(Tables) /\ Pending = opt.tables /\ \A j, k \in DOMAIN todo : todo[j] = todo[k] => j = k
    BY <1>2, <2>1, AllAsked DEF TInit, OptInv
  <2>4. phase \in {"names", "tables"}
    BY <1>2, StartedIs DEF TInit
  <2>5. TodoInv
    <3>1. ASSUME todo # <<>>
          PROVE  at <= rows_of(Head(todo), opt.scale) + 1
      <4>1. Head(todo) \in Tables
        BY <2>3, <3>1
      <4>2. rows_of(Head(todo), opt.scale) \in Nat
        BY <2>1, <4>1, RowsPositive DEF OptInv
      <4> QED
        BY <2>1, <4>2 DEF Fresh
    <3> QED
      BY <2>3, <2>4, <3>1 DEF TodoInv
  <2>6. FileInv
    BY <2>1 DEF Fresh, FileInv, AsFound
  <2>7. OpenInv
    <3>1. fp = {} /\ at = 1
      BY <2>1 DEF Fresh
    <3>2. ASSUME todo # <<>>
          PROVE  file[Dest(Head(todo))].fresh = 0
      <4>1. Head(todo) \in Tables
        BY <2>3, <3>2
      <4>2. Dest(Head(todo)) \in TableFiles
        BY <2>2, <4>1 DEF VarInv, Dest, TableFiles
      <4> QED
        BY <2>1, <4>2 DEF Fresh
    <3> QED
      BY <2>3, <3>1, <3>2 DEF OpenInv
  <2> QED
    BY <2>1, <2>2, <2>5, <2>6, <2>7 DEF TInv, Working
<1> QED
  BY <1>1, <1>2 DEF main

-----------------------------------------------------------------------------
(* A row. *)

LEMMA DestTyped ==
  ASSUME VarInv, NEW t \in Tables
  PROVE  Dest(t) \in TableFiles /\ Dest(t)[1] = t
BY DEF VarInv, Dest, TableFiles

LEMMA LoaderWrites ==
  ASSUME NEW t \in Tables, loader(t), ~opt.direct
  PROVE  WritesRow(t)
BY TablesAre DEF loader, pr_part, pr_supp, pr_cust, pr_date, pr_lineorder

(* What is written stays within a file. *)
LEMMA AppendedTyped ==
  ASSUME NEW x \in FileType, x.size >= 0, NEW bytes \in Nat \ {0}
  PROVE  /\ Appended(x, bytes) \in FileType /\ Appended(x, bytes).fresh = x.fresh + 1
         /\ Appended(x, bytes).written <= Appended(x, bytes).size
<1>1. x.fresh + 1 \in Nat /\ x.written + bytes \in Nat /\ x.size \in Nat
  BY DEF FileType
<1>2. Longer(x.size, x.written + bytes) \in Nat /\ x.written + bytes <= Longer(x.size, x.written + bytes)
  BY <1>1 DEF Longer
<1> QED
  BY <1>1, <1>2 DEF Appended, FileType

(* A file that is opened for its first row was as found, and the user has  *)
(* agreed if there was one.                                                *)
LEMMA FirstRow ==
  ASSUME VarInv, Working, NEW t \in Tables, t \notin fp, Opens(t), WritesRow(t)
  PROVE  /\ file'[Dest(t)] \in FileType /\ file'[Dest(t)].fresh = 1
         /\ file'[Dest(t)].written <= file'[Dest(t)].size
         /\ opt.found[Dest(t)] >= 0 => opt.force \/ Dest(t) \in agreed'
<1> DEFINE d == Dest(t)
<1>1. d \in TableFiles /\ d[1] = t
  BY DestTyped
<1>2. file[d] = [fresh |-> 0, written |-> 0, size |-> opt.found[d]]
  BY <1>1 DEF Working, FileInv, AsFound
<1>3. opt.found[d] \in Nat \cup {-1}
  BY <1>1 DEF Working, OptInv
<1>4. PICK bytes \in Widths[t] : file'[d] = Appended(Opened(d), bytes)
  BY <1>1 DEF WritesRow, VarInv
<1>5. PICK asks \in Asks(t) : agreed' = IF asks THEN agreed \cup {d} ELSE agreed
  BY DEF WritesRow
<1>6. Found(d) <=> opt.found[d] >= 0
  BY <1>2 DEF Found
<1>7. Found(d) /\ ~opt.force => asks
  BY <1>5 DEF Asks
<1>8. Found(d) => opt.force \/ d \in agreed'
  BY <1>5, <1>7
<1>9. bytes \in Nat \ {0}
  BY <1>4, TablesAssumption
<1> HIDE DEF d
<1>10. Opened(d) \in FileType /\ Opened(d).fresh = 0 /\ Opened(d).size >= 0
  BY <1>2, <1>3, <1>6 DEF Opened, FileType
<1>11. file'[d] \in FileType /\ file'[d].fresh = 0 + 1 /\ file'[d].written <= file'[d].size
  BY <1>4, <1>9, <1>10, AppendedTyped
<1> QED
  BY <1>6, <1>8, <1>11 DEF d

(* A row more. *)
LEMMA NextRow ==
  ASSUME VarInv, Working, NEW t \in Tables, t \in fp, WritesRow(t)
  PROVE  /\ file'[Dest(t)] \in FileType /\ file'[Dest(t)].fresh = file[Dest(t)].fresh + 1
         /\ file'[Dest(t)].written <= file'[Dest(t)].size
         /\ opt.found[Dest(t)] >= 0 => opt.force \/ Dest(t) \in agreed'
<1> DEFINE d == Dest(t)
<1>1. d \in TableFiles /\ d[1] = t
  BY DestTyped
<1>2. Overwritten(d)
  BY <1>1 DEF Working, FileInv
<1>3. file[d] \in FileType
  BY <1>1 DEF VarInv
<1>4. ~Opens(t)
  BY DEF Opens
<1>5. PICK bytes \in Widths[t] : file'[d] = Appended(file[d], bytes)
  BY <1>1, <1>4 DEF WritesRow, VarInv
<1>6. agreed \subseteq agreed'
  BY <1>4 DEF WritesRow
<1>7. bytes \in Nat \ {0}
  BY <1>5, TablesAssumption
<1> HIDE DEF d
<1>8. file[d].size >= 0
  BY <1>2, <1>3 DEF Overwritten, FileType
<1>9. /\ file'[d] \in FileType /\ file'[d].fresh = file[d].fresh + 1
      /\ file'[d].written <= file'[d].size
  BY <1>3, <1>5, <1>7, <1>8, AppendedTyped
<1>10. opt.found[d] >= 0 => opt.force \/ d \in agreed'
  BY <1>2, <1>6 DEF Overwritten
<1> QED
  BY <1>9, <1>10 DEF d

LEMMA RowWritten ==
  ASSUME VarInv, Working, NEW t \in Tables, InTable(t), Prints, WritesRow(t),
         at' = at + 1, UNCHANGED <<opt, phase, todo, name>>
  PROVE  VarInv' /\ FileInv' /\ OpenInv'
<1> DEFINE d == Dest(t)
<1>1. d \in TableFiles /\ d[1] = t /\ t = Head(todo) /\ phase = "tables" /\ todo # <<>>
  BY DestTyped DEF InTable
<1>2. fp' = fp \cup {t}
  BY DEF WritesRow
<1>3. \A f \in TableFiles : f # d => file'[f] = file[f]
  BY DEF WritesRow
<1>4. agreed \subseteq agreed' /\ agreed' \subseteq agreed \cup {d}
  BY DEF WritesRow
<1>5. \A u : Dest(u)' = Dest(u)
  BY DEF Dest
<1>6. file[d].fresh \in Nat
  BY <1>1 DEF VarInv, FileType
<1>7. at \in Nat \ {0} /\ file[d].fresh = at - 1 /\ (t \in fp <=> at > 1)
  BY <1>1 DEF VarInv, Working, OpenInv
<1>8. Overwritten(d)' /\ file'[d].fresh = at /\ file'[d] \in FileType /\ file'[d].written <= file'[d].size
  <2>1. CASE t \notin fp
    <3>1. Opens(t)
      BY <2>1 DEF Opens
    <3>2. at = 1
      BY <1>7, <2>1
    <3>3. /\ file'[d] \in FileType /\ file'[d].fresh = 1 /\ file'[d].written <= file'[d].size
          /\ opt.found[d] >= 0 => opt.force \/ d \in agreed'
      BY <2>1, <3>1, FirstRow
    <3> HIDE DEF d
    <3>4. d' = d
      BY <1>5 DEF d
    <3> QED
      BY <3>2, <3>3, <3>4 DEF Overwritten
  <2>2. CASE t \in fp
    <3>1. /\ file'[d] \in FileType /\ file'[d].fresh = file[d].fresh + 1 /\ file'[d].written <= file'[d].size
          /\ opt.found[d] >= 0 => opt.force \/ d \in agreed'
      BY <2>2, NextRow
    <3> HIDE DEF d
    <3>2. d' = d
      BY <1>5 DEF d
    <3>3. file'[d].fresh = at /\ file'[d].fresh > 0
      BY <1>6, <1>7, <3>1
    <3> QED
      BY <3>1, <3>2, <3>3 DEF Overwritten
  <2> QED
    BY <2>1, <2>2
<1>9. VarInv'
  <2>1. file' \in [TableFiles -> FileType]
    <3>1. PICK x : file' = [file EXCEPT ![d] = x]
      BY DEF WritesRow
    <3>2. x \in FileType
      BY <1>1, <1>8, <3>1 DEF VarInv
    <3> HIDE DEF d
    <3> QED
      BY <3>1, <3>2 DEF VarInv
  <2>2. \A f \in TableFiles : file'[f].fresh > 0 => file'[f].written <= file'[f].size
    BY <1>3, <1>8 DEF VarInv
  <2> QED
    BY <1>1, <1>2, <1>4, <1>7, <2>1, <2>2 DEF VarInv
<1> HIDE DEF d
<1>10. FileInv'
  <2> SUFFICES ASSUME NEW f \in TableFiles
               PROVE  (IF f[1] \in fp /\ f = Dest(f[1]) THEN Overwritten(f) ELSE AsFound(f))'
    BY DEF FileInv
  <2>1. CASE f = d
    BY <1>1, <1>2, <1>5, <1>8, <2>1 DEF d
  <2>2. CASE f # d
    <3>1. f[1] \in fp' /\ f = Dest(f[1]) <=> f[1] \in fp /\ f = Dest(f[1])
      BY <1>2, <2>2 DEF d
    <3>2. file'[f] = file[f]
      BY <1>3, <2>2
    <3>3. Overwritten(f) => Overwritten(f)'
      BY <1>4, <3>2 DEF Overwritten
    <3>4. AsFound(f) => AsFound(f)'
      BY <3>2 DEF AsFound
    <3> QED
      BY <1>5, <3>1, <3>3, <3>4 DEF Working, FileInv
  <2> QED
    BY <2>1, <2>2
<1>11. OpenInv'
  <2>1. t \in Pending /\ Pending' = Pending /\ Pending \subseteq opt.tables
    <3>1. todo \in Seq(Tables)
      BY DEF Working, TodoInv
    <3>2. 1 \in DOMAIN todo /\ Head(todo) = todo[1]
      BY <1>1, <3>1
    <3> QED
      BY <1>1, <3>2 DEF Pending, Working, TodoInv
  <2>2. fp' \subseteq opt'.tables /\ Prints'
    BY <1>2, <2>1 DEF Working, OpenInv, Prints
  <2>3. \A u \in opt.tables \ Pending : u \in fp' /\ file'[Dest(u)].fresh = rows_of(u, opt.scale)
    <3> SUFFICES ASSUME NEW u \in opt.tables \ Pending
                 PROVE  u \in fp' /\ file'[Dest(u)].fresh = rows_of(u, opt.scale)
      OBVIOUS
    <3>1. u \in fp /\ file[Dest(u)].fresh = rows_of(u, opt.scale)
      BY DEF Working, OpenInv
    <3>2. u \in Tables /\ u # t
      BY <2>1 DEF Working, OptInv
    <3>3. Dest(u) \in TableFiles /\ Dest(u) # d
      BY <1>1, <3>2, DestTyped DEF d
    <3> QED
      BY <1>2, <1>3, <3>1, <3>3
  <2>4. \A u \in Pending : u # Head(todo) => u \notin fp'
    BY <1>1, <1>2 DEF Working, OpenInv
  <2>5. file'[d].fresh = at' - 1 /\ t \in fp' /\ at' > 1
    BY <1>2, <1>7, <1>8
  <2> QED
    BY <1>1, <1>5, <2>1, <2>2, <2>3, <2>4, <2>5 DEF OpenInv, d
<1> QED
  BY <1>9, <1>10, <1>11

(* A run that validates, seeds or loads directly has no file open. *)
LEMMA RowNotWritten ==
  ASSUME VarInv, Working, NEW t \in Tables, InTable(t), ~Prints,
         at' = at + 1, UNCHANGED <<opt, phase, todo, name, agreed, fp, file>>
  PROVE  VarInv' /\ FileInv' /\ OpenInv'
<1>1. VarInv'
  BY DEF VarInv
<1>2. \A f : Dest(f)' = Dest(f) /\ Overwritten(f)' = Overwritten(f) /\ AsFound(f)' = AsFound(f)
  BY DEF Dest, Overwritten, AsFound
<1>3. FileInv'
  BY <1>2 DEF Working, FileInv
<1>4. Prints' = Prints /\ Pending' = Pending
  BY DEF Prints, Pending
<1>5. OpenInv'
  BY <1>2, <1>4 DEF Working, OpenInv
<1> QED
  BY <1>1, <1>3, <1>5

LEMMA RoundStep ==
  ASSUME VarInv, Working, NEW t \in Tables, InTable(t), NEW r, NEW lines, Round(t, r, lines)
  PROVE  VarInv' /\ Working'
<1>1. at' = at + 1 /\ UNCHANGED <<opt, phase, todo, name, printed>> /\ at \in Nat \ {0}
  BY DEF Round, VarInv
<1>2. VarInv' /\ FileInv' /\ OpenInv'
  <2>1. CASE Prints
    <3>1. WritesRow(t)
      BY <2>1, LoaderWrites DEF Round, Prints
    <3> QED
      BY <1>1, <2>1, <3>1, RowWritten
  <2>2. CASE ~Prints
    <3>1. UNCHANGED <<agreed, fp, file>>
      BY <2>2 DEF Round, Prints, loader, ld
    <3> QED
      BY <1>1, <2>2, <3>1, RowNotWritten
  <2> QED
    BY <2>1, <2>2
<1>3. Pending' = Pending
  BY <1>1 DEF Pending
<1>4. t \in opt.tables /\ t = Head(todo) /\ at <= rows_of(t, opt.scale)
  <2>1. todo \in Seq(Tables) /\ todo # <<>> /\ Head(todo) = t
    BY DEF Working, TodoInv, InTable
  <2>2. 1 \in DOMAIN todo /\ todo[1] = t
    BY <2>1
  <2> QED
    BY <2>2 DEF Working, TodoInv, InTable, Pending
<1>5. TodoInv'
  <2>1. rows_of(t, opt.scale) \in Nat
    BY RowsPositive DEF Working, OptInv
  <2>2. at' <= rows_of(t, opt.scale) + 1
    BY <1>1, <1>4, <2>1
  <2> QED
    BY <1>1, <1>3, <1>4, <2>2 DEF Working, TodoInv
<1>7. OptInv'
  BY <1>1 DEF Working, OptInv
<1> QED
  BY <1>2, <1>5, <1>7 DEF Working

-----------------------------------------------------------------------------
(* The other steps. *)

(* A table is complete. *)
LEMMA TableDoneStep ==
  ASSUME VarInv, Working, TableDone
  PROVE  VarInv' /\ Working'
<1> DEFINE t == Head(todo)
<1>1. /\ phase = "tables" /\ todo # <<>> /\ at > rows_of(t, opt.scale) /\ todo' = Tail(todo) /\ at' = 1
      /\ UNCHANGED <<opt, phase, name, fp, file, agreed, vtotal>>
  BY DEF TableDone
<1>2. todo \in Seq(Tables) /\ \A j, k \in DOMAIN todo : todo[j] = todo[k] => j = k
  BY DEF Working, TodoInv
<1>3. /\ todo' \in Seq(Tables) /\ t \in Pending /\ Pending' = Pending \ {t}
      /\ \A j, k \in DOMAIN todo' : todo'[j] = todo'[k] => j = k
      /\ todo' # <<>> => Head(todo') \in Pending'
  <2> DEFINE r == Tail(todo)
  <2>1. /\ r \in Seq(Tables) /\ t \in {todo[k] : k \in DOMAIN todo}
        /\ {r[k] : k \in DOMAIN r} = {todo[k] : k \in DOMAIN todo} \ {t}
        /\ \A j, k \in DOMAIN r : r[j] = r[k] => j = k
        /\ r # <<>> => Head(r) \in {r[k] : k \in DOMAIN r}
    BY <1>1, <1>2, TailOf
  <2>2. todo' = r
    BY <1>1
  <2> HIDE DEF r, t
  <2>3. Pending' = {r[k] : k \in DOMAIN r}
    BY <2>2 DEF Pending
  <2> QED
    BY <2>1, <2>2, <2>3 DEF Pending
<1>4. t \in opt.tables /\ Pending \subseteq opt.tables /\ opt.tables \subseteq Tables
  BY <1>3 DEF Working, TodoInv, OptInv
<1>5. rows_of(t, opt.scale) \in Nat \ {0} /\ at = rows_of(t, opt.scale) + 1
  <2>1. rows_of(t, opt.scale) \in Nat \ {0}
    BY <1>4, RowsPositive DEF Working, OptInv
  <2> QED
    BY <1>1, <2>1 DEF VarInv, Working, TodoInv
<1> HIDE DEF t
<1>6. VarInv'
  BY <1>1 DEF VarInv
<1>7. \A u : Dest(u)' = Dest(u) /\ Overwritten(u)' = Overwritten(u) /\ AsFound(u)' = AsFound(u)
  BY <1>1 DEF Dest, Overwritten, AsFound
<1>8. FileInv'
  BY <1>1, <1>7 DEF Working, FileInv
<1>9. TodoInv'
  <2>1. ASSUME todo' # <<>>
        PROVE  1 <= rows_of(Head(todo'), opt.scale) + 1
    <3>1. Head(todo') \in Tables
      BY <1>3, <1>4, <2>1
    <3>2. rows_of(Head(todo'), opt.scale) \in Nat
      BY <3>1, RowsPositive DEF Working, OptInv
    <3> QED
      BY <3>2
  <2> QED
    BY <1>1, <1>3, <1>4, <2>1 DEF TodoInv
<1>10. OpenInv'
  <2>1. Prints' = Prints
    BY <1>1 DEF Prints
  <2>2. Prints => t \in fp /\ file[Dest(t)].fresh = rows_of(t, opt.scale)
    BY <1>1, <1>5 DEF Working, OpenInv, t
  <2>3. \A u \in opt.tables \ Pending' : Prints => u \in fp /\ file[Dest(u)].fresh = rows_of(u, opt.scale)
    BY <1>3, <2>2 DEF Working, OpenInv
  <2>4. \A u \in Pending' : u \notin fp
    BY <1>3 DEF Working, OpenInv, t
  <2>5. ASSUME todo' # <<>>
        PROVE  Head(todo') \notin fp /\ file[Dest(Head(todo'))].fresh = 0
    <3>1. Head(todo') \in Tables /\ Head(todo') \notin fp
      BY <1>3, <1>4, <2>4, <2>5
    <3>2. Dest(Head(todo')) \in TableFiles /\ Dest(Head(todo'))[1] = Head(todo')
      BY <3>1, DestTyped
    <3>3. AsFound(Dest(Head(todo')))
      BY <3>1, <3>2 DEF Working, FileInv
    <3> QED
      BY <3>1, <3>3 DEF AsFound
  <2> QED
    BY <1>1, <1>7, <2>1, <2>3, <2>4, <2>5 DEF Working, OpenInv
<1>12. OptInv'
  BY <1>1 DEF Working, OptInv
<1> QED
  BY <1>6, <1>8, <1>9, <1>10, <1>12 DEF Working

(* -O f: no file is open yet. *)
LEMMA EnterNameStep ==
  ASSUME VarInv, Working, EnterName
  PROVE  VarInv' /\ Working'
<1>1. PICK n \in Names : name' = [name EXCEPT ![todo[at]] = n]
  BY DEF EnterName
<1>2. /\ phase = "names" /\ at' = at + 1 /\ fp = {}
      /\ UNCHANGED <<opt, phase, todo, fp, file, agreed, vtotal, printed>>
  BY DEF EnterName, Working, OpenInv
<1>3. VarInv'
  <2>1. name' \in [Tables -> Names]
    BY <1>1 DEF VarInv
  <2>2. at' \in Nat \ {0}
    BY <1>2 DEF VarInv
  <2> QED
    BY <1>2, <2>1, <2>2 DEF VarInv
<1>4. Pending' = Pending /\ Prints' = Prints
  BY <1>2 DEF Pending, Prints
<1>5. TodoInv' /\ OptInv'
  BY <1>2, <1>4 DEF Working, TodoInv, OptInv
<1>6. FileInv'
  BY <1>2 DEF Working, FileInv, AsFound
<1>7. OpenInv'
  BY <1>2, <1>4 DEF Working, OpenInv
<1> QED
  BY <1>3, <1>5, <1>6, <1>7 DEF Working

(* The names are all there: gen_tbl starts with the first row. *)
LEMMA NamesDoneStep ==
  ASSUME VarInv, Working, NamesDone
  PROVE  VarInv' /\ Working'
<1>1. /\ phase = "names" /\ phase' = "tables" /\ at' = 1 /\ fp = {}
      /\ UNCHANGED <<opt, todo, name, fp, file, agreed, vtotal, printed>>
  BY DEF NamesDone, Working, OpenInv
<1>2. VarInv'
  BY <1>1 DEF VarInv
<1>3. Pending' = Pending /\ Prints' = Prints
  BY <1>1 DEF Pending, Prints
<1>4. \A u : Dest(u)' = Dest(u) /\ Overwritten(u)' = Overwritten(u) /\ AsFound(u)' = AsFound(u)
  BY <1>1 DEF Dest, Overwritten, AsFound
<1>5. FileInv' /\ OptInv'
  BY <1>1, <1>4 DEF Working, FileInv, OptInv
<1>6. ASSUME todo # <<>>
      PROVE  file[Dest(Head(todo))].fresh = 0 /\ rows_of(Head(todo), opt.scale) \in Nat
  <2>1. Head(todo) \in Tables
    BY <1>6 DEF Working, TodoInv
  <2>2. Dest(Head(todo)) \in TableFiles
    BY <2>1, DestTyped
  <2>3. AsFound(Dest(Head(todo)))
    BY <1>1, <2>2 DEF Working, FileInv
  <2> QED
    BY <2>1, <2>3, RowsPositive DEF AsFound, Working, OptInv
<1>7. TodoInv'
  BY <1>1, <1>3, <1>6 DEF Working, TodoInv
<1>8. OpenInv'
  BY <1>1, <1>3, <1>4, <1>6 DEF Working, OpenInv
<1> QED
  BY <1>2, <1>5, <1>7, <1>8 DEF Working

(* The ends: the user declines, a file cannot be opened, the input ends,   *)
(* or all tables are complete.                                             *)
LEMMA EndStep ==
  ASSUME VarInv, Working, Decline \/ OpenFails \/ AbortLoad \/ Return
  PROVE  VarInv' /\ Working'
<1>1. /\ phase' \in {"declined", "failed", "done"} /\ (phase' = "done" => todo = <<>>)
      /\ UNCHANGED <<opt, todo, at, name, fp, file, agreed, vtotal, printed>>
  BY DEF Decline, OpenFails, AbortLoad, Return
<1>2. VarInv'
  BY <1>1 DEF VarInv
<1>3. Pending' = Pending /\ Prints' = Prints
  BY <1>1 DEF Pending, Prints
<1>4. \A u : Dest(u)' = Dest(u) /\ Overwritten(u)' = Overwritten(u) /\ AsFound(u)' = AsFound(u)
  BY <1>1 DEF Dest, Overwritten, AsFound
<1>5. FileInv' /\ OptInv'
  BY <1>1, <1>4 DEF Working, FileInv, OptInv
<1>6. TodoInv' /\ OpenInv'
  BY <1>1, <1>3, <1>4 DEF Working, TodoInv, OpenInv
<1> QED
  BY <1>2, <1>5, <1>6 DEF Working

LEMMA TStep == TInv /\ [TNext]_tvars => TInv'
<1> SUFFICES ASSUME TInv, [TNext]_tvars
             PROVE  TInv'
  OBVIOUS
<1>1. VarInv
  BY DEF TInv
<1>2. ASSUME UNCHANGED tvars
      PROVE  TInv'
  <2>1. /\ VarInv' = VarInv /\ Idle' = Idle /\ OptInv' = OptInv /\ TodoInv' = TodoInv
        /\ FileInv' = FileInv /\ OpenInv' = OpenInv
    BY <1>2 DEF tvars, VarInv, Idle, OptInv, TodoInv, FileInv, OpenInv, Pending, Prints, Dest,
                Overwritten, AsFound
  <2> QED
    BY <2>1 DEF TInv, Working
<1>3. CASE Idle
  <2>1. ~TNext
    BY <1>3 DEF Idle, TNext, EnterName, AbortLoad, NamesDone, PartRow, SuppRow, CustRow, DateRow, LineRow,
                InTable, Decline, OpenFails, TableDone, Return
  <2> QED
    BY <1>2, <2>1
<1>4. CASE Working
  <2>1. ASSUME PartRow \/ SuppRow \/ CustRow \/ DateRow \/ LineRow
        PROVE  VarInv' /\ Working'
    <3>1. \E t \in Tables : \E r, lines : InTable(t) /\ Round(t, r, lines)
      BY <2>1, TablesAre DEF PartRow, SuppRow, CustRow, DateRow, LineRow
    <3> QED
      BY <1>1, <1>4, <3>1, RoundStep
  <2> QED
    BY <1>1, <1>2, <1>4, <2>1, TableDoneStep, EnterNameStep, NamesDoneStep, EndStep DEF TNext, TInv
<1> QED
  BY <1>3, <1>4 DEF TInv

-----------------------------------------------------------------------------
(* The static order of gen_tbl. *)

LEMMA OrderLines ==
  ASSUME NEW index, NEW old, NEW scale, NEW order \in mk_order(index, old, scale)
  PROVE  order.lines \in 1..MaxLines
<1>1. PICK date \in RANDOM(O_ODATE_MIN, O_ODATE_MAX, "O_ODATE") :
        order \in {order_of(mk_sparse(index, 0, scale), live_customer(drawn, O_CKEY_MAX(scale)), date, prio, own, old) :
                     drawn \in RANDOM(1, O_CKEY_MAX(scale), "O_CKEY"),
                     prio \in pick_str(read_dist("o_oprio"), "O_PRIO"),
                     own \in lines_of(scale, date)}
  BY DEF mk_order
<1>2. PICK own \in lines_of(scale, date) : order.lines = Len(own)
  BY <1>1 DEF order_of
<1>3. PICK n \in RANDOM(1, MaxLines, "O_LCNT") : own \in [1..n -> mk_line(scale, date)]
  BY DEF lines_of
<1>4. n \in 1..MaxLines /\ n \in Nat
  BY RowsAssumption, ProbeAssumption DEF RANDOM, RowStreams
<1>5. Len(own) = n
  BY <1>3, <1>4
<1> QED
  BY <1>2, <1>4, <1>5

LEMMA OrderStep == OrderInv /\ [TNext]_tvars => OrderInv'
<1>1. LineRow => o'.lines \in 1..MaxLines
  BY OrderLines DEF LineRow
<1>2. [TNext]_tvars /\ ~LineRow => o' = o
  BY DEF tvars, TNext, EnterName, AbortLoad, NamesDone, PartRow, SuppRow, CustRow, DateRow, Decline, OpenFails,
         TableDone, Return
<1>3. 1..MaxLines \subseteq 0..MaxLines
  BY RowsAssumption
<1> QED
  BY <1>1, <1>2, <1>3 DEF OrderInv

-----------------------------------------------------------------------------
(* The theorems. *)

LEMMA TableSteps == [LoadNext]_loadvars => [TNext]_tvars
BY DEF LoadNext, loadvars

(* TInv is an inductive invariant of the process. *)
THEOREM TablesInvariant == LoadSpec => [](TInv /\ OrderInv)
<1>1. TInv /\ OrderInv /\ [LoadNext]_loadvars => TInv' /\ OrderInv'
  BY TableSteps, TStep, OrderStep
<1> QED
  BY <1>1, TInvInit, PTL DEF LoadSpec

(* The state of a run through the tables stays well typed: a file never    *)
(* ends before what this run has written to it, and the static order has   *)
(* no more lines than the struct has room for.                             *)
THEOREM TablesTypeCorrect == LoadSpec => []TTypeOK
<1>1. TInv /\ OrderInv => TTypeOK
  <2> SUFFICES ASSUME TInv, OrderInv
               PROVE  TTypeOK
    OBVIOUS
  <2>1. phase \in {"idle", "names", "tables", "done", "declined", "failed"}
    BY DEF TInv, Idle, Working, TodoInv
  <2>2. \A k \in DOMAIN todo : todo[k] \in opt.tables
    BY DEF TInv, Idle, Working, TodoInv, Pending
  <2> QED
    BY <2>1, <2>2 DEF TInv, VarInv, FileType, OrderInv, TTypeOK
<1> QED
  BY <1>1, TablesInvariant, PTL

(* Whatever tables, scale, options and earlier files there are, a file is  *)
(* written over only with -f or after the user agreed (tbl_open), a run    *)
(* that ends well has written exactly the rows of each table, and every    *)
(* other file is as it was found.                                          *)
THEOREM FilesAreKept == LoadSpec => []FilesKept
<1>1. TInv => FilesKept
  <2> SUFFICES ASSUME TInv, Running, NEW f \in TableFiles
               PROVE  /\ (opt.found[f] >= 0 /\ file[f].fresh > 0) => (opt.force \/ f \in agreed)
                      /\ (file[f].fresh = 0) => file[f].size = opt.found[f]
                      /\ phase = "done" =>
                           file[f].fresh = IF Prints /\ f[1] \in opt.tables /\ f = Dest(f[1])
                                           THEN rows_of(f[1], opt.scale) ELSE 0
    BY DEF FilesKept
  <2>1. VarInv /\ Working
    BY DEF TInv, Idle, Running
  <2>2. CASE f[1] \in fp /\ f = Dest(f[1])
    <3>1. Overwritten(f)
      BY <2>1, <2>2 DEF Working, FileInv
    <3>2. f[1] \in opt.tables /\ Prints
      BY <2>1, <2>2 DEF Working, OpenInv
    <3>3. ASSUME phase = "done"
          PROVE  file[f].fresh = rows_of(f[1], opt.scale)
      <4>1. Pending = {}
        BY <2>1, <3>3 DEF Working, TodoInv, Pending
      <4> QED
        BY <2>1, <2>2, <3>2, <4>1 DEF Working, OpenInv
    <3> QED
      BY <2>2, <3>1, <3>2, <3>3 DEF Overwritten
  <2>3. CASE ~(f[1] \in fp /\ f = Dest(f[1]))
    <3>1. AsFound(f)
      BY <2>1, <2>3 DEF Working, FileInv
    <3>2. ASSUME phase = "done"
          PROVE  ~(Prints /\ f[1] \in opt.tables /\ f = Dest(f[1]))
      <4>1. Pending = {}
        BY <2>1, <3>2 DEF Working, TodoInv, Pending
      <4> QED
        BY <2>1, <2>3, <4>1 DEF Working, OpenInv
    <3> QED
      BY <3>1, <3>2 DEF AsFound
  <2> QED
    BY <2>2, <2>3
<1> QED
  BY <1>1, TablesInvariant, PTL

-----------------------------------------------------------------------------
(* Draws. *)

LEMMA DrawnIn ==
  ASSUME NEW stream \in RowStreams, NEW lower \in Int, NEW upper \in Int, lower <= upper,
         NEW x \in RANDOM(lower, upper, stream)
  PROVE  x \in Int /\ lower <= x /\ x <= upper
<1>1. x \in Int /\ ((lower <= x /\ x <= upper) \/ (upper <= x /\ x <= lower))
  BY ProbeAssumption DEF RANDOM
<1> QED
  BY <1>1

(* The key of a customer without orders, and only such a key, is moved:    *)
(* up by one, or to the last key and then down by one.                     *)
LEMMA LiveCustomer ==
  ASSUME NEW max \in Nat \ {0}, NEW drawn \in 1..max
  PROVE  live_customer(drawn, max) \in 1..max /\ live_customer(drawn, max) % CUST_MORTALITY # 0
<1> DEFINE round(key, delta) == IF key % 3 # 0 THEN key ELSE IF key + delta < max THEN key + delta ELSE max
<1>1. live_customer(drawn, max) = round(round(drawn, 1), -1)
  BY DEF live_customer, CUST_MORTALITY
<1>2. CASE drawn % 3 # 0
  BY <1>1, <1>2 DEF CUST_MORTALITY
<1>3. CASE drawn % 3 = 0 /\ drawn + 1 < max
  <2>1. round(drawn, 1) = drawn + 1 /\ (drawn + 1) % 3 = 1
    BY <1>3
  <2>2. live_customer(drawn, max) = drawn + 1
    BY <1>1, <2>1
  <2> QED
    BY <1>3, <2>1, <2>2 DEF CUST_MORTALITY
<1>4. CASE drawn % 3 = 0 /\ drawn + 1 = max
  <2>1. round(drawn, 1) = max /\ max % 3 = 1
    BY <1>4
  <2>2. live_customer(drawn, max) = max
    BY <1>1, <2>1
  <2> QED
    BY <2>1, <2>2 DEF CUST_MORTALITY
<1>5. CASE drawn % 3 = 0 /\ drawn = max
  <2>1. round(drawn, 1) = max
    BY <1>5
  <2>2. round(max, -1) = max - 1 /\ (max - 1) % 3 = 2 /\ max >= 3
    BY <1>5
  <2>3. live_customer(drawn, max) = max - 1
    BY <1>1, <2>1, <2>2
  <2> QED
    BY <2>2, <2>3 DEF CUST_MORTALITY
<1> QED
  BY <1>2, <1>3, <1>4, <1>5

(* A power of e is one of two as well: parts are drawn with the smaller    *)
(* logarithm.                                                              *)
LEMMA Logarithms ==
  ASSUME NEW scale \in Nat
  PROVE  Ln(scale) \in Nat /\ Lb(scale) \in Nat /\ Ln(scale) <= Lb(scale)
<1> DEFINE E == {k \in DOMAIN powers_of_e : powers_of_e[k] <= scale}
           B == {k \in DOMAIN powers_of_2 : powers_of_2[k] <= scale}
<1>1. \A k \in DOMAIN powers_of_e : k \in DOMAIN powers_of_2 /\ powers_of_2[k] <= powers_of_e[k]
  BY DEF powers_of_e, powers_of_2
<1>2. \A k \in DOMAIN powers_of_e : powers_of_e[k] \in Nat
  BY DEF powers_of_e
<1>3. \A k \in DOMAIN powers_of_2 : powers_of_2[k] \in Nat
  BY DEF powers_of_2
<1>4. E \subseteq B
  BY <1>1, <1>2, <1>3
<1>5. IsFiniteSet(B)
  <2>1. B \subseteq DOMAIN powers_of_2
    OBVIOUS
  <2> HIDE DEF B
  <2> QED
    BY <2>1, ThirtyPowers, FS_Subset
<1> HIDE DEF E, B
<1>6. Cardinality(E) \in Nat /\ Cardinality(B) \in Nat /\ Cardinality(E) <= Cardinality(B)
  BY <1>4, <1>5, FS_Subset, FS_CardinalityType
<1> QED
  BY <1>6 DEF E, B, Ln, Lb

LEMMA KeyRanges ==
  ASSUME NEW scale \in Nat \ {0}
  PROVE  /\ L_PKEY_MAX(scale) \in 1..rows_of("part", scale)
         /\ L_SKEY_MAX(scale) = rows_of("supplier", scale) /\ L_SKEY_MAX(scale) \in Nat \ {0}
         /\ O_CKEY_MAX(scale) = rows_of("customer", scale) /\ O_CKEY_MAX(scale) \in Nat \ {0}
<1>1. Ln(scale) \in Nat /\ Lb(scale) \in Nat /\ Ln(scale) <= Lb(scale)
  BY Logarithms
<1>2. base["part"] \in Nat \ {0} /\ base["supplier"] \in Nat \ {0} /\ base["customer"] \in Nat \ {0}
  BY RowsAssumption
<1>3. /\ rows_of("part", scale) = base["part"] * (1 + Lb(scale))
      /\ rows_of("supplier", scale) = base["supplier"] * scale
      /\ rows_of("customer", scale) = base["customer"] * scale
  BY DEF rows_of
<1>4. /\ L_PKEY_MAX(scale) = base["part"] * (Ln(scale) + 1)
      /\ L_SKEY_MAX(scale) = base["supplier"] * scale /\ O_CKEY_MAX(scale) = base["customer"] * scale
  BY DEF L_PKEY_MAX, L_SKEY_MAX, O_CKEY_MAX
<1>5. \A b \in Nat \ {0}, x, y \in Nat : x <= y => /\ b * (x + 1) \in Nat \ {0} /\ b * (1 + y) \in Nat
                                                  /\ b * (x + 1) <= b * (1 + y)
  OBVIOUS
<1>6. \A b, s \in Nat \ {0} : b * s \in Nat \ {0}
  OBVIOUS
<1>7. L_PKEY_MAX(scale) \in Nat \ {0} /\ rows_of("part", scale) \in Nat /\ L_PKEY_MAX(scale) <= rows_of("part", scale)
  BY <1>1, <1>2, <1>3, <1>4, <1>5
<1>8. base["supplier"] * scale \in Nat \ {0} /\ base["customer"] * scale \in Nat \ {0}
  BY <1>2, <1>6
<1> QED
  BY <1>3, <1>4, <1>7, <1>8

-----------------------------------------------------------------------------
(* Dates. *)

(* The row of DATE is read off the key. *)
LEMMA KeyDecoded ==
  ASSUME NEW y \in Years, NEW d \in 1..DaysIn(y), NEW m \in 1..12, InMonth(y, m, d)
  PROVE  DateRowOf(Key(y, m, d)) = Offset(y) + d
<1> DEFINE x == MonthDay(y, m, d)
           key == 19000000 + y * 10000 + m * 100 + x
<1>1. /\ d \in Nat /\ y \in Nat /\ LEAP(y) \in {0, 1} /\ LEAP(1900 + y) = LEAP(y)
      /\ DaysBefore(1900 + y) \in Int /\ DaysBefore(1992) \in Int
  BY YearFollows, Leaps, DaysGrow DEF Years
<1>2. x \in 1..31
  BY <1>1, MonthDayBounds
<1>3. DaysBeforeMonth(y, m) \in Nat /\ DaysBeforeMonth(1900 + y, m) = DaysBeforeMonth(y, m)
  BY <1>1, MonthsGrow DEF DaysBeforeMonth
<1>4. x = d - DaysBeforeMonth(y, m) /\ Key(y, m, d) = key
  BY DEF MonthDay, Key
<1> HIDE DEF x
<1>5. key \div 10000 = 1900 + y /\ (key \div 100) % 100 = m /\ key % 100 = x
  <2>1. key = (1900 + y) * 10000 + (m * 100 + x) /\ key = ((1900 + y) * 100 + m) * 100 + x
    BY <1>1, <1>2
  <2>2. key \div 10000 = 1900 + y
    BY <1>1, <1>2, <2>1
  <2>3. key \div 100 = (1900 + y) * 100 + m /\ key % 100 = x
    BY <1>1, <1>2, <2>1
  <2>4. ((1900 + y) * 100 + m) % 100 = m
    BY <1>1
  <2> QED
    BY <2>2, <2>3, <2>4
<1> HIDE DEF key
<1>6. DateRowOf(key) = DaysBefore(1900 + y) + DaysBeforeMonth(1900 + y, m) + x - DaysBefore(1992)
  BY <1>5 DEF DateRowOf
<1> QED
  BY <1>1, <1>3, <1>4, <1>6 DEF Offset

(* Every day of the orders' calendar that DATE goes up to is a key of it. *)
LEMMA DayIsKey ==
  ASSUME FirstOfJanuary, NEW index \in 1..base["date"]
  PROVE  IsDateKey(mk_time(index).alpha)
<1>1. base["date"] \in Nat /\ base["date"] <= TOTDATE
  BY DateAssumption, RowsAssumption
<1>2. index \in 1..TOTDATE
  BY <1>1 DEF TOTDATE
<1>3. PICK y \in Years : \E d \in 1..DaysIn(y) : \E m \in 1..12 : InMonth(y, m, d) /\ index = Offset(y) + d
  BY <1>2, Dated
<1>4. PICK d \in 1..DaysIn(y) : \E m \in 1..12 : InMonth(y, m, d) /\ index = Offset(y) + d
  BY <1>3
<1>5. PICK m \in 1..12 : InMonth(y, m, d) /\ index = Offset(y) + d
  BY <1>4
<1>6. mk_time(index).alpha = Key(y, m, d)
  BY <1>5, TimeOf
<1>7. DateRowOf(Key(y, m, d)) = index
  BY <1>5, KeyDecoded
<1>8. mk_date(index).datekey = mk_time(index).alpha
  BY <1>2, CalendarsAgree
<1> QED
  BY <1>6, <1>7, <1>8 DEF IsDateKey

(* The date of an order, and a date up to L_CDTE_MAX days after it. *)
LEMMA OrderDates ==
  ASSUME FirstOfJanuary, NEW date \in RANDOM(O_ODATE_MIN, O_ODATE_MAX, "O_ODATE")
  PROVE  /\ IsDateKey(asc_date(date - STARTDATE))
         /\ \A c \in RANDOM(L_CDTE_MIN, L_CDTE_MAX, "L_CDTE") : IsDateKey(asc_date(date + c - STARTDATE))
<1>1. /\ O_ODATE_MIN = 92001 /\ O_ODATE_MAX = 94406 /\ STARTDATE = 92001 /\ L_CDTE_MIN = 30 /\ L_CDTE_MAX = 90
  BY DEF O_ODATE_MIN, O_ODATE_MAX, STARTDATE, TOTDATE, L_CDTE_MIN, L_CDTE_MAX, L_SDTE_MAX, L_RDTE_MAX
<1>2. base["date"] \in Int /\ 2495 < base["date"]
  BY <1>1, DateAssumption, RowsAssumption
<1>3. date \in Int /\ 92001 <= date /\ date <= 94406
  BY <1>1, DrawnIn DEF RowStreams
<1>4. \A c \in RANDOM(L_CDTE_MIN, L_CDTE_MAX, "L_CDTE") : c \in Int /\ 30 <= c /\ c <= 90
  BY <1>1, DrawnIn DEF RowStreams
<1>5. (date - STARTDATE) + 1 \in 1..base["date"]
  BY <1>1, <1>2, <1>3
<1>6. \A c \in RANDOM(L_CDTE_MIN, L_CDTE_MAX, "L_CDTE") : (date + c - STARTDATE) + 1 \in 1..base["date"]
  BY <1>1, <1>2, <1>3, <1>4
<1> QED
  BY <1>5, <1>6, DayIsKey DEF asc_date

-----------------------------------------------------------------------------
(* Orders. *)

(* The struct holds the lines of the order first, and pr_line stops where  *)
(* they end.                                                               *)
LEMMA OrderPrinted ==
  ASSUME NEW okey, NEW custkey, NEW date, NEW prio, NEW old, NEW scale,
         NEW own \in lines_of(scale, date)
  PROVE  LET order == order_of(okey, custkey, date, prio, own, old)
             lines == pr_line(order)
         IN /\ DOMAIN lines = 1..Len(own) /\ order.okey = okey /\ order.totalprice = total(own)
            /\ \A k \in DOMAIN lines : lines[k] = [okey |-> okey, linenumber |-> k, line |-> own[k]]
            /\ [k \in DOMAIN lines |-> lines[k].line] = own
<1> DEFINE Line(k) == [okey |-> okey, linenumber |-> k, line |-> own[k]]
           all == [k \in 1..MaxLines |-> IF k <= Len(own) THEN Line(k) ELSE old.lineorders[k]]
           lines == SubSeq(all, 1, Len(own))
<1>1. PICK n \in RANDOM(1, MaxLines, "O_LCNT") : own \in [1..n -> mk_line(scale, date)]
  BY DEF lines_of
<1>2. n \in 1..MaxLines /\ MaxLines \in Nat /\ n \in Nat
  BY RowsAssumption, ProbeAssumption DEF RANDOM, RowStreams
<1>3. own \in Seq(mk_line(scale, date)) /\ Len(own) = n /\ DOMAIN own = 1..n
  BY <1>1, <1>2
<1>4. DOMAIN lines = 1..n /\ \A k \in 1..n : lines[k] = Line(k)
  <2>1. lines = [k \in 1..n |-> all[k]]
    BY <1>2, <1>3
  <2>2. \A k \in 1..n : k \in 1..MaxLines /\ k <= Len(own)
    BY <1>2, <1>3
  <2> QED
    BY <2>1, <2>2
<1>5. [k \in 1..n |-> lines[k].line] = own
  <2>1. \A k \in 1..n : Line(k).line = own[k]
    OBVIOUS
  <2> HIDE DEF lines, Line
  <2>2. \A k \in 1..n : lines[k].line = own[k]
    BY <1>4, <2>1
  <2> QED
    BY <1>1, <2>2
<1> HIDE DEF lines
<1>6. pr_line(order_of(okey, custkey, date, prio, own, old)) = lines
  BY DEF pr_line, order_of, lines
<1>7. /\ order_of(okey, custkey, date, prio, own, old).okey = okey
      /\ order_of(okey, custkey, date, prio, own, old).totalprice = total(own)
  BY DEF order_of
<1> QED
  BY <1>3, <1>4, <1>5, <1>6, <1>7

LEMMA OrderBuilt ==
  ASSUME NEW index, NEW old, NEW scale, NEW order \in mk_order(index, old, scale)
  PROVE  LET lines == pr_line(order)
         IN /\ \A k \in DOMAIN lines : lines[k].okey = order.okey /\ lines[k].linenumber = k
            /\ order.totalprice = total([k \in DOMAIN lines |-> lines[k].line])
<1>1. PICK date \in RANDOM(O_ODATE_MIN, O_ODATE_MAX, "O_ODATE") :
        order \in {order_of(mk_sparse(index, 0, scale), live_customer(drawn, O_CKEY_MAX(scale)), date, prio, own, old) :
                     drawn \in RANDOM(1, O_CKEY_MAX(scale), "O_CKEY"),
                     prio \in pick_str(read_dist("o_oprio"), "O_PRIO"),
                     own \in lines_of(scale, date)}
  BY DEF mk_order
<1>2. PICK drawn \in RANDOM(1, O_CKEY_MAX(scale), "O_CKEY"), prio \in pick_str(read_dist("o_oprio"), "O_PRIO"),
           own \in lines_of(scale, date) :
        order = order_of(mk_sparse(index, 0, scale), live_customer(drawn, O_CKEY_MAX(scale)), date, prio, own, old)
  BY <1>1
<1> DEFINE okey == mk_sparse(index, 0, scale)
           custkey == live_customer(drawn, O_CKEY_MAX(scale))
<1> HIDE DEF okey, custkey
<1>3. order = order_of(okey, custkey, date, prio, own, old)
  BY <1>2 DEF okey, custkey
<1> QED
  BY <1>3, OrderPrinted

(* The keys that the columns of a line have. *)
LineJoins(l, scale) ==
  /\ l.partkey \in 1..rows_of("part", scale) /\ l.suppkey \in 1..rows_of("supplier", scale)
  /\ IsDateKey(l.commit_date)

LEMMA LineKeys ==
  ASSUME FirstOfJanuary, NEW scale \in Nat \ {0}, NEW date \in RANDOM(O_ODATE_MIN, O_ODATE_MAX, "O_ODATE"),
         NEW l \in mk_line(scale, date)
  PROVE  LineJoins(l, scale)
<1>1. PICK partkey \in RANDOM(1, L_PKEY_MAX(scale), "L_PKEY"), suppkey \in RANDOM(1, L_SKEY_MAX(scale), "L_SKEY"),
           c_date \in RANDOM(L_CDTE_MIN, L_CDTE_MAX, "L_CDTE") :
        l.partkey = partkey /\ l.suppkey = suppkey
          /\ l.commit_date = asc_date(date + c_date - STARTDATE)
  BY DEF mk_line
<1>2. /\ L_PKEY_MAX(scale) \in 1..rows_of("part", scale)
      /\ L_SKEY_MAX(scale) = rows_of("supplier", scale) /\ L_SKEY_MAX(scale) \in Nat \ {0}
  BY KeyRanges
<1>3. rows_of("part", scale) \in Nat
  BY RowsPositive, TablesAre
<1>4. partkey \in Int /\ 1 <= partkey /\ partkey <= L_PKEY_MAX(scale)
  BY <1>2, <1>3, DrawnIn DEF RowStreams
<1>5. suppkey \in Int /\ 1 <= suppkey /\ suppkey <= L_SKEY_MAX(scale)
  BY <1>2, DrawnIn DEF RowStreams
<1>6. partkey \in 1..rows_of("part", scale) /\ suppkey \in 1..rows_of("supplier", scale)
  BY <1>2, <1>3, <1>4, <1>5
<1>7. IsDateKey(asc_date(date + c_date - STARTDATE))
  BY OrderDates
<1> QED
  BY <1>1, <1>6, <1>7 DEF LineJoins

(* The keys of an order, and of the lines of it that are printed. *)
LEMMA OrderKeys ==
  ASSUME FirstOfJanuary, NEW index, NEW old, NEW scale \in Nat \ {0}, NEW order \in mk_order(index, old, scale)
  PROVE  /\ order.custkey \in 1..rows_of("customer", scale) /\ order.custkey % CUST_MORTALITY # 0
         /\ IsDateKey(order.odate)
         /\ \A k \in DOMAIN pr_line(order) : LineJoins(pr_line(order)[k].line, scale)
<1>1. PICK date \in RANDOM(O_ODATE_MIN, O_ODATE_MAX, "O_ODATE") :
        order \in {order_of(mk_sparse(index, 0, scale), live_customer(drawn, O_CKEY_MAX(scale)), date, prio, own, old) :
                     drawn \in RANDOM(1, O_CKEY_MAX(scale), "O_CKEY"),
                     prio \in pick_str(read_dist("o_oprio"), "O_PRIO"),
                     own \in lines_of(scale, date)}
  BY DEF mk_order
<1>2. PICK drawn \in RANDOM(1, O_CKEY_MAX(scale), "O_CKEY"), prio \in pick_str(read_dist("o_oprio"), "O_PRIO"),
           own \in lines_of(scale, date) :
        order = order_of(mk_sparse(index, 0, scale), live_customer(drawn, O_CKEY_MAX(scale)), date, prio, own, old)
  BY <1>1
<1> DEFINE okey == mk_sparse(index, 0, scale)
           custkey == live_customer(drawn, O_CKEY_MAX(scale))
<1>3. custkey \in 1..rows_of("customer", scale) /\ custkey % CUST_MORTALITY # 0
  <2>1. O_CKEY_MAX(scale) = rows_of("customer", scale) /\ O_CKEY_MAX(scale) \in Nat \ {0}
    BY KeyRanges
  <2>2. drawn \in 1..O_CKEY_MAX(scale)
    BY <2>1, DrawnIn DEF RowStreams
  <2> QED
    BY <2>1, <2>2, LiveCustomer
<1> HIDE DEF okey, custkey
<1>4. order = order_of(okey, custkey, date, prio, own, old)
  BY <1>2 DEF okey, custkey
<1>5. order.custkey = custkey /\ order.odate = asc_date(date - STARTDATE)
  BY <1>4 DEF order_of
<1>6. IsDateKey(order.odate)
  BY <1>5, OrderDates
<1>7. DOMAIN pr_line(order) = 1..Len(own)
      /\ \A k \in DOMAIN pr_line(order) : pr_line(order)[k] = [okey |-> okey, linenumber |-> k, line |-> own[k]]
  BY <1>4, OrderPrinted
<1>8. \A k \in 1..Len(own) : own[k] \in mk_line(scale, date)
  <2>1. PICK n \in RANDOM(1, MaxLines, "O_LCNT") : own \in [1..n -> mk_line(scale, date)]
    BY DEF lines_of
  <2>2. n \in Nat
    BY RowsAssumption, DrawnIn DEF RowStreams
  <2>3. Len(own) = n
    BY <2>1, <2>2
  <2> QED
    BY <2>1, <2>3
<1>9. \A k \in DOMAIN pr_line(order) : pr_line(order)[k].line = own[k] /\ own[k] \in mk_line(scale, date)
  BY <1>7, <1>8
<1>10. \A k \in DOMAIN pr_line(order) : LineJoins(pr_line(order)[k].line, scale)
  BY <1>9, LineKeys
<1> QED
  BY <1>3, <1>5, <1>6, <1>10

-----------------------------------------------------------------------------
(* Parts. *)

Permutations(c) == {p \in [0..(c - 1) -> 0..(c - 1)] : \A j, k \in 0..(c - 1) : p[j] = p[k] => j = k}

LEMMA Swapped ==
  ASSUME NEW c \in Nat, NEW p \in Permutations(c), NEW j \in 0..(c - 1), NEW k \in 0..(c - 1)
  PROVE  swap(p, j, k) \in Permutations(c)
BY DEF swap, Permutations

(* Places that are exchanged, whichever are drawn, leave a permutation. *)
LEMMA Permuted ==
  ASSUME NEW c \in Nat, NEW draw \in [0..(c - 1) -> 0..(c - 1)]
  PROVE  permute(draw, c) \in Permutations(c)
<1> DEFINE Perms == Permutations(c)
           a == [n \in 0..(c - 1) |-> n]
           Loop(f) == f = [k \in 0..c |-> IF k = 0 THEN a ELSE swap(f[k - 1], draw[k - 1], k - 1)]
           loop == CHOOSE f : Loop(f)
<1>1. permute(draw, c) = loop[c]
  BY DEF permute
<1>2. a \in Perms
  BY DEF Permutations
<1>3. \A k \in 1..c, p \in Perms : swap(p, draw[k - 1], k - 1) \in Perms
  BY Swapped
<1> HIDE DEF a, Perms
<1>4. \E f : Loop(f)
  <2> DEFINE F == [z \in Nat \X Perms |-> IF z[1] \in 1..c THEN swap(z[2], draw[z[1] - 1], z[1] - 1) ELSE z[2]]
  <2>1. F \in [Nat \X Perms -> Perms]
    BY <1>3
  <2>2. \A k \in 1..c, p \in Perms : F[<<k, p>>] = swap(p, draw[k - 1], k - 1)
    OBVIOUS
  <2> HIDE DEF F
  <2>3. PICK f : Iterated(f, c, Perms, a, F)
    BY <1>2, <2>1, Recursion
  <2>4. f \in [0..c -> Perms] /\ f[0] = a /\ \A k \in 1..c : f[k] = F[<<k, f[k - 1]>>]
    BY <2>3 DEF Iterated
  <2>5. \A k \in 1..c : f[k] = swap(f[k - 1], draw[k - 1], k - 1)
    <3>1. \A k \in 1..c : f[k - 1] \in Perms
      BY <2>4
    <3> QED
      BY <2>2, <2>4, <3>1
  <2>6. \A k \in 0..c : f[k] = IF k = 0 THEN a ELSE swap(f[k - 1], draw[k - 1], k - 1)
    BY <2>4, <2>5
  <2>7. f = [k \in 0..c |-> IF k = 0 THEN a ELSE swap(f[k - 1], draw[k - 1], k - 1)]
    BY <2>4, <2>6
  <2> QED
    BY <2>7
<1>5. Loop(loop)
  <2> HIDE DEF Loop
  <2> QED
    BY <1>4
<1> HIDE DEF loop
<1>6. loop[0] = a /\ \A k \in 1..c : loop[k] = swap(loop[k - 1], draw[k - 1], k - 1)
  BY <1>5
<1> HIDE DEF Loop
<1>7. ASSUME NEW n \in 0..(c - 1), loop[n] \in Perms
      PROVE  loop[n + 1] \in Perms
  <2>1. n + 1 \in 1..c /\ (n + 1) - 1 = n
    OBVIOUS
  <2>2. loop[n + 1] = swap(loop[n], draw[n], n)
    BY <1>6, <2>1
  <2>3. swap(loop[n], draw[n], n) \in Perms
    BY <1>3, <1>7, <2>1
  <2> QED
    BY <2>2, <2>3
<1> DEFINE T == {n \in 0..c : loop[n] \in Perms}
<1>8. 0 \in T /\ \A n \in 0..(c - 1) : n \in T => n + 1 \in T
  BY <1>2, <1>6, <1>7
<1> HIDE DEF T
<1>9. 0..c \subseteq T
  BY <1>8, UptoInduction
<1>10. loop[c] \in Perms
  BY <1>9 DEF T
<1> QED
  BY <1>1, <1>10 DEF Perms

LEMMA ThreeElements ==
  ASSUME NEW x, NEW y, NEW z, x # y, y # z, x # z
  PROVE  Cardinality({x} \cup {y, z}) = 3
<1>1. IsFiniteSet({x}) /\ Cardinality({x}) = 1
  BY FS_Singleton
<1>2. IsFiniteSet({x} \cup {y}) /\ Cardinality({x} \cup {y}) = 2
  BY <1>1, FS_AddElement
<1>3. Cardinality(({x} \cup {y}) \cup {z}) = 3
  BY <1>2, FS_AddElement
<1>4. ({x} \cup {y}) \cup {z} = {x} \cup {y, z}
  OBVIOUS
<1> QED
  BY <1>3, <1>4

(* The words of a name are different colors. *)
LEMMA WordsDiffer ==
  ASSUME NEW words \in agg_str(read_dist("colors"), P_NAME_SCL, "P_NAME")
  PROVE  /\ words = [k \in 1..3 |-> words[k]] /\ words[1] # words[2] /\ words[2] # words[3] /\ words[1] # words[3]
<1> DEFINE colors == Dists["colors"]
           list == read_dist("colors")
           c == Len(list)
<1>1. /\ DOMAIN colors = 1..Len(colors) /\ Len(colors) \in Nat /\ Len(colors) >= 3
      /\ \A j, k \in DOMAIN colors : colors[j].text = colors[k].text => j = k
  BY ColorsAssumption
<1>2. DOMAIN list = DOMAIN colors /\ \A k \in DOMAIN colors : list[k].text = colors[k].text
  BY DEF read_dist
<1>3. c = Len(colors)
  BY <1>1, <1>2
<1> HIDE DEF list, c, colors
<1>4. PICK draw \in [0..(c - 1) -> RANDOM(0, c - 1, "P_NAME")] :
        words = [k \in 1..P_NAME_SCL |-> list[permute(draw, c)[(k - 1) % c] + 1].text]
  BY DEF agg_str, list, c
<1> DEFINE p == permute(draw, c)
<1>5. p \in Permutations(c)
  <2>1. \A x \in RANDOM(0, c - 1, "P_NAME") : x \in 0..(c - 1)
    BY <1>1, <1>3, DrawnIn DEF RowStreams
  <2>2. draw \in [0..(c - 1) -> 0..(c - 1)]
    BY <2>1
  <2> QED
    BY <1>1, <1>3, <2>2, Permuted
<1> HIDE DEF p
<1>6. words = [k \in 1..3 |-> words[k]] /\ \A k \in 1..3 : words[k] = list[p[k - 1] + 1].text
  <2>1. \A k \in 1..3 : (k - 1) % c = k - 1
    BY <1>1, <1>3
  <2> QED
    BY <1>4, <2>1 DEF P_NAME_SCL, p
<1>7. \A j, k \in 0..2 : j # k => list[p[j] + 1].text # list[p[k] + 1].text
  <2> SUFFICES ASSUME NEW j \in 0..2, NEW k \in 0..2, j # k
               PROVE  list[p[j] + 1].text # list[p[k] + 1].text
    OBVIOUS
  <2>1. j \in 0..(c - 1) /\ k \in 0..(c - 1)
    BY <1>1, <1>3
  <2>2. p[j] \in 0..(c - 1) /\ p[k] \in 0..(c - 1) /\ p[j] # p[k]
    BY <1>5, <2>1 DEF Permutations
  <2>3. p[j] + 1 \in DOMAIN colors /\ p[k] + 1 \in DOMAIN colors /\ p[j] + 1 # p[k] + 1
    BY <1>1, <1>3, <2>2
  <2> QED
    BY <1>1, <1>2, <2>3
<1> QED
  BY <1>6, <1>7

LEMMA ThreeWords ==
  ASSUME NEW w, w = [k \in 1..3 |-> w[k]]
  PROVE  Head(w) = w[1] /\ {Tail(w)[k] : k \in DOMAIN Tail(w)} = {w[2], w[3]}
<1> DEFINE n == 3
<1>1. n \in Nat /\ n = 3
  OBVIOUS
<1>2. w = [k \in 1..n |-> w[k]]
  OBVIOUS
<1> HIDE DEF n
<1>3. w \in Seq({w[k] : k \in 1..n}) /\ Len(w) = n /\ w # <<>>
  BY <1>1, <1>2
<1>4. Head(w) = w[1] /\ Len(Tail(w)) = n - 1 /\ DOMAIN Tail(w) = 1..(n - 1)
      /\ \A k \in 1..(n - 1) : Tail(w)[k] = w[k + 1]
  BY <1>1, <1>3
<1>5. DOMAIN Tail(w) = {1, 2} /\ Tail(w)[1] = w[2] /\ Tail(w)[2] = w[3]
  BY <1>1, <1>4
<1> QED
  BY <1>4, <1>5

LEMMA PartDigits ==
  ASSUME NEW mfgr \in 1..5, NEW cat \in 1..5, NEW brnd \in 1..40
  PROVE  /\ (mfgr * 10 + cat) \div 10 = mfgr
         /\ mfgr * 10 + cat \in {brand_text(mfgr, cat, brnd) \div 10, brand_text(mfgr, cat, brnd) \div 100}
BY DEF brand_text

LEMMA PartBuilt ==
  ASSUME NEW index, NEW part \in mk_part(index)
  PROVE  /\ Cardinality({part.color} \cup {part.name[k] : k \in DOMAIN part.name}) = P_NAME_SCL
         /\ part.category \div 10 = part.mfgr
         /\ part.category \in {part.brand \div 10, part.brand \div 100}
<1>1. PICK words \in agg_str(read_dist("colors"), P_NAME_SCL, "P_NAME"),
           mfgr \in RANDOM(1, 5, "P_MFG"), cat \in RANDOM(1, 5, "P_CAT"), brnd \in RANDOM(1, 40, "P_BRND") :
        /\ part.color = gen_color(words).color /\ part.name = gen_color(words).name
        /\ part.mfgr = mfgr /\ part.category = mfgr * 10 + cat /\ part.brand = brand_text(mfgr, cat, brnd)
  BY DEF mk_part
<1>2. mfgr \in 1..5 /\ cat \in 1..5 /\ brnd \in 1..40
  <2>1. mfgr \in Int /\ 1 <= mfgr /\ mfgr <= 5
    BY DrawnIn DEF RowStreams
  <2>2. cat \in Int /\ 1 <= cat /\ cat <= 5
    BY DrawnIn DEF RowStreams
  <2>3. brnd \in Int /\ 1 <= brnd /\ brnd <= 40
    BY DrawnIn DEF RowStreams
  <2> QED
    BY <2>1, <2>2, <2>3
<1>3. part.category \div 10 = part.mfgr /\ part.category \in {part.brand \div 10, part.brand \div 100}
  BY <1>1, <1>2, PartDigits
<1>4. words = [k \in 1..3 |-> words[k]] /\ words[1] # words[2] /\ words[2] # words[3] /\ words[1] # words[3]
  BY WordsDiffer
<1>5. part.color = Head(words) /\ part.name = Tail(words)
  BY <1>1 DEF gen_color
<1>6. Head(words) = words[1] /\ {Tail(words)[k] : k \in DOMAIN Tail(words)} = {words[2], words[3]}
  BY <1>4, ThreeWords
<1>7. Cardinality({words[1]} \cup {words[2], words[3]}) = 3
  <2>1. \A x, y, z : x # y /\ y # z /\ x # z => Cardinality({x} \cup {y, z}) = 3
    BY ThreeElements
  <2>2. words[1] # words[2] /\ words[2] # words[3] /\ words[1] # words[3]
    BY <1>4
  <2> DEFINE x == words[1]
             y == words[2]
             z == words[3]
  <2> HIDE DEF x, y, z
  <2>3. x # y /\ y # z /\ x # z
    BY <2>2 DEF x, y, z
  <2>4. Cardinality({x} \cup {y, z}) = 3
    BY ONLY <2>1, <2>3
  <2> QED
    BY <2>4 DEF x, y, z
<1>8. {part.color} \cup {part.name[k] : k \in DOMAIN part.name} = {words[1]} \cup {words[2], words[3]}
  BY <1>5, <1>6
<1> QED
  BY <1>3, <1>7, <1>8 DEF P_NAME_SCL

-----------------------------------------------------------------------------
(* Customers and suppliers. *)

Summed(f, c, w) == f = [k \in 0..c |-> IF k = 0 THEN 0 ELSE f[k - 1] + w[k].weight]
(* The sums of the weights that read_dist makes are those that it says. *)
LEMMA WeightsAdd ==
  ASSUME NEW c \in Nat, NEW w, \A k \in 1..c : w[k].weight \in Int
  PROVE  LET max == CHOOSE f : Summed(f, c, w)
         IN max[0] = 0 /\ \A k \in 1..c : max[k] = max[k - 1] + w[k].weight
<1> DEFINE max == CHOOSE f : Summed(f, c, w)
<1>1. \E f : Summed(f, c, w)
  <2> DEFINE F == [z \in Nat \X Int |-> IF z[1] \in 1..c THEN z[2] + w[z[1]].weight ELSE z[2]]
  <2>1. F \in [Nat \X Int -> Int] /\ 0 \in Int
    OBVIOUS
  <2>2. \A k \in 1..c, x \in Int : F[<<k, x>>] = x + w[k].weight
    OBVIOUS
  <2> HIDE DEF F
  <2>3. PICK f : Iterated(f, c, Int, 0, F)
    BY <2>1, Recursion
  <2>4. f \in [0..c -> Int] /\ f[0] = 0 /\ \A k \in 1..c : f[k] = F[<<k, f[k - 1]>>]
    BY <2>3 DEF Iterated
  <2>5. \A k \in 1..c : f[k] = f[k - 1] + w[k].weight
    <3>1. \A k \in 1..c : f[k - 1] \in Int
      BY <2>4
    <3> QED
      BY <2>2, <2>4, <3>1
  <2>6. \A k \in 0..c : f[k] = IF k = 0 THEN 0 ELSE f[k - 1] + w[k].weight
    BY <2>4, <2>5
  <2>7. f = [k \in 0..c |-> IF k = 0 THEN 0 ELSE f[k - 1] + w[k].weight]
    BY <2>4, <2>6
  <2> QED
    BY <2>7 DEF Summed
<1>2. Summed(max, c, w)
  BY <1>1
<1> HIDE DEF max
<1>3. max[0] = 0 /\ \A k \in 1..c : max[k] = max[k - 1] + w[k].weight
  BY <1>2 DEF Summed
<1> QED
  BY <1>3 DEF max

(* The sum of the weights up to a nation is the number of its region. *)
LEMMA WeightIsRegion ==
  ASSUME NEW n \in DOMAIN Dists["nations"]
  PROVE  /\ read_dist("nations")[n].text = Dists["nations"][n].text
         /\ LiesIn(n, read_dist("nations")[n].weight)
<1> DEFINE nations == Dists["nations"]
           c == Len(nations)
           max == CHOOSE f : Summed(f, c, nations)
<1>1. DOMAIN nations = 1..c /\ c \in Nat /\ \A k \in 1..c : nations[k].weight \in Int
  BY NationsAssumption DEF NATIONS_MAX
<1>2. read_dist("nations") = [k \in DOMAIN nations |-> [text |-> nations[k].text, weight |-> max[k]]]
  BY DEF read_dist, Summed
<1> HIDE DEF nations, c
<1>3. max[0] = 0 /\ \A k \in 1..c : max[k] = max[k - 1] + nations[k].weight
  BY <1>1, WeightsAdd
<1> HIDE DEF max
<1> DEFINE T == {k \in 0..c : k > 0 => LiesIn(k, max[k])}
<1>4. 0 \in T
  BY <1>1
<1>5. ASSUME NEW k \in 0..(c - 1), k \in T
      PROVE  k + 1 \in T
  <2> DEFINE m == k + 1
  <2>1. m \in 1..c /\ m - 1 = k /\ max[m] = max[k] + nations[m].weight /\ nations[m].weight \in Int
    <3>1. m \in 1..c /\ m - 1 = k
      BY <1>1
    <3> HIDE DEF m
    <3> QED
      BY <1>1, <1>3, <3>1
  <2>2. PICK r \in 0..(Len(Dists["regions"]) - 1) :
          LiesIn(m, r) /\ (IF m = 1 THEN r = nations[m].weight ELSE LiesIn(m - 1, r - nations[m].weight))
    BY <1>1, <2>1, NationsAssumption DEF nations
  <2>3. max[m] = r
    <3>1. CASE k = 0
      BY <1>3, <2>1, <2>2, <3>1
    <3>2. CASE k # 0
      <4>1. LiesIn(k, max[k]) /\ LiesIn(k, r - nations[m].weight)
        BY <1>5, <2>1, <2>2, <3>2
      <4>2. max[k] = r - nations[m].weight
        <5> DEFINE regions == Dists["regions"]
                   x == max[k]
                   y == r - nations[m].weight
        <5>1. /\ x \in 0..(Len(regions) - 1) /\ y \in 0..(Len(regions) - 1)
              /\ regions[x + 1].text = regions[y + 1].text
          BY <4>1 DEF LiesIn
        <5> HIDE DEF x, y
        <5>2. /\ DOMAIN regions = 1..Len(regions) /\ Len(regions) \in Nat
              /\ \A j, l \in DOMAIN regions : regions[j].text = regions[l].text => j = l
          BY NationsAssumption
        <5> HIDE DEF regions
        <5>3. x + 1 \in DOMAIN regions /\ y + 1 \in DOMAIN regions /\ x \in Int /\ y \in Int
          BY <5>1, <5>2
        <5>4. x + 1 = y + 1
          BY <5>1, <5>2, <5>3
        <5>5. x = y
          BY <5>3, <5>4
        <5> QED
          BY <5>5 DEF x, y
      <4>3. r \in Int
        BY NationsAssumption
      <4> QED
        BY <2>1, <4>2, <4>3
    <3> QED
      BY <3>1, <3>2
  <2> QED
    BY <2>1, <2>2, <2>3
<1> HIDE DEF T
<1>6. 0..c \subseteq T
  BY <1>1, <1>4, <1>5, UptoInduction
<1>7. n \in 1..c
  BY <1>1 DEF nations
<1>8. LiesIn(n, max[n])
  BY <1>1, <1>6, <1>7 DEF T
<1> QED
  BY <1>1, <1>2, <1>7, <1>8 DEF nations

(* What mk_cust and mk_supp say of a place agrees. *)
LEMMA PlaceBuilt ==
  ASSUME NEW stream \in {"C_NTRG", "S_NTRG"}, NEW p \in places(stream)
  PROVE  LET nations == Dists["nations"]
         IN /\ {k \in DOMAIN nations : Brief[nations[k].text] = p.city[1]} = {p.phone - 9}
            /\ nations[p.phone - 9].text = p.nation_name
            /\ p.region_name = HomeRegion[p.nation_name]
<1> DEFINE nations == Dists["nations"]
           c == Len(nations)
<1>1. /\ DOMAIN nations = 1..c /\ c \in 1..90
      /\ \A j, k \in DOMAIN nations : Brief[nations[j].text] = Brief[nations[k].text] => j = k
  BY NationsAssumption DEF NATIONS_MAX
<1>2. PICK n \in RANDOM(0, c - 1, stream), pick \in RANDOM(0, 9, "CITY") : p = place(n, pick)
  BY DEF places
<1> HIDE DEF nations, c
<1>3. n \in 0..(c - 1)
  BY <1>1, <1>2, DrawnIn DEF RowStreams
<1>4. n + 1 \in DOMAIN nations
  BY <1>1, <1>3
<1> DEFINE list == read_dist("nations")
           w == list[n + 1].weight
<1>5. list[n + 1].text = nations[n + 1].text /\ LiesIn(n + 1, w)
  BY <1>4, WeightIsRegion DEF nations
<1>6. w \in 0..(Len(Dists["regions"]) - 1) /\ w + 1 \in DOMAIN Dists["regions"]
      /\ Dists["regions"][w + 1].text = HomeRegion[nations[n + 1].text]
  BY <1>5, NationsAssumption DEF LiesIn, nations
<1>7. read_dist("regions")[w + 1].text = Dists["regions"][w + 1].text
  <2> HIDE DEF w
  <2> QED
    BY <1>6 DEF read_dist
<1>8. /\ p.city[1] = Brief[nations[n + 1].text] /\ p.nation_name = nations[n + 1].text
      /\ p.region_name = read_dist("regions")[w + 1].text /\ p.phone = gen_phone(n)
  BY <1>2, <1>5 DEF place, gen_city, region_of
<1>9. gen_phone(n) - 9 = n + 1
  <2> HIDE DEF list, w
  <2>0. c \in 1..90
    BY <1>1
  <2>1. n \in 0..89
    BY <1>3, <2>0
  <2>2. n % 90 = n
    BY <2>1
  <2> QED
    BY <2>1, <2>2 DEF gen_phone, NATIONS_MAX
<1> HIDE DEF w, list
<1>10. {k \in DOMAIN nations : Brief[nations[k].text] = p.city[1]} = {n + 1}
  BY <1>1, <1>4, <1>8
<1> QED
  BY <1>6, <1>7, <1>8, <1>9, <1>10 DEF nations

-----------------------------------------------------------------------------
(* The row that was built last. *)

(* What the routine of its table makes for its index; of an order, what is *)
(* printed of it.                                                          *)
Built(r) ==
  \/ r.table = "part" /\ r.built \in mk_part(r.index)
  \/ r.table = "supplier" /\ r.built \in mk_supp(r.index)
  \/ r.table = "customer" /\ r.built \in mk_cust(r.index)
  \/ r.table = "date" /\ r.built = mk_date(r.index)
  \/ /\ r.table = "lineorder" /\ r.lines = pr_line(r.built)
     /\ \E old : r.built \in mk_order(r.index, old, opt.scale)

(* A row was built once the names are known; while its table is in work it *)
(* is the one before gen_tbl's i.                                          *)
RowInv ==
  \/ row = NoRow
  \/ /\ phase \notin {"idle", "names"} /\ row.table \in Tables /\ opt.scale \in Nat \ {0}
     /\ row.index \in 1..rows_of(row.table, opt.scale) /\ Built(row)
     /\ row.table \in Pending => row.table = Head(todo) /\ at = row.index + 1

LEMMA RowRound ==
  ASSUME TInv, NEW t \in Tables, InTable(t), NEW r, NEW lines, Round(t, r, lines),
         Built([table |-> t, index |-> at, built |-> r, lines |-> lines])
  PROVE  RowInv'
<1> DEFINE new == [table |-> t, index |-> at, built |-> r, lines |-> lines]
<1>1. row' = new /\ at' = at + 1 /\ UNCHANGED <<opt, phase, todo>>
  BY DEF Round
<1>2. phase = "tables" /\ Head(todo) = t /\ at <= rows_of(t, opt.scale)
  BY DEF InTable
<1>3. at \in Nat \ {0} /\ opt.scale \in Nat \ {0}
  BY <1>2 DEF TInv, VarInv, Idle, Working, OptInv
<1>4. rows_of(t, opt.scale) \in Nat \ {0}
  BY <1>3, RowsPositive
<1>5. new.table = t /\ new.index = at
  OBVIOUS
<1>6. Built(new)
  OBVIOUS
<1> HIDE DEF new
<1>7. Built(row)'
  BY <1>1, <1>6 DEF Built
<1>8. at \in 1..rows_of(t, opt.scale)
  BY <1>2, <1>3, <1>4
<1>9. row'.table = t /\ row'.index = at
  BY <1>1, <1>5
<1> QED
  BY <1>1, <1>2, <1>3, <1>7, <1>8, <1>9 DEF RowInv

LEMMA RoundTable ==
  ASSUME NEW t, NEW r, NEW lines, Round(t, r, lines)
  PROVE  row'.table = t
<1>1. row' = [table |-> t, index |-> at, built |-> r, lines |-> lines]
  BY DEF Round
<1> QED
  BY <1>1

LEMMA RowStays ==
  ASSUME TInv, RowInv, EnterName \/ AbortLoad \/ NamesDone \/ Decline \/ OpenFails \/ TableDone \/ Return
  PROVE  RowInv'
<1>1. CASE row = NoRow
  BY <1>1 DEF RowInv, EnterName, AbortLoad, NamesDone, Decline, OpenFails, TableDone, Return
<1>2. CASE row # NoRow
  <2>1. /\ phase \notin {"idle", "names"} /\ row.table \in Tables /\ opt.scale \in Nat \ {0}
        /\ row.index \in 1..rows_of(row.table, opt.scale) /\ Built(row)
        /\ row.table \in Pending => row.table = Head(todo) /\ at = row.index + 1
    BY <1>2 DEF RowInv
  <2>2. CASE Decline \/ OpenFails \/ Return
    <3>1. row' = row /\ todo' = todo /\ at' = at /\ opt' = opt /\ phase' \notin {"idle", "names"}
      BY <2>2 DEF Decline, OpenFails, Return
    <3>2. Built(row)' /\ Pending' = Pending
      BY <2>1, <3>1 DEF Built, Pending
    <3> QED
      BY <2>1, <3>1, <3>2 DEF RowInv
  <2>3. CASE TableDone
    <3>1. row' = row /\ todo' = Tail(todo) /\ opt' = opt /\ phase' = "tables" /\ todo # <<>>
      BY <2>3 DEF TableDone
    <3>2. Built(row)'
      BY <2>1, <3>1 DEF Built
    <3>3. todo \in Seq(Tables) /\ \A j, k \in DOMAIN todo : todo[j] = todo[k] => j = k
      BY <2>1 DEF TInv, Idle, Working, TodoInv
    <3>4. Pending' = Pending \ {Head(todo)}
      <4>1. {Tail(todo)[k] : k \in DOMAIN Tail(todo)} = {todo[k] : k \in DOMAIN todo} \ {Head(todo)}
        BY <3>1, <3>3, TailOf
      <4> QED
        BY <3>1, <4>1 DEF Pending
    <3>5. row'.table \notin Pending'
      BY <2>1, <3>1, <3>4
    <3> QED
      BY <2>1, <3>1, <3>2, <3>5 DEF RowInv
  <2>4. ~(EnterName \/ AbortLoad \/ NamesDone)
    BY <2>1 DEF EnterName, AbortLoad, NamesDone
  <2> QED
    BY <2>2, <2>3, <2>4
<1> QED
  BY <1>1, <1>2

LEMMA RowStep == TInv /\ RowInv /\ [TNext]_tvars => RowInv'
<1> SUFFICES ASSUME TInv, RowInv, [TNext]_tvars
             PROVE  RowInv'
  OBVIOUS
<1>1. CASE PartRow
  <2>1. PICK p \in mk_part(at) : Round("part", p, <<>>)
    BY <1>1 DEF PartRow
  <2>2. Built([table |-> "part", index |-> at, built |-> p, lines |-> <<>>])
    BY DEF Built
  <2> QED
    BY <1>1, <2>1, <2>2, RowRound, TablesAre DEF PartRow
<1>2. CASE SuppRow
  <2>1. PICK s \in mk_supp(at) : Round("supplier", s, <<>>)
    BY <1>2 DEF SuppRow
  <2>2. Built([table |-> "supplier", index |-> at, built |-> s, lines |-> <<>>])
    BY DEF Built
  <2> QED
    BY <1>2, <2>1, <2>2, RowRound, TablesAre DEF SuppRow
<1>3. CASE CustRow
  <2>1. PICK c \in mk_cust(at) : Round("customer", c, <<>>)
    BY <1>3 DEF CustRow
  <2>2. Built([table |-> "customer", index |-> at, built |-> c, lines |-> <<>>])
    BY DEF Built
  <2> QED
    BY <1>3, <2>1, <2>2, RowRound, TablesAre DEF CustRow
<1>4. CASE DateRow
  <2>1. Round("date", mk_date(at), <<>>)
    BY <1>4 DEF DateRow
  <2>2. Built([table |-> "date", index |-> at, built |-> mk_date(at), lines |-> <<>>])
    BY DEF Built
  <2> QED
    BY <1>4, <2>1, <2>2, RowRound, TablesAre DEF DateRow
<1>5. CASE LineRow
  <2>1. PICK next \in mk_order(at, o, opt.scale) : Round("lineorder", next, pr_line(next))
    BY <1>5 DEF LineRow
  <2>2. Built([table |-> "lineorder", index |-> at, built |-> next, lines |-> pr_line(next)])
    BY DEF Built
  <2> QED
    BY <1>5, <2>1, <2>2, RowRound, TablesAre DEF LineRow
<1>6. CASE EnterName \/ AbortLoad \/ NamesDone \/ Decline \/ OpenFails \/ TableDone \/ Return
  BY <1>6, RowStays
<1>7. CASE UNCHANGED tvars
  BY <1>7 DEF tvars, RowInv, Built, Pending
<1> QED
  BY <1>1, <1>2, <1>3, <1>4, <1>5, <1>6, <1>7 DEF TNext

(* RowInv is an invariant of the process. *)
THEOREM RowsInvariant == LoadSpec => [](TInv /\ RowInv)
<1>1. main => RowInv
  BY DEF main, TInit, TIdle, Fresh, RowInv
<1>2. TInv /\ RowInv /\ [LoadNext]_loadvars => RowInv'
  BY TableSteps, RowStep
<1> QED
  BY <1>1, <1>2, TablesInvariant, PTL DEF LoadSpec

-----------------------------------------------------------------------------
(* The theorems about rows. *)

(* The static struct of gen_tbl does not show: what pr_line prints is the  *)
(* lines of the order that mk_order has built, numbered from one, with its *)
(* key and adding up to its total, however long the order before it was.   *)
THEOREM LinesAreOwn == LoadSpec => []OwnLines
<1>1. RowInv => OwnLines
  <2> SUFFICES ASSUME RowInv, row.table = "lineorder"
               PROVE  /\ \A k \in DOMAIN row.lines : row.lines[k].okey = row.built.okey /\ row.lines[k].linenumber = k
                      /\ row.built.totalprice = total([k \in DOMAIN row.lines |-> row.lines[k].line])
    BY DEF OwnLines
  <2>1. row.lines = pr_line(row.built) /\ \E old : row.built \in mk_order(row.index, old, opt.scale)
    BY DEF RowInv, NoRow, Built
  <2>2. PICK old : row.built \in mk_order(row.index, old, opt.scale)
    BY <2>1
  <2> QED
    BY <2>1, <2>2, OrderBuilt
<1> QED
  BY <1>1, RowsInvariant, PTL

(* Every key of a line is that of a row, for every scale and every size of *)
(* the tables: live_customer finds a customer with orders in two rounds,   *)
(* the parts that are drawn (with the natural logarithm) are among those   *)
(* that are built (with the binary one), and the dates of orders and       *)
(* commitments are rows of DATE.                                           *)
THEOREM KeysDoJoin ==
  ASSUME FirstOfJanuary
  PROVE  LoadSpec => []KeysJoin
<1>1. RowInv => KeysJoin
  <2> SUFFICES ASSUME RowInv, row.table = "lineorder"
               PROVE  /\ row.built.custkey \in 1..rows_of("customer", opt.scale)
                      /\ row.built.custkey % CUST_MORTALITY # 0
                      /\ IsDateKey(row.built.odate)
                      /\ \A k \in DOMAIN row.lines :
                           /\ row.lines[k].line.partkey \in 1..rows_of("part", opt.scale)
                           /\ row.lines[k].line.suppkey \in 1..rows_of("supplier", opt.scale)
                           /\ IsDateKey(row.lines[k].line.commit_date)
    BY DEF KeysJoin
  <2>1. /\ row.lines = pr_line(row.built) /\ opt.scale \in Nat \ {0}
        /\ \E old : row.built \in mk_order(row.index, old, opt.scale)
    BY DEF RowInv, NoRow, Built
  <2>2. PICK old : row.built \in mk_order(row.index, old, opt.scale)
    BY <2>1
  <2>3. /\ row.built.custkey \in 1..rows_of("customer", opt.scale) /\ row.built.custkey % CUST_MORTALITY # 0
        /\ IsDateKey(row.built.odate)
        /\ \A k \in DOMAIN pr_line(row.built) : LineJoins(pr_line(row.built)[k].line, opt.scale)
    BY <2>1, <2>2, OrderKeys
  <2> QED
    BY <2>1, <2>3 DEF LineJoins
<1> QED
  BY <1>1, RowsInvariant, PTL

(* A name of a part has three different colors, whatever permutation of    *)
(* the colors is drawn, and brand, category and manufacturer agree.        *)
THEOREM PartsAreDistinct == LoadSpec => []PartsDistinct
<1>1. RowInv => PartsDistinct
  <2> SUFFICES ASSUME RowInv, row.table = "part"
               PROVE  PartsDistinct
    BY DEF PartsDistinct
  <2>1. row.built \in mk_part(row.index)
    BY DEF RowInv, NoRow, Built
  <2> QED
    BY <2>1, PartBuilt DEF PartsDistinct
<1> QED
  BY <1>1, RowsInvariant, PTL

(* A city, its nation, its region and the code in a phone number agree in  *)
(* every row of a customer or supplier: the weights of dists.dss, which    *)
(* read_dist adds up, lead every nation to its region.                     *)
THEOREM PlacesDoAgree == LoadSpec => []PlacesAgree
<1>1. RowInv => PlacesAgree
  <2> SUFFICES ASSUME RowInv, row.table \in {"customer", "supplier"}
               PROVE  PlacesAgree
    BY DEF PlacesAgree
  <2>1. row.built \in mk_cust(row.index) \/ row.built \in mk_supp(row.index)
    BY DEF RowInv, NoRow, Built
  <2>2. row.built.place \in places("C_NTRG") \/ row.built.place \in places("S_NTRG")
    BY <2>1 DEF mk_cust, mk_supp
  <2> QED
    BY <2>2, PlaceBuilt DEF PlacesAgree
<1> QED
  BY <1>1, RowsInvariant, PTL

(* The rows of DATE are the days of the calendar that the orders are dated *)
(* with, in every zone where D_STARTDATE is the first of January.          *)
THEOREM DatesJoin ==
  ASSUME FirstOfJanuary
  PROVE  LoadSpec => []DateJoins
<1>1. RowInv => DateJoins
  <2> SUFFICES ASSUME RowInv, row.table = "date"
               PROVE  DateJoins
    BY DEF DateJoins
  <2>1. row.index \in 1..rows_of("date", opt.scale) /\ row.built = mk_date(row.index)
    BY DEF RowInv, NoRow, Built
  <2>2. row.index \in 1..TOTDATE
    <3>1. rows_of("date", opt.scale) = base["date"]
      BY DEF rows_of
    <3>2. base["date"] \in Nat /\ base["date"] <= TOTDATE
      BY DateAssumption, RowsAssumption
    <3>3. TOTDATE \in Nat
      BY DEF TOTDATE
    <3> QED
      BY <2>1, <3>1, <3>2, <3>3
  <2> QED
    BY <2>1, <2>2, CalendarsAgree DEF DateJoins
<1> QED
  BY <1>1, RowsInvariant, PTL

(* From one row of DATE to the next no day is left out and none is told    *)
(* twice: the days of the month, the year and the week go on or start anew *)
(* together with the month, the year and the week.                         *)
THEOREM DatesDoFollow ==
  ASSUME FirstOfJanuary
  PROVE  LoadSpec => DatesFollow
<1> DEFINE Step == (row.table = "date" /\ row'.table = "date" /\ row' # row) => Follows(row.built, row'.built)
<1>1. TInv /\ RowInv /\ [LoadNext]_loadvars => [Step]_tvars
  <2> SUFFICES ASSUME TInv, RowInv, [TNext]_tvars,
                      row.table = "date", row'.table = "date", row' # row
               PROVE  Follows(row.built, row'.built)
    BY TableSteps
  <2>1. DateRow
    <3>1. PartRow \/ SuppRow \/ CustRow \/ LineRow => row'.table # "date"
      BY RoundTable DEF PartRow, SuppRow, CustRow, LineRow
    <3>2. EnterName \/ AbortLoad \/ NamesDone \/ Decline \/ OpenFails \/ TableDone \/ Return => row' = row
      BY DEF EnterName, AbortLoad, NamesDone, Decline, OpenFails, TableDone, Return
    <3>3. UNCHANGED tvars => row' = row
      BY DEF tvars
    <3> QED
      BY <3>1, <3>2, <3>3 DEF TNext
  <2>2. row'.index = at /\ row'.built = mk_date(at)
    BY <2>1 DEF DateRow, Round
  <2>3. phase = "tables" /\ todo # <<>> /\ Head(todo) = "date" /\ at <= rows_of("date", opt.scale)
    BY <2>1 DEF DateRow, InTable
  <2>4. todo \in Seq(Tables) /\ \A j, k \in DOMAIN todo : todo[j] = todo[k] => j = k
    BY <2>3 DEF TInv, Idle, Working, TodoInv
  <2>5. "date" \in Pending
    BY <2>3, <2>4, TailOf DEF Pending
  <2>6. /\ row.index \in 1..rows_of("date", opt.scale) /\ row.built = mk_date(row.index)
        /\ at = row.index + 1
    BY <2>5 DEF RowInv, NoRow, Built
  <2>7. row.index \in 1..(TOTDATE - 1)
    <3>1. rows_of("date", opt.scale) = base["date"]
      BY DEF rows_of
    <3>2. base["date"] \in Nat /\ base["date"] <= TOTDATE
      BY DateAssumption, RowsAssumption
    <3>3. TOTDATE \in Nat
      BY DEF TOTDATE
    <3> QED
      BY <2>3, <2>6, <3>1, <3>2, <3>3
  <2> QED
    BY <2>2, <2>6, <2>7, NextDay
<1> QED
  BY <1>1, RowsInvariant, PTL DEF LoadSpec, DatesFollow
=============================================================================
