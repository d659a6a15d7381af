--------------------------- MODULE CalendarProofs ---------------------------
(***************************************************************************)
(* The two calendars of ssb-dbgen agree: what mk_time counts out for the   *)
(* n-th day from STARTDATE on, and what mk_date reads off localtime() for  *)
(* the n-th row of DATE.                                                   *)
(***************************************************************************)
EXTENDS Calendar, NatFacts, TLAPS

-----------------------------------------------------------------------------
(* Years. *)

Years == 92..98

(* The days from STARTDATE to the first of January of 19yy. *)
Offset(y) == DaysBefore(1900 + y) - DaysBefore(1992)
DaysIn(y) == 365 + LEAP(y)

(* D_STARTDATE, 06:01:01 UTC, is the first of January in local time: not   *)
(* so in the zones more than six hours west of UTC.                        *)
FirstOfJanuary == UtcOffset >= -21661

LEMMA Leaps == \A y \in Years : LEAP(y) = (IF y \in {92, 96} THEN 1 ELSE 0) /\ LEAP(1900 + y) = LEAP(y)
<1>1. \A y \in Years : y = 92 \/ y = 93 \/ y = 94 \/ y = 95 \/ y = 96 \/ y = 97 \/ y = 98
  BY DEF Years
<1>2. \A y \in Years : (y % 4 = 0 <=> y \in {92, 96}) /\ y % 100 # 0
  BY <1>1
<1>3. \A y \in Years : ((1900 + y) % 4 = 0 <=> y \in {92, 96}) /\ (1900 + y) % 100 # 0
  BY <1>1
<1> QED
  BY <1>2, <1>3 DEF LEAP

LEMMA Offsets ==
  /\ Offset(92) = 0 /\ Offset(93) = 366 /\ Offset(94) = 731 /\ Offset(95) = 1096
  /\ Offset(96) = 1461 /\ Offset(97) = 1827 /\ Offset(98) = 2192 /\ Offset(99) = 2557
BY DEF Offset, DaysBefore

LEMMA YearFollows == \A y \in Years : Offset(y + 1) = Offset(y) + DaysIn(y) /\ Offset(y) \in Nat /\ DaysIn(y) \in {365, 366}
<1>1. \A y \in Years : y = 92 \/ y = 93 \/ y = 94 \/ y = 95 \/ y = 96 \/ y = 97 \/ y = 98
  BY DEF Years
<1> QED
  BY <1>1, Leaps, Offsets DEF DaysIn, Years

LEMMA OffsetsGrow == \A y, z \in Years : z < y => Offset(z + 1) <= Offset(y)
<1>1. \A y \in Years : y = 92 \/ y = 93 \/ y = 94 \/ y = 95 \/ y = 96 \/ y = 97 \/ y = 98
  BY DEF Years
<1> QED
  BY <1>1, Offsets

(* Every day of the seven years is a day of one of them. *)
LEMMA YearOf ==
  ASSUME NEW i \in 0..(TOTDATE - 1)
  PROVE  \E y \in Years : \E d \in 1..DaysIn(y) : i = Offset(y) + d - 1
<1>1. /\ DaysIn(92) = 366 /\ DaysIn(93) = 365 /\ DaysIn(94) = 365 /\ DaysIn(95) = 365
      /\ DaysIn(96) = 366 /\ DaysIn(97) = 365 /\ DaysIn(98) = 365
  BY Leaps DEF DaysIn, Years
<1>2. \E y \in Years : Offset(y) <= i /\ i < Offset(y) + DaysIn(y)
  BY <1>1, Offsets DEF Years, TOTDATE
<1>3. PICK y \in Years : Offset(y) <= i /\ i < Offset(y) + DaysIn(y)
  BY <1>2
<1>4. i - Offset(y) + 1 \in 1..DaysIn(y) /\ i = Offset(y) + (i - Offset(y) + 1) - 1
  BY <1>3, YearFollows DEF TOTDATE
<1> QED
  BY <1>4

(* julian passes from the first of January of a year to that of the next   *)
(* until it has come to the year of the day.                               *)
LEMMA JulianOf ==
  ASSUME NEW y \in Years, NEW d \in 1..DaysIn(y)
  PROVE  julian(STARTDATE + Offset(y) + d - 1) = y * 1000 + d
<1> DEFINE date == STARTDATE + Offset(y) + d - 1
           yend(result) == (result \div 1000) * 1000 + 365 + LEAP(result \div 1000)
           pass(at) == IF at.result + at.offset > yend(at.result)
                       THEN [result |-> at.result + 1000,
                             offset |-> at.offset - (yend(at.result) - at.result + 1)]
                       ELSE at
           Loop(f) == f = [k \in 0..YEARS |-> IF k = 0 THEN [result |-> STARTDATE, offset |-> date - STARTDATE]
                                             ELSE pass(f[k - 1])]
           loop == CHOOSE f : Loop(f)
           (* The state after k rounds: it has come to year 92 + n. *)
           At(n) == [result |-> (92 + n) * 1000 + 1, offset |-> date - STARTDATE - Offset(92 + n)]
<1>1. julian(date) = loop[YEARS].result + loop[YEARS].offset
  BY DEF julian
<1>t. Offset(y) \in Nat /\ DaysIn(y) \in {365, 366} /\ d \in Nat /\ d >= 1 /\ d <= DaysIn(y) /\ y \in Int
  BY YearFollows DEF Years
<1>u. date \in Int /\ STARTDATE \in Int /\ date - STARTDATE = Offset(y) + d - 1
  BY <1>t DEF STARTDATE
<1>2. \E f : Loop(f)
  <2> DEFINE S == [result : Int, offset : Int]
             a == [result |-> STARTDATE, offset |-> date - STARTDATE]
             F == [z \in Nat \X S |-> pass(z[2])]
  <2>1. a \in S
    BY <1>u DEF STARTDATE
  <2>2. \A x \in S : pass(x) \in S
    <3> SUFFICES ASSUME NEW x \in S
                 PROVE  pass(x) \in S
      OBVIOUS
    <3>1. x.result \in Int /\ x.offset \in Int /\ LEAP(x.result \div 1000) \in Int
      BY DEF LEAP
    <3>2. yend(x.result) \in Int
      BY <3>1
    <3> HIDE DEF yend
    <3> QED
      BY <3>1, <3>2
  <2> HIDE DEF pass, S, a
  <2>3. F \in [Nat \X S -> S]
    BY <2>2
  <2>4. YEARS \in Nat
    BY DEF YEARS
  <2> HIDE DEF F
  <2>e. PICK f : Iterated(f, YEARS, S, a, F)
    BY <2>1, <2>3, <2>4, Recursion
  <2>5. f \in [0..YEARS -> S] /\ f[0] = a /\ \A k \in 1..YEARS : f[k] = F[<<k, f[k - 1]>>]
    BY <2>e DEF Iterated
  <2>6. \A k \in 1..YEARS : f[k] = pass(f[k - 1])
    <3>1. \A k \in 1..YEARS : k \in Nat /\ f[k - 1] \in S
      BY <2>4, <2>5
    <3>2. \A k \in Nat, x \in S : F[<<k, x>>] = pass(x)
      BY DEF F
    <3> QED
      BY <2>5, <3>1, <3>2
  <2>7. \A k \in 0..YEARS : f[k] = IF k = 0 THEN a ELSE pass(f[k - 1])
    BY <2>4, <2>5, <2>6
  <2>8. f = [k \in 0..YEARS |-> IF k = 0 THEN a ELSE pass(f[k - 1])]
    BY <2>5, <2>7
  <2> QED
    BY <2>8 DEF a
<1>3. Loop(loop)
  <2> HIDE DEF Loop
  <2> QED
    BY <1>2
<1>4. loop[0] = At(0) /\ \A k \in 0..6 : loop[k + 1] = pass(loop[k])
  <2> HIDE DEF pass, loop, date
  <2>1. loop[0] = [result |-> STARTDATE, offset |-> date - STARTDATE]
    BY <1>3 DEF YEARS
  <2>2. Offset(92) = 0 /\ STARTDATE = 92001
    BY Offsets DEF STARTDATE
  <2>3. loop[0] = At(0)
    BY <1>u, <2>1, <2>2
  <2> HIDE DEF pass, loop
  <2> QED
    BY <1>3, <2>3 DEF YEARS
<1> HIDE DEF loop, Loop, date
(* In a year before that of the day the loop goes on, and then it stays. *)
<1>5. ASSUME NEW n \in 0..6, 92 + n < y
      PROVE  pass(At(n)) = At(n + 1)
  <2> DEFINE z == 92 + n
  <2>1. z \in Years /\ z < y /\ z \in Int /\ n \in Int
    BY <1>5 DEF Years
  <2>2. /\ Offset(z) \in Nat /\ DaysIn(z) \in {365, 366} /\ Offset(z + 1) = Offset(z) + DaysIn(z)
        /\ Offset(z + 1) <= Offset(y)
    BY <2>1, YearFollows, OffsetsGrow
  <2>3. At(n).result = z * 1000 + 1 /\ At(n).offset = Offset(y) + d - 1 - Offset(z)
    <3>1. At(n).result = z * 1000 + 1 /\ At(n).offset = date - STARTDATE - Offset(z)
      OBVIOUS
    <3> QED
      BY <1>t, <1>u, <2>2, <3>1
  <2>4. yend(At(n).result) = z * 1000 + DaysIn(z)
    <3>1. At(n).result \div 1000 = z
      BY <2>1, <2>3
    <3> HIDE DEF z, At
    <3> QED
      BY <2>1, <2>2, <3>1, Leaps DEF DaysIn
  <2>5. At(n + 1) = [result |-> (z + 1) * 1000 + 1, offset |-> Offset(y) + d - 1 - Offset(z + 1)]
    <3>1. 92 + (n + 1) = z + 1
      BY <2>1
    <3>2. At(n + 1) = [result |-> (92 + (n + 1)) * 1000 + 1, offset |-> date - STARTDATE - Offset(92 + (n + 1))]
      OBVIOUS
    <3> HIDE DEF z, At
    <3> QED
      BY <1>t, <1>u, <2>2, <3>1, <3>2
  <2> HIDE DEF z, At, yend
  <2>6. At(n).result + At(n).offset > yend(At(n).result)
    BY <1>t, <2>1, <2>2, <2>3, <2>4
  <2>7. At(n).result + 1000 = (z + 1) * 1000 + 1
    BY <2>1, <2>3
  <2>8. At(n).offset - (yend(At(n).result) - At(n).result + 1) = Offset(y) + d - 1 - Offset(z + 1)
    BY <1>t, <2>1, <2>2, <2>3, <2>4
  <2> QED
    BY <2>5, <2>6, <2>7, <2>8
<1>6. pass(At(y - 92)) = At(y - 92)
  <2>1. At(y - 92).result = y * 1000 + 1 /\ At(y - 92).offset = d - 1
    BY <1>t, <1>u
  <2>2. yend(At(y - 92).result) = y * 1000 + DaysIn(y)
    <3>1. At(y - 92).result \div 1000 = y
      BY <1>t, <2>1
    <3> HIDE DEF At
    <3> QED
      BY <1>t, <3>1, Leaps DEF DaysIn
  <2> HIDE DEF At, yend
  <2>3. ~(At(y - 92).result + At(y - 92).offset > yend(At(y - 92).result))
    BY <1>t, <2>1, <2>2
  <2> QED
    BY <2>3
<1>7. loop[7] = At(y - 92)
  <2> HIDE DEF pass, At
  <2>1. \A k \in 0..6 : 92 + k < y /\ loop[k] = At(k) => loop[k + 1] = At(k + 1)
    BY <1>4, <1>5
  <2>2. \A k \in 0..6 : loop[k] = At(y - 92) => loop[k + 1] = At(y - 92)
    BY <1>4, <1>6
  <2>3. CASE y = 92
    BY <1>4, <2>2, <2>3
  <2>4. CASE y = 93
    BY <1>4, <2>1, <2>2, <2>4
  <2>5. CASE y = 94
    BY <1>4, <2>1, <2>2, <2>5
  <2>6. CASE y = 95
    BY <1>4, <2>1, <2>2, <2>6
  <2>7. CASE y = 96
    BY <1>4, <2>1, <2>2, <2>7
  <2>8. CASE y = 97
    BY <1>4, <2>1, <2>2, <2>8
  <2>9. CASE y = 98
    BY <1>4, <2>1, <2>2, <2>9
  <2> QED
    BY <2>3, <2>4, <2>5, <2>6, <2>7, <2>8, <2>9 DEF Years
<1>8. At(y - 92).result = y * 1000 + 1 /\ At(y - 92).offset = d - 1
  BY <1>t, <1>u
<1> QED
  BY <1>1, <1>7, <1>8, <1>t DEF YEARS, date

-----------------------------------------------------------------------------
(* Months. *)

(* Day d of year y lies in month m. *)
InMonth(y, m, d) == m \in 1..12 /\ DaysBeforeMonth(y, m) < d /\ d <= DaysBeforeMonth(y, m + 1)

LEMMA MonthStarts ==
  ASSUME NEW y, LEAP(y) \in {0, 1}
  PROVE  /\ DaysBeforeMonth(y, 1) = 0 /\ DaysBeforeMonth(y, 2) = 31 /\ DaysBeforeMonth(y, 3) = 59 + LEAP(y)
         /\ DaysBeforeMonth(y, 4) = 90 + LEAP(y) /\ DaysBeforeMonth(y, 5) = 120 + LEAP(y)
         /\ DaysBeforeMonth(y, 6) = 151 + LEAP(y) /\ DaysBeforeMonth(y, 7) = 181 + LEAP(y)
         /\ DaysBeforeMonth(y, 8) = 212 + LEAP(y) /\ DaysBeforeMonth(y, 9) = 243 + LEAP(y)
         /\ DaysBeforeMonth(y, 10) = 273 + LEAP(y) /\ DaysBeforeMonth(y, 11) = 304 + LEAP(y)
         /\ DaysBeforeMonth(y, 12) = 334 + LEAP(y) /\ DaysBeforeMonth(y, 13) = 365 + LEAP(y)
BY DEF DaysBeforeMonth

LEMMA TwelveMonths ==
  \A m \in 1..12 : m = 1 \/ m = 2 \/ m = 3 \/ m = 4 \/ m = 5 \/ m = 6 \/ m = 7 \/ m = 8 \/ m = 9 \/ m = 10
                    \/ m = 11 \/ m = 12
OBVIOUS

LEMMA MonthsGrow ==
  ASSUME NEW y, LEAP(y) \in {0, 1}
  PROVE  /\ \A m \in 1..13 : DaysBeforeMonth(y, m) \in Nat
         /\ \A m, n \in 1..12 : m < n => DaysBeforeMonth(y, m + 1) <= DaysBeforeMonth(y, n)
<1>1. \A m \in 1..13 : DaysBeforeMonth(y, m) \in Nat
  <2>1. \A m \in 1..13 : m = 13 \/ m \in 1..12
    OBVIOUS
  <2> QED
    BY <2>1, TwelveMonths, MonthStarts
<1>2. \A m, n \in 1..12 : m < n => DaysBeforeMonth(y, m + 1) <= DaysBeforeMonth(y, n)
  BY TwelveMonths, MonthStarts
<1> QED
  BY <1>1, <1>2

(* The table of mk_time and that of localtime count the same days, the     *)
(* leap day from the end of February on.                                   *)
LEMMA TablesAgree ==
  ASSUME NEW y, LEAP(y) \in {0, 1}, NEW m \in 1..12
  PROVE  /\ dcnt(m) + LEAP_ADJ(y, m) = DaysBeforeMonth(y, m + 1)
         /\ dcnt(m - 1) + LEAP_ADJ(y, m - 1) = DaysBeforeMonth(y, m)
         /\ dcnt(m - 1) + (IF LEAP(y) = 1 /\ m > 2 THEN 1 ELSE 0) = DaysBeforeMonth(y, m)
         /\ dcnt(m - 1) \in Nat
<1>1. /\ dcnt(0) = 0 /\ dcnt(1) = 31 /\ dcnt(2) = 59 /\ dcnt(3) = 90 /\ dcnt(4) = 120 /\ dcnt(5) = 151
      /\ dcnt(6) = 181 /\ dcnt(7) = 212 /\ dcnt(8) = 243 /\ dcnt(9) = 273 /\ dcnt(10) = 304
      /\ dcnt(11) = 334 /\ dcnt(12) = 365
  BY DEF dcnt, months
<1>2. \A n \in 0..12 : LEAP_ADJ(y, n) = IF n >= 2 THEN LEAP(y) ELSE 0
  BY DEF LEAP_ADJ
<1>3. (IF LEAP(y) = 1 /\ m > 2 THEN 1 ELSE 0) = IF m > 2 THEN LEAP(y) ELSE 0
  OBVIOUS
<1> QED
  BY <1>1, <1>2, <1>3, TwelveMonths, MonthStarts

(* Every day of a year lies in one month, and only in one. *)
LEMMA MonthOf ==
  ASSUME NEW y, LEAP(y) \in {0, 1}, NEW d \in 1..(365 + LEAP(y))
  PROVE  \E m \in 1..12 : InMonth(y, m, d)
BY MonthStarts DEF InMonth

LEMMA MonthUnique ==
  ASSUME NEW y, LEAP(y) \in {0, 1}, NEW d \in Nat, NEW m \in 1..12, NEW n \in 1..12,
         InMonth(y, m, d), InMonth(y, n, d)
  PROVE  m = n
<1>1. /\ DaysBeforeMonth(y, m) \in Nat /\ DaysBeforeMonth(y, m + 1) \in Nat
      /\ DaysBeforeMonth(y, n) \in Nat /\ DaysBeforeMonth(y, n + 1) \in Nat
  <2>1. m + 1 \in 1..13 /\ n + 1 \in 1..13 /\ m \in 1..13 /\ n \in 1..13
    OBVIOUS
  <2> QED
    BY <2>1, MonthsGrow
<1>2. ~(m < n)
  BY <1>1, MonthsGrow DEF InMonth
<1>3. ~(n < m)
  BY <1>1, MonthsGrow DEF InMonth
<1> QED
  BY <1>2, <1>3

(* mk_time stops at the month of the day. *)
LEMMA MonthFound ==
  ASSUME NEW y, LEAP(y) \in {0, 1}, NEW d \in Nat, NEW m \in 1..12, InMonth(y, m, d)
  PROVE  month_of(y, d) = m
<1> DEFINE Is(k) == /\ d <= dcnt(k) + LEAP_ADJ(y, k)
                    /\ \A n \in 1..(k - 1) : d > dcnt(n) + LEAP_ADJ(y, n)
<1>1. \A k \in 1..12 : dcnt(k) + LEAP_ADJ(y, k) = DaysBeforeMonth(y, k + 1) /\ DaysBeforeMonth(y, k + 1) \in Nat
  <2>1. \A k \in 1..12 : k + 1 \in 1..13
    OBVIOUS
  <2> QED
    BY <2>1, TablesAgree, MonthsGrow
<1>2. DaysBeforeMonth(y, m) \in Nat
  BY MonthsGrow
<1>3. Is(m)
  <2>1. d <= dcnt(m) + LEAP_ADJ(y, m)
    BY <1>1 DEF InMonth
  <2>2. ASSUME NEW n \in 1..(m - 1)
        PROVE  d > dcnt(n) + LEAP_ADJ(y, n)
    <3>1. n \in 1..12 /\ n < m
      OBVIOUS
    <3>2. DaysBeforeMonth(y, n + 1) <= DaysBeforeMonth(y, m)
      BY <3>1, MonthsGrow
    <3> QED
      BY <1>1, <1>2, <3>1, <3>2 DEF InMonth
  <2> QED
    BY <2>1, <2>2
<1>4. ASSUME NEW k \in 1..12, Is(k)
      PROVE  k = m
  <2>1. ~(m < k)
    <3>1. m < k => m \in 1..(k - 1)
      OBVIOUS
    <3> QED
      BY <1>1, <1>4, <3>1 DEF InMonth
  <2>2. ~(k < m)
    <3>1. k < m => DaysBeforeMonth(y, k + 1) <= DaysBeforeMonth(y, m)
      BY MonthsGrow
    <3> QED
      BY <1>1, <1>2, <1>4, <3>1 DEF InMonth
  <2> QED
    BY <2>1, <2>2
<1>5. month_of(y, d) = CHOOSE k \in 1..12 : Is(k)
  BY DEF month_of
<1> HIDE DEF Is
<1> QED
  BY <1>3, <1>4, <1>5

-----------------------------------------------------------------------------
(* What the two calendars say of day d of year y, in month m. *)

MonthDay(y, m, d) == d - DaysBeforeMonth(y, m)
Key(y, m, d) == 19000000 + y * 10000 + m * 100 + MonthDay(y, m, d)

LEMMA MonthDayBounds ==
  ASSUME NEW y, LEAP(y) \in {0, 1}, NEW d \in Nat, NEW m \in 1..12, InMonth(y, m, d)
  PROVE  MonthDay(y, m, d) \in 1..31 /\ (m = 4 => MonthDay(y, m, d) <= 30)
BY TwelveMonths, MonthStarts DEF InMonth, MonthDay

LEMMA TimeOf ==
  ASSUME NEW y \in Years, NEW d \in 1..DaysIn(y), NEW m \in 1..12, InMonth(y, m, d)
  PROVE  LET time == mk_time(Offset(y) + d)
         IN /\ time.alpha = Key(y, m, d) /\ time.year = 1900 + y /\ time.month = m
            /\ time.day = MonthDay(y, m, d)
<1> DEFINE j == y * 1000 + d
<1>1. /\ Offset(y) \in Nat /\ DaysIn(y) \in {365, 366} /\ d \in Nat /\ d >= 1 /\ d <= 366 /\ y \in Nat
      /\ LEAP(y) \in {0, 1}
  BY YearFollows, Leaps DEF Years
<1>2. (Offset(y) + d) + STARTDATE - 1 = STARTDATE + Offset(y) + d - 1
  BY <1>1 DEF STARTDATE
<1>3. mk_time(Offset(y) + d) = mk_time_of(j)
  BY <1>2, JulianOf DEF mk_time
<1>4. j \div 1000 = y /\ j % 1000 = d
  BY <1>1
<1> HIDE DEF j
<1>5. month_of(y, d) = m
  BY <1>1, MonthFound
<1>6. /\ dcnt(m - 1) + LEAP_ADJ(y, m - 1) = DaysBeforeMonth(y, m)
      /\ dcnt(m - 1) + (IF LEAP(y) = 1 /\ m > 2 THEN 1 ELSE 0) = DaysBeforeMonth(y, m)
      /\ dcnt(m - 1) \in Nat
  BY <1>1, TablesAgree
<1>7. LEAP_ADJ(y, m - 1) \in {0, 1} /\ (IF LEAP(y) = 1 /\ m > 2 THEN 1 ELSE 0) \in {0, 1}
  BY DEF LEAP_ADJ
<1>8. /\ d - dcnt(m - 1) - (IF LEAP(y) = 1 /\ m > 2 THEN 1 ELSE 0) = MonthDay(y, m, d)
      /\ d - dcnt(m - 1) - LEAP_ADJ(y, m - 1) = MonthDay(y, m, d)
  BY <1>1, <1>6, <1>7 DEF MonthDay
<1>9. mk_time_of(j) = [alpha |-> 19000000 + y * 10000 + m * 100 + (d - dcnt(m - 1) - (IF LEAP(y) = 1 /\ m > 2 THEN 1 ELSE 0)),
                       year |-> 1900 + y, month |-> m, day |-> d - dcnt(m - 1) - LEAP_ADJ(y, m - 1)]
  BY <1>4, <1>5 DEF mk_time_of
<1> QED
  BY <1>3, <1>8, <1>9 DEF Key

LEMMA DaysGrow ==
  /\ \A k \in Nat : DaysBefore(k) \in Int
  /\ \A k, n \in Nat : k < n => DaysBefore(k + 1) <= DaysBefore(n)
BY DEF DaysBefore

LEMMA LocalOf ==
  ASSUME NEW y \in Years, NEW d \in 1..DaysIn(y), NEW m \in 1..12, InMonth(y, m, d),
         NEW n, n = DaysBefore(1992) + Offset(y) + d - 1
  PROVE  localtime_of(n) = [tm_wday |-> (n + 4) % 7, tm_mon |-> m - 1, tm_year |-> y,
                            tm_mday |-> MonthDay(y, m, d), tm_yday |-> d - 1]
<1> DEFINE Y == 1900 + y
           IsYear(k) == DaysBefore(k) <= n /\ n < DaysBefore(k + 1)
           IsMonth(k) == DaysBeforeMonth(Y, k) <= d - 1 /\ d - 1 < DaysBeforeMonth(Y, k + 1)
<1>1. /\ Offset(y) \in Nat /\ DaysIn(y) \in {365, 366} /\ d \in Nat /\ d >= 1 /\ d <= DaysIn(y) /\ y \in Nat
      /\ LEAP(y) \in {0, 1} /\ LEAP(Y) = LEAP(y) /\ Y \in 1970..2037 /\ Y \in Nat /\ Y - 1900 = y
  BY YearFollows, Leaps DEF Years
<1>2. DaysBefore(1992) \in Int /\ DaysBefore(Y) \in Int /\ DaysBefore(Y + 1) \in Int
  BY <1>1, DaysGrow
<1>3. n = DaysBefore(Y) + d - 1 /\ DaysBefore(Y + 1) = DaysBefore(Y) + DaysIn(y)
  <2>1. DaysBefore(Y) = DaysBefore(1992) + Offset(y)
    BY <1>2 DEF Offset
  <2>2. 1900 + (y + 1) = Y + 1
    BY <1>1
  <2>3. Offset(y + 1) = DaysBefore(Y + 1) - DaysBefore(1992)
    BY <2>2 DEF Offset
  <2>4. Offset(y + 1) = Offset(y) + DaysIn(y)
    BY YearFollows
  <2> QED
    BY <1>1, <1>2, <2>1, <2>3, <2>4
<1> HIDE DEF Y
<1>4. (CHOOSE k \in 1970..2037 : IsYear(k)) = Y
  <2>1. IsYear(Y)
    BY <1>1, <1>2, <1>3
  <2>2. ASSUME NEW k \in 1970..2037, IsYear(k)
        PROVE  k = Y
    <3>1. k \in Nat /\ k + 1 \in Nat
      OBVIOUS
    <3>2. DaysBefore(k) \in Int /\ DaysBefore(k + 1) \in Int /\ n \in Int
      BY <1>1, <1>2, <1>3, <3>1, DaysGrow
    <3>3. ~(k < Y)
      BY <1>1, <1>2, <2>1, <2>2, <3>1, <3>2, DaysGrow
    <3>4. ~(Y < k)
      <4>1. Y < k => DaysBefore(Y + 1) <= DaysBefore(k)
        BY <1>1, <3>1, DaysGrow
      <4> QED
        BY <1>2, <2>1, <2>2, <3>2, <4>1
    <3> QED
      BY <1>1, <3>1, <3>3, <3>4
  <2> HIDE DEF IsYear
  <2> QED
    BY <1>1, <2>1, <2>2
<1>5. n - DaysBefore(Y) = d - 1
  BY <1>1, <1>2, <1>3
<1>6. \A k \in 1..13 : DaysBeforeMonth(Y, k) = DaysBeforeMonth(y, k) /\ DaysBeforeMonth(y, k) \in Nat
  <2>1. \A k \in 1..13 : DaysBeforeMonth(Y, k) = DaysBeforeMonth(y, k)
    BY <1>1 DEF DaysBeforeMonth
  <2> QED
    BY <1>1, <2>1, MonthsGrow
<1>7. (CHOOSE k \in 1..12 : IsMonth(k)) = m
  <2>1. \A k \in 1..12 : k \in 1..13 /\ k + 1 \in 1..13
    OBVIOUS
  <2>2. \A k \in 1..12 : IsMonth(k) <=> InMonth(y, k, d)
    BY <1>1, <1>6, <2>1 DEF InMonth
  <2>3. \A k \in 1..12 : IsMonth(k) => k = m
    BY <1>1, <2>2, MonthUnique
  <2> HIDE DEF IsMonth
  <2> QED
    BY <2>2, <2>3
<1> DEFINE z == CHOOSE k \in 1970..2037 : IsYear(k)
           yday == n - DaysBefore(z)
           mm == CHOOSE k \in 1..12 : DaysBeforeMonth(z, k) <= yday /\ yday < DaysBeforeMonth(z, k + 1)
<1>8. localtime_of(n) = [tm_wday |-> (n + 4) % 7, tm_mon |-> mm - 1, tm_year |-> z - 1900,
                         tm_mday |-> yday - DaysBeforeMonth(z, mm) + 1, tm_yday |-> yday]
  BY DEF localtime_of
<1>a. z = Y
  BY <1>4
<1> HIDE DEF z
<1>b. yday = d - 1
  BY <1>5, <1>a
<1> HIDE DEF yday
<1>c. mm = m
  BY <1>7, <1>a, <1>b
<1> HIDE DEF mm
<1>9. localtime_of(n) = [tm_wday |-> (n + 4) % 7, tm_mon |-> m - 1, tm_year |-> Y - 1900,
                         tm_mday |-> (d - 1) - DaysBeforeMonth(Y, m) + 1, tm_yday |-> d - 1]
  BY <1>8, <1>a, <1>b, <1>c
<1>10. (d - 1) - DaysBeforeMonth(Y, m) + 1 = MonthDay(y, m, d)
  BY <1>1, <1>6 DEF MonthDay
<1> QED
  BY <1>1, <1>9, <1>10

(* The n-th row of DATE is taken at 06:01:01 UTC of the n-th day: local    *)
(* time is on the same day, unless it is more than six hours behind.       *)
LEMMA SameDay ==
  ASSUME FirstOfJanuary, NEW index \in Nat
  PROVE  (D_STARTDATE + (index - 1) * DAY + UtcOffset) \div DAY = DaysBefore(1992) + index - 1
<1>1. DaysBefore(1992) = 8035
  BY DEF DaysBefore
<1>2. DAY = 86400 /\ D_STARTDATE = 8035 * 86400 + 21661
  BY DEF DAY, D_STARTDATE
<1> DEFINE q == 8035 + index - 1
           r == 21661 + UtcOffset
<1>u. UtcOffset \in Int /\ UtcOffset <= 50400 /\ 0 - 21661 <= UtcOffset
  BY UtcOffsetAssumption DEF FirstOfJanuary
<1>3. r \in Int /\ 0 <= r /\ r < 86400 /\ q \in Int
  BY <1>u
<1>4. D_STARTDATE + (index - 1) * DAY + UtcOffset = q * 86400 + r
  <2>1. D_STARTDATE + (index - 1) * DAY + UtcOffset = (8035 * 86400 + 21661) + (index - 1) * 86400 + UtcOffset
    BY <1>2
  <2> QED
    BY <1>u, <2>1
<1> HIDE DEF q, r
<1>5. (q * 86400 + r) \div 86400 = q
  BY <1>3
<1> QED
  BY <1>1, <1>2, <1>4, <1>5 DEF q

(* The row of DATE for day d of year y. *)
LEMMA DateOf ==
  ASSUME FirstOfJanuary, NEW y \in Years, NEW d \in 1..DaysIn(y), NEW m \in 1..12, InMonth(y, m, d)
  PROVE  LET n == DaysBefore(1992) + Offset(y) + d - 1
             date == mk_date(Offset(y) + d)
         IN /\ date.datekey = Key(y, m, d) /\ date.month = m /\ date.year = 1900 + y
            /\ date.daynuminmonth = MonthDay(y, m, d) /\ date.daynuminyear = d
            /\ date.daynuminweek = ((((n + 4) % 7) + 1) % 7) + 1
            /\ date.sellingseason = gen_season(m, MonthDay(y, m, d))
            /\ date.lastdayinweekfl = Flag(((((n + 4) % 7) + 1) % 7) + 1 = 7)
            /\ date.yearmonthnum = (1900 + y) * 100 + m
<1> DEFINE n == DaysBefore(1992) + Offset(y) + d - 1
           tm == [tm_wday |-> (n + 4) % 7, tm_mon |-> m - 1, tm_year |-> y,
                  tm_mday |-> MonthDay(y, m, d), tm_yday |-> d - 1]
<1>1. Offset(y) \in Nat /\ DaysIn(y) \in {365, 366} /\ d \in Nat /\ y \in Nat /\ LEAP(y) \in {0, 1}
  BY YearFollows, Leaps DEF Years
<1>2. DaysBefore(1992) \in Int
  BY DaysGrow
<1>3. (D_STARTDATE + ((Offset(y) + d) - 1) * DAY + UtcOffset) \div DAY = n
  <2>1. Offset(y) + d \in Nat
    BY <1>1
  <2>2. (D_STARTDATE + ((Offset(y) + d) - 1) * DAY + UtcOffset) \div DAY = DaysBefore(1992) + (Offset(y) + d) - 1
    BY <2>1, SameDay
  <2> QED
    BY <1>1, <1>2, <2>2
<1>4. localtime(D_STARTDATE + ((Offset(y) + d) - 1) * DAY) = tm
  <2>1. localtime_of(n) = tm
    BY LocalOf
  <2> HIDE DEF n, tm
  <2> QED
    BY <1>3, <2>1 DEF localtime
<1>5. MonthDay(y, m, d) \in 1..31
  BY <1>1, MonthDayBounds
<1>6. mk_date(Offset(y) + d) = mk_date_of(tm)
  BY <1>4 DEF mk_date
<1>7. /\ (m - 1) + 1 = m /\ y + 1900 = 1900 + y /\ (d - 1) + 1 = d
      /\ (y + 1900) * 10000 + m * 100 + MonthDay(y, m, d) = Key(y, m, d)
  BY <1>1, <1>5 DEF Key
<1>8. tm.tm_mon + 1 = m /\ tm.tm_year + 1900 = 1900 + y /\ tm.tm_yday + 1 = d /\ tm.tm_mday = MonthDay(y, m, d)
      /\ tm.tm_wday = (n + 4) % 7
  BY <1>7
<1> HIDE DEF tm, n
<1>9. LET inweek == ((tm.tm_wday + 1) % 7) + 1
      IN /\ mk_date_of(tm).datekey = (tm.tm_year + 1900) * 10000 + (tm.tm_mon + 1) * 100 + tm.tm_mday
         /\ mk_date_of(tm).month = tm.tm_mon + 1 /\ mk_date_of(tm).year = tm.tm_year + 1900
         /\ mk_date_of(tm).daynuminmonth = tm.tm_mday /\ mk_date_of(tm).daynuminyear = tm.tm_yday + 1
         /\ mk_date_of(tm).daynuminweek = inweek
         /\ mk_date_of(tm).sellingseason = gen_season(tm.tm_mon + 1, tm.tm_mday)
         /\ mk_date_of(tm).lastdayinweekfl = Flag(inweek = 7)
         /\ mk_date_of(tm).yearmonthnum = (tm.tm_year + 1900) * 100 + (tm.tm_mon + 1)
  BY DEF mk_date_of, day_in_year
<1> QED
  BY <1>6, <1>7, <1>8, <1>9 DEF n

(* Every day belongs to a season, the 31 days of a month at most. *)
LEMMA SeasonOf ==
  ASSUME NEW m \in 1..12, NEW d \in 1..31, m = 4 => d <= 30
  PROVE  gen_season(m, d) # ""
<1> DEFINE fits == {i \in DOMAIN seasons : /\ seasons[i].from[2] <= m /\ m <= seasons[i].to[2]
                                           /\ seasons[i].from[1] <= d /\ d <= seasons[i].to[1]}
           first == CHOOSE i \in fits : \A k \in fits : i <= k
<1>1. DOMAIN seasons = 1..5
  BY DEF seasons
<1>2. /\ seasons[1] = Season("Christmas", 1, 11, 31, 12) /\ seasons[2] = Season("Summer", 1, 5, 31, 8)
      /\ seasons[3] = Season("Winter", 1, 1, 31, 3) /\ seasons[4] = Season("Spring", 1, 4, 30, 4)
      /\ seasons[5] = Season("Fall", 1, 9, 31, 10)
  BY DEF seasons
<1>3. \A i \in 1..5 : i = 1 \/ i = 2 \/ i = 3 \/ i = 4 \/ i = 5
  OBVIOUS
<1>4. \A i \in 1..5 : seasons[i].name # ""
  <2>1. /\ seasons[1].name = "Christmas" /\ seasons[2].name = "Summer" /\ seasons[3].name = "Winter"
        /\ seasons[4].name = "Spring" /\ seasons[5].name = "Fall"
    BY <1>2 DEF Season
  <2>2. "Christmas" # "" /\ "Summer" # "" /\ "Winter" # "" /\ "Spring" # "" /\ "Fall" # ""
    OBVIOUS
  <2> QED
    BY <1>3, <2>1, <2>2
<1>5. \E i \in 1..5 : /\ seasons[i].from[2] <= m /\ m <= seasons[i].to[2]
                      /\ seasons[i].from[1] <= d /\ d <= seasons[i].to[1]
  BY <1>2 DEF Season
<1>6. fits # {} /\ fits \subseteq 1..5
  BY <1>1, <1>5
<1> HIDE DEF fits
<1>7. \E i \in fits : \A k \in fits : i <= k
  <2>1. \A k \in fits : k = 1 \/ k = 2 \/ k = 3 \/ k = 4 \/ k = 5
    BY <1>3, <1>6
  <2>2. CASE 1 \in fits
    BY <2>1, <2>2
  <2>3. CASE 1 \notin fits /\ 2 \in fits
    BY <2>1, <2>3
  <2>4. CASE 1 \notin fits /\ 2 \notin fits /\ 3 \in fits
    BY <2>1, <2>4
  <2>5. CASE 1 \notin fits /\ 2 \notin fits /\ 3 \notin fits /\ 4 \in fits
    BY <2>1, <2>5
  <2>6. CASE 1 \notin fits /\ 2 \notin fits /\ 3 \notin fits /\ 4 \notin fits
    <3>1. \A k \in fits : k = 5
      BY <2>1, <2>6
    <3>2. 5 \in fits
      BY <1>6, <3>1
    <3> QED
      BY <3>1, <3>2
  <2> QED
    BY <2>2, <2>3, <2>4, <2>5, <2>6
<1>8. first \in fits
  BY <1>7
<1>9. gen_season(m, d) = IF fits = {} THEN "" ELSE seasons[first].name
  BY DEF gen_season, fits
<1> HIDE DEF first
<1> QED
  BY <1>4, <1>6, <1>8, <1>9

(* The year, the day of the year and the month of a row. *)
LEMMA Dated ==
  ASSUME NEW index \in 1..TOTDATE
  PROVE  \E y \in Years : \E d \in 1..DaysIn(y) : \E m \in 1..12 :
           /\ InMonth(y, m, d) /\ index = Offset(y) + d /\ LEAP(y) \in {0, 1} /\ d \in Nat /\ y \in Nat
           /\ Offset(y) \in Nat
<1>1. index - 1 \in 0..(TOTDATE - 1) /\ index \in Nat
  BY DEF TOTDATE
<1>y. PICK y \in Years : \E d \in 1..DaysIn(y) : index - 1 = Offset(y) + d - 1
  BY <1>1, YearOf
<1>2. PICK d \in 1..DaysIn(y) : index - 1 = Offset(y) + d - 1
  BY <1>y
<1>3. Offset(y) \in Nat /\ DaysIn(y) \in {365, 366} /\ d \in Nat /\ y \in Nat /\ LEAP(y) \in {0, 1}
      /\ DaysIn(y) = 365 + LEAP(y)
  BY YearFollows, Leaps DEF Years, DaysIn
<1>4. index = Offset(y) + d
  BY <1>1, <1>2, <1>3
<1>5. d \in 1..(365 + LEAP(y))
  BY <1>3
<1>6. PICK m \in 1..12 : InMonth(y, m, d)
  BY <1>3, <1>5, MonthOf
<1> QED
  BY <1>3, <1>4, <1>6

(* So for day d of year y. *)
LEMMA AgreeOn ==
  ASSUME FirstOfJanuary, NEW y \in Years, NEW d \in 1..DaysIn(y), NEW m \in 1..12, InMonth(y, m, d),
         NEW index, index = Offset(y) + d
  PROVE  /\ mk_time(index).alpha = mk_date(index).datekey
         /\ mk_time(index).day = mk_date(index).daynuminmonth
         /\ mk_date(index).sellingseason # ""
<1>2. mk_time(index).alpha = Key(y, m, d) /\ mk_time(index).day = MonthDay(y, m, d)
  BY TimeOf
<1>3. /\ mk_date(index).datekey = Key(y, m, d) /\ mk_date(index).daynuminmonth = MonthDay(y, m, d)
      /\ mk_date(index).sellingseason = gen_season(m, MonthDay(y, m, d))
  BY DateOf
<1>4. LEAP(y) \in {0, 1} /\ d \in Nat
  BY YearFollows, Leaps
<1>5. MonthDay(y, m, d) \in 1..31 /\ (m = 4 => MonthDay(y, m, d) <= 30)
  BY <1>4, MonthDayBounds
<1>6. gen_season(m, MonthDay(y, m, d)) # ""
  BY <1>5, SeasonOf
<1> QED
  BY <1>2, <1>3, <1>6

(* The n-th row of DATE is the n-th day of the calendar of the orders, in  *)
(* every zone from six hours west of UTC eastwards, and it has a season.   *)
THEOREM CalendarsAgree ==
  ASSUME FirstOfJanuary, NEW index \in 1..TOTDATE
  PROVE  /\ mk_time(index).alpha = mk_date(index).datekey
         /\ mk_time(index).day = mk_date(index).daynuminmonth
         /\ mk_date(index).sellingseason # ""
<1>1. PICK y \in Years : \E d \in 1..DaysIn(y) : \E m \in 1..12 : InMonth(y, m, d) /\ index = Offset(y) + d
  BY Dated
<1>2. PICK d \in 1..DaysIn(y) : \E m \in 1..12 : InMonth(y, m, d) /\ index = Offset(y) + d
  BY <1>1
<1>3. PICK m \in 1..12 : InMonth(y, m, d) /\ index = Offset(y) + d
  BY <1>2
<1> QED
  BY <1>3, AgreeOn

-----------------------------------------------------------------------------
(* From one row of DATE to the next. *)

(* The day of the week of the n-th day since 1970. *)
WeekDay(n) == ((((n + 4) % 7) + 1) % 7) + 1

LEMMA WeekFollows ==
  ASSUME NEW n \in Int
  PROVE  WeekDay(n + 1) = (WeekDay(n) % 7) + 1 /\ (WeekDay(n) = 7 <=> WeekDay(n + 1) = 1)
BY DEF WeekDay

(* The row of the day after day d of year y, when it is day e of year z. *)
LEMMA RowsFollow ==
  ASSUME FirstOfJanuary,
         NEW y \in Years, NEW d \in 1..DaysIn(y), NEW m \in 1..12, InMonth(y, m, d),
         NEW z \in Years, NEW e \in 1..DaysIn(z), NEW k \in 1..12, InMonth(z, k, e),
         NEW index, index = Offset(y) + d, Offset(z) + e = Offset(y) + d + 1,
         Key(z, k, e) > Key(y, m, d),
         MonthDay(z, k, e) \in {MonthDay(y, m, d) + 1, 1},
         e = (IF z > y THEN 1 ELSE d + 1),
         (z # y \/ k # m) <=> MonthDay(z, k, e) = 1
  PROVE  Follows(mk_date(index), mk_date(index + 1))
<1> DEFINE n == DaysBefore(1992) + Offset(y) + d - 1
<1>1. /\ Offset(y) \in Nat /\ Offset(z) \in Nat /\ d \in Nat /\ e \in Nat /\ y \in Nat /\ z \in Nat
      /\ LEAP(y) \in {0, 1} /\ DaysBefore(1992) \in Int
  BY YearFollows, Leaps, DaysGrow DEF Years
<1>2. index + 1 = Offset(z) + e /\ n \in Int /\ n + 1 = DaysBefore(1992) + Offset(z) + e - 1
  BY <1>1
<1>3. /\ mk_date(index).datekey = Key(y, m, d) /\ mk_date(index).year = 1900 + y
      /\ mk_date(index).daynuminmonth = MonthDay(y, m, d) /\ mk_date(index).daynuminyear = d
      /\ mk_date(index).daynuminweek = WeekDay(n)
      /\ mk_date(index).lastdayinweekfl = Flag(WeekDay(n) = 7)
      /\ mk_date(index).yearmonthnum = (1900 + y) * 100 + m
  BY DateOf DEF WeekDay
<1>4. /\ mk_date(index + 1).datekey = Key(z, k, e) /\ mk_date(index + 1).year = 1900 + z
      /\ mk_date(index + 1).daynuminmonth = MonthDay(z, k, e) /\ mk_date(index + 1).daynuminyear = e
      /\ mk_date(index + 1).daynuminweek = WeekDay(n + 1)
      /\ mk_date(index + 1).yearmonthnum = (1900 + z) * 100 + k
  BY <1>2, DateOf DEF WeekDay
<1> HIDE DEF n
<1>5. WeekDay(n + 1) = (WeekDay(n) % 7) + 1 /\ (WeekDay(n) = 7 <=> WeekDay(n + 1) = 1)
  BY <1>2, WeekFollows
<1>6. (1900 + z) * 100 + k # (1900 + y) * 100 + m <=> z # y \/ k # m
  BY <1>1
<1>7. (1900 + z > 1900 + y) <=> z > y
  BY <1>1
<1>9. MonthDay(z, k, e) = 1 <=> mk_date(index + 1).yearmonthnum # mk_date(index).yearmonthnum
  BY <1>3, <1>4, <1>6
<1>10. (mk_date(index).lastdayinweekfl = "1") <=> WeekDay(n) = 7
  BY <1>3 DEF Flag
<1> QED
  BY <1>3, <1>4, <1>5, <1>7, <1>9, <1>10 DEF Follows

(* The next day is one of the same month, the first of the next month, or  *)
(* the first of January.                                                   *)
LEMMA NextDay ==
  ASSUME FirstOfJanuary, NEW index \in 1..(TOTDATE - 1)
  PROVE  Follows(mk_date(index), mk_date(index + 1))
<1>1. index \in 1..TOTDATE /\ index < TOTDATE /\ index \in Nat
  BY DEF TOTDATE
<1>2. PICK y \in Years : \E d \in 1..DaysIn(y) : \E m \in 1..12 : InMonth(y, m, d) /\ index = Offset(y) + d
  BY <1>1, Dated
<1>3. PICK d \in 1..DaysIn(y) : \E m \in 1..12 : InMonth(y, m, d) /\ index = Offset(y) + d
  BY <1>2
<1>4. PICK m \in 1..12 : InMonth(y, m, d) /\ index = Offset(y) + d
  BY <1>3
<1>5. /\ Offset(y) \in Nat /\ DaysIn(y) \in {365, 366} /\ d \in Nat /\ y \in Nat /\ LEAP(y) \in {0, 1}
      /\ DaysIn(y) = 365 + LEAP(y) /\ Offset(y + 1) = Offset(y) + DaysIn(y)
  BY YearFollows, Leaps DEF Years, DaysIn
<1>6. /\ DaysBeforeMonth(y, m) \in Nat /\ DaysBeforeMonth(y, m + 1) \in Nat
      /\ DaysBeforeMonth(y, m) < d /\ d <= DaysBeforeMonth(y, m + 1)
      /\ DaysBeforeMonth(y, 13) = DaysIn(y)
  BY <1>4, <1>5, MonthsGrow, MonthStarts DEF InMonth
<1>7. MonthDay(y, m, d) \in 1..31
  BY <1>4, <1>5, MonthDayBounds
<1>8. CASE d < DaysBeforeMonth(y, m + 1)
  <2>1. InMonth(y, m, d + 1)
    BY <1>5, <1>6, <1>8 DEF InMonth
  <2>2. d + 1 \in 1..DaysIn(y)
    <3>1. DaysBeforeMonth(y, m + 1) <= DaysIn(y)
      BY <1>5, TwelveMonths, MonthStarts
    <3> QED
      BY <1>5, <1>6, <1>8, <3>1
  <2>3. Offset(y) + (d + 1) = Offset(y) + d + 1
    BY <1>5
  <2>4. MonthDay(y, m, d + 1) = MonthDay(y, m, d) + 1
    BY <1>5, <1>6 DEF MonthDay
  <2>5. Key(y, m, d + 1) > Key(y, m, d)
    BY <1>5, <1>7, <2>4 DEF Key
  <2>6. ~(y > y) /\ MonthDay(y, m, d + 1) # 1
    BY <1>5, <1>6, <1>7, <1>8, <2>4
  <2> QED
    BY <1>4, <2>1, <2>2, <2>3, <2>4, <2>5, <2>6, RowsFollow
<1>9. CASE d = DaysBeforeMonth(y, m + 1) /\ m < 12
  <2>1. m + 1 \in 1..12 /\ (m + 1) + 1 \in 1..13
    BY <1>9
  <2>2. InMonth(y, m + 1, d + 1)
    <3>1. DaysBeforeMonth(y, m + 1) < DaysBeforeMonth(y, (m + 1) + 1)
      BY <1>5, <1>9, TwelveMonths, MonthStarts
    <3>2. DaysBeforeMonth(y, (m + 1) + 1) \in Nat
      BY <1>5, <2>1, MonthsGrow
    <3> QED
      BY <1>5, <1>9, <2>1, <3>1, <3>2 DEF InMonth
  <2>3. d + 1 \in 1..DaysIn(y)
    <3>1. m <= 11 => DaysBeforeMonth(y, m + 1) < DaysIn(y)
      BY <1>5, TwelveMonths, MonthStarts
    <3> QED
      BY <1>5, <1>9, <3>1
  <2>4. Offset(y) + (d + 1) = Offset(y) + d + 1
    BY <1>5
  <2>5. MonthDay(y, m + 1, d + 1) = 1
    BY <1>5, <1>9 DEF MonthDay
  <2>6. Key(y, m + 1, d + 1) > Key(y, m, d)
    BY <1>5, <1>7, <2>5 DEF Key
  <2>7. ~(y > y) /\ m + 1 # m
    BY <1>5
  <2> QED
    BY <1>4, <1>9, <2>1, <2>2, <2>3, <2>4, <2>5, <2>6, <2>7, RowsFollow
<1>10. CASE d = DaysBeforeMonth(y, m + 1) /\ m = 12
  <2>1. d = DaysIn(y)
    BY <1>6, <1>10
  <2>2. y + 1 \in Years
    <3>1. y # 98
      BY <1>1, <1>4, <1>5, <2>1, Offsets, Leaps DEF TOTDATE, Years, DaysIn
    <3> QED
      BY <3>1 DEF Years
  <2>3. 1 \in 1..DaysIn(y + 1) /\ LEAP(y + 1) \in {0, 1}
    BY <2>2, YearFollows, Leaps
  <2>4. InMonth(y + 1, 1, 1) /\ MonthDay(y + 1, 1, 1) = 1
    BY <2>3, MonthStarts DEF InMonth, MonthDay
  <2>5. Offset(y + 1) + 1 = Offset(y) + d + 1
    BY <1>5, <2>1
  <2>6. Key(y + 1, 1, 1) > Key(y, m, d)
    BY <1>5, <1>7, <1>10, <2>4 DEF Key
  <2>7. y + 1 > y /\ y + 1 # y /\ 1 \in 1..12
    BY <1>5
  <2> QED
    BY <1>4, <1>10, <2>2, <2>3, <2>4, <2>5, <2>6, <2>7, RowsFollow
<1> QED
  BY <1>5, <1>6, <1>8, <1>9, <1>10
=============================================================================
