------------------------------ MODULE Calendar ------------------------------
(***************************************************************************)
(* The two calendars of ssb-dbgen.  The dates of the orders come from      *)
(* mk_time, which counts Julian days (yyddd) from STARTDATE; the rows of   *)
(* the table DATE come from mk_date, which takes localtime() apart.  Dates *)
(* as text (19yymmdd) are the number that is read off them.                *)
(***************************************************************************)
EXTENDS Integers, Sequences

CONSTANT UtcOffset  \* seconds that local time is ahead of UTC

ASSUME UtcOffsetAssumption == UtcOffset \in Int /\ UtcOffset >= -43200 /\ UtcOffset <= 50400

STARTDATE == 92001
TOTDATE == 2557
D_STARTDATE == 694245661
DAY == 60 * 60 * 24

(* dss.h: LEAP, right between 1901 and 2099. *)
LEAP(y) == IF y % 4 = 0 /\ y % 100 # 0 THEN 1 ELSE 0
LEAP_ADJ_from_march(y, m) == IF LEAP(y) = 1 /\ m > 2 THEN 1 ELSE 0
LEAP_ADJ(y, m) == IF LEAP(y) = 1 /\ m >= 2 THEN 1 ELSE 0

-----------------------------------------------------------------------------
(* julian: the day `date - STARTDATE' days after STARTDATE, as yyddd.  Each *)
(* round of the loop passes to the first day of the next year.              *)
YEARS == 7
julian(date) ==
  LET yend(result) == (result \div 1000) * 1000 + 365 + LEAP(result \div 1000)
      pass(at) == IF at.result + at.offset > yend(at.result)
                  THEN [result |-> at.result + 1000,
                        offset |-> at.offset - (yend(at.result) - at.result + 1)]
                  ELSE at
      loop[k \in 0..YEARS] == IF k = 0 THEN [result |-> STARTDATE, offset |-> date - STARTDATE]
                              ELSE pass(loop[k - 1])
  IN loop[YEARS].result + loop[YEARS].offset

(* months[]: the days of the year up to the end of each month. *)
months == <<31, 59, 90, 120, 151, 181, 212, 243, 273, 304, 334, 365>>
dcnt(m) == IF m = 0 THEN 0 ELSE months[m]

(* The month is the first one that ends on day d or later. *)
month_of(y, d) ==
  CHOOSE m \in 1..12 : /\ d <= dcnt(m) + LEAP_ADJ(y, m)
                       /\ \A n \in 1..(m - 1) : d > dcnt(n) + LEAP_ADJ(y, n)

(* The day in the month is told twice, once for the text. *)
mk_time_of(j) ==
  LET y == j \div 1000
      d == j % 1000
      m == month_of(y, d)
      after_feb == IF LEAP(y) = 1 /\ m > 2 THEN 1 ELSE 0
  IN [alpha |-> 19000000 + y * 10000 + m * 100 + (d - dcnt(m - 1) - after_feb),
      year |-> 1900 + y,
      month |-> m,
      day |-> d - dcnt(m - 1) - LEAP_ADJ(y, m - 1)]
mk_time(index) == mk_time_of(julian(index + STARTDATE - 1))

(* The texts of all days, from which mk_order copies. *)
asc_date(i) == mk_time(i + 1).alpha

-----------------------------------------------------------------------------
(* localtime() for the years 1970 to 2037, in a zone without summer time.  *)
DaysBefore(y) == 365 * (y - 1970) + (y - 1969) \div 4
DaysBeforeMonth(y, m) ==
  <<0, 31, 59, 90, 120, 151, 181, 212, 243, 273, 304, 334, 365>>[m] + (IF m > 2 THEN LEAP(y) ELSE 0)

localtime_of(n) ==
  LET y == CHOOSE k \in 1970..2037 : DaysBefore(k) <= n /\ n < DaysBefore(k + 1)
      yday == n - DaysBefore(y)
      m == CHOOSE k \in 1..12 : /\ DaysBeforeMonth(y, k) <= yday
                                /\ yday < DaysBeforeMonth(y, k + 1)
  IN [tm_wday |-> (n + 4) % 7, tm_mon |-> m - 1, tm_year |-> y - 1900,
      tm_mday |-> yday - DaysBeforeMonth(y, m) + 1, tm_yday |-> yday]
localtime(t) == localtime_of((t + UtcOffset) \div DAY)

-----------------------------------------------------------------------------
days_in_a_month == <<31, 28, 31, 30, 31, 30, 31, 31, 30, 31, 30, 31>>
days_in_a_month_l == <<31, 29, 31, 30, 31, 30, 31, 31, 30, 31, 30, 31>>

is_last_day_in_month(year, month, day) ==
  day = (IF LEAP(year) = 1 THEN days_in_a_month_l ELSE days_in_a_month)[month]

Season(name, start_day, start_month, end_day, end_month) ==
  [name |-> name, from |-> <<start_day, start_month>>, to |-> <<end_day, end_month>>]
seasons == <<Season("Christmas", 1, 11, 31, 12), Season("Summer", 1, 5, 31, 8),
             Season("Winter", 1, 1, 31, 3), Season("Spring", 1, 4, 30, 4),
             Season("Fall", 1, 9, 31, 10)>>

(* Day and month are compared apart. *)
gen_season(month, day) ==
  LET fits == {i \in DOMAIN seasons : /\ seasons[i].from[2] <= month /\ month <= seasons[i].to[2]
                                      /\ seasons[i].from[1] <= day /\ day <= seasons[i].to[1]}
  IN IF fits = {} THEN "" ELSE seasons[CHOOSE i \in fits : \A k \in fits : i <= k].name

holidays == {<<12, 24>>, <<1, 1>>, <<2, 20>>, <<4, 20>>, <<5, 20>>, <<7, 20>>,
             <<8, 20>>, <<9, 20>>, <<10, 20>>, <<11, 20>>}
gen_holiday_fl(month, day) == IF <<month, day>> \in holidays THEN "1" ELSE "0"

weekday_names == <<"Sunday", "Monday", "Tuesday", "Wednesday", "Thursday", "Friday", "Saturday">>
Flag(b) == IF b THEN "1" ELSE "0"

day_in_year_from_zero(tm) == tm.tm_yday
day_in_year(tm) == tm.tm_yday + 1

(* The code does not do what its names and its comment say: Saturday is    *)
(* day 1 of the week, and is named Sunday ("make Sunday be the first day   *)
(* of a week"), and lastdayinmonthfl is "0" on the last day of a month.    *)
mk_date_of(tm) ==
  LET month == tm.tm_mon + 1
      year == tm.tm_year + 1900
      inweek == ((tm.tm_wday + 1) % 7) + 1
  IN [datekey |-> year * 10000 + month * 100 + tm.tm_mday,
      dayofweek |-> weekday_names[inweek], month |-> month, year |-> year,
      yearmonthnum |-> year * 100 + month,
      daynuminweek |-> inweek, daynuminmonth |-> tm.tm_mday, daynuminyear |-> day_in_year(tm),
      weeknuminyear |-> day_in_year(tm) \div 7 + 1,
      sellingseason |-> gen_season(month, tm.tm_mday),
      lastdayinweekfl |-> Flag(inweek = 7),
      lastdayinmonthfl |-> Flag(~is_last_day_in_month(year, month, tm.tm_mday)),
      holidayfl |-> gen_holiday_fl(month, tm.tm_mday),
      weekdayfl |-> Flag(inweek # 1 /\ inweek # 7)]
mk_date(index) == mk_date_of(localtime(D_STARTDATE + (index - 1) * DAY))

-----------------------------------------------------------------------------
(* What makes n the row of DATE after d: the days of the month, of the     *)
(* year and of the week go on or start anew, the first of a month is the   *)
(* row in which the month changes, and the flag for the last day of a week *)
(* is set before the day that is numbered one.  It does not say which day  *)
(* of the week that is, nor anything of lastdayinmonthfl.                  *)
Follows(d, n) ==
  /\ n.datekey > d.datekey
  /\ n.daynuminmonth \in {d.daynuminmonth + 1, 1}
  /\ n.daynuminyear = (IF n.year > d.year THEN 1 ELSE d.daynuminyear + 1)
  /\ n.daynuminweek = (d.daynuminweek % 7) + 1
  /\ (n.daynuminmonth = 1) <=> (n.yearmonthnum # d.yearmonthnum)
  /\ (d.lastdayinweekfl = "1") <=> (n.daynuminweek = 1)
=============================================================================
