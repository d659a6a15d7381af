-------------------------------- MODULE Rows --------------------------------
(***************************************************************************)
(* The rows that ssb-dbgen builds: what mk_part, mk_supp, mk_cust and      *)
(* mk_order (build.c) may put into a row, over all draws.  Texts are model *)
(* values of the distributions of dists.dss; the digits of a phone number, *)
(* the letters of an address and the clerk are left out.                   *)
(***************************************************************************)
EXTENDS Calendar, Keys, FiniteSets

CONSTANTS base,       \* base[t]: tdefs[t].base
          Probe,      \* bound: Probe[stream], the values of a stream that are tried
          Dists,      \* dists.dss: Dists[name], a sequence of [text, weight]
          Brief,      \* Brief[text]: the first nine characters of a nation, filled up
          MaxLines,   \* bound: O_LCNT_MAX, 7 in dss.h
          MAXAGG_LEN, \* 10
          Length      \* Length[text], of the priorities

ASSUME RowsAssumption ==
  /\ base \in [{"part", "supplier", "customer", "date", "lineorder"} -> Nat \ {0}]
  /\ \A name \in DOMAIN Dists : Len(Dists[name]) > 0
  /\ MaxLines \in Nat \ {0} /\ MAXAGG_LEN \in Nat

(* The streams that the rows are drawn from. *)
RowStreams == {"P_NAME", "P_MFG", "P_CAT", "P_BRND", "P_TYPE", "P_SIZE", "P_CNTR", "C_ADDR", "S_ADDR", "C_NTRG",
               "S_NTRG", "CITY", "C_MSEG", "O_CKEY", "O_PRIO", "O_LCNT", "O_ODATE", "L_PKEY", "L_SKEY", "L_QTY",
               "L_DCNT", "L_TAX", "L_CDTE", "L_SMODE"}
ASSUME ProbeAssumption == \A stream \in RowStreams : Probe[stream] \subseteq Int

(* The colors of dists.dss are different, and more than a part has. *)
ASSUME ColorsAssumption ==
  /\ DOMAIN Dists["colors"] = 1..Len(Dists["colors"]) /\ Len(Dists["colors"]) \in Nat
  /\ Len(Dists["colors"]) >= 3
  /\ \A j, k \in DOMAIN Dists["colors"] : Dists["colors"][j].text = Dists["colors"][k].text => j = k

(* dss_random: a value of lower..upper, whichever way round they are. *)
RANDOM(lower, upper, stream) ==
  {x \in Probe[stream] : (lower <= x /\ x <= upper) \/ (upper <= x /\ x <= lower)}

-----------------------------------------------------------------------------
(* Distributions. *)

read_dist_before(name) ==
  LET lines == Dists[name]
      max[k \in 0..Len(lines)] == IF k = 0 THEN 0 ELSE max[k - 1] + lines[k].weight
  IN [k \in DOMAIN lines |-> [text |-> lines[k].text, weight |-> max[k - 1]]]

(* read_dist adds the weights up: that of a member is the sum so far. *)
read_dist(name) ==
  LET lines == Dists[name]
      max[k \in 0..Len(lines)] == IF k = 0 THEN 0 ELSE max[k - 1] + lines[k].weight
  IN [k \in DOMAIN lines |-> [text |-> lines[k].text, weight |-> max[k]]]

(* pick_str: the first member whose sum reaches the value drawn. *)
picked(list, j) ==
  list[CHOOSE k \in DOMAIN list : list[k].weight >= j /\ \A n \in 1..(k - 1) : list[n].weight < j].text
pick_str(list, stream) == {picked(list, j) : j \in RANDOM(1, list[Len(list)].weight, stream)}

(* permute: every place in turn is exchanged with one drawn from all. *)
swap(a, j, k) == [a EXCEPT ![j] = a[k], ![k] = a[j]]
permute_copy(draw, c) ==
  LET a[k \in 0..c] == IF k = 0 THEN [n \in 0..(c - 1) |-> n]
                       ELSE [a[k - 1] EXCEPT ![k - 1] = a[k - 1][draw[k - 1]]]
  IN a[c]
permute(draw, c) ==
  LET a[k \in 0..c] == IF k = 0 THEN [n \in 0..(c - 1) |-> n]
                       ELSE swap(a[k - 1], draw[k - 1], k - 1)
  IN a[c]

(* agg_str: count members of a distribution, by a permutation of it. *)
agg_str(list, count, stream) ==
  LET c == Len(list)
      places == {permute(draw, c) : draw \in [0..(c - 1) -> RANDOM(0, c - 1, stream)]}
  IN {[k \in 1..count |-> list[p[(k - 1) % c] + 1].text] : p \in places}

-----------------------------------------------------------------------------
(* Parts. *)

P_NAME_SCL == 3

(* gen_color: the first word is the color, the others are the name. *)
gen_color(source) == [color |-> Head(source), name |-> Tail(source)]

(* The digits of a brand follow those of its category, which follow that   *)
(* of its manufacturer.                                                    *)
brand_text(mfgr, cat, brnd) ==
  LET category == mfgr * 10 + cat
  IN IF brnd < 10 THEN category * 10 + brnd ELSE category * 100 + brnd

mk_part(index) ==
  {[partkey |-> index, color |-> gen_color(name).color, name |-> gen_color(name).name,
    mfgr |-> mfgr, category |-> mfgr * 10 + cat, brand |-> brand_text(mfgr, cat, brnd),
    type |-> type, size |-> size, container |-> container] :
      name \in agg_str(read_dist("colors"), P_NAME_SCL, "P_NAME"),
      mfgr \in RANDOM(1, 5, "P_MFG"), cat \in RANDOM(1, 5, "P_CAT"), brnd \in RANDOM(1, 40, "P_BRND"),
      type \in pick_str(read_dist("p_types"), "P_TYPE"), size \in RANDOM(1, 50, "P_SIZE"),
      container \in pick_str(read_dist("p_cntr"), "P_CNTR")}

-----------------------------------------------------------------------------
(* Customers and suppliers. *)

NATIONS_MAX == 90

(* The text of a city is the brief name of its nation and a digit. *)
gen_city(nation, pick) == <<Brief[nation], pick>>
(* A phone number starts with the code of the nation. *)
gen_phone(n) == 10 + (n % NATIONS_MAX)

(* The sum of the weights of a nation is the number of its region. *)
region_of(n) == read_dist("regions")[read_dist("nations")[n + 1].weight + 1].text

(* V_STR: an address has between 0.4 and 1.6 times its average length. *)
a_rnd(avg, stream) == RANDOM((avg * 4) \div 10, (avg * 16) \div 10, stream)

place(n, pick) ==
  LET nation == read_dist("nations")[n + 1].text
  IN [city |-> gen_city(nation, pick), nation_name |-> nation,
      region_name |-> region_of(n), phone |-> gen_phone(n)]
places(stream) ==
  {place(n, pick) : n \in RANDOM(0, Len(Dists["nations"]) - 1, stream), pick \in RANDOM(0, 9, "CITY")}

mk_cust(n_cust) ==
  {[custkey |-> n_cust, alen |-> alen, place |-> p, mktsegment |-> segment] :
      alen \in a_rnd(15, "C_ADDR"), p \in places("C_NTRG"),
      segment \in pick_str(read_dist("msegmnt"), "C_MSEG")}

mk_supp(index) ==
  {[suppkey |-> index, alen |-> alen, place |-> p] :
      alen \in a_rnd(15, "S_ADDR"), p \in places("S_NTRG")}

-----------------------------------------------------------------------------
(* Orders. *)

CUST_MORTALITY == 3
PENNIES == 100
L_SDTE_MAX == 121
L_RDTE_MAX == 30
L_CDTE_MIN == 30
L_CDTE_MAX == 90
O_ODATE_MIN == STARTDATE
O_ODATE_MAX == STARTDATE + TOTDATE - (L_SDTE_MAX + L_RDTE_MAX) - 1

(* Bound: the scales that the logarithms are right for. *)
MaxScale == 2147483647

(* floor(log(scale)): the powers of e, rounded up, that do not exceed it. *)
powers_of_e ==
  <<3, 8, 21, 55, 149, 404, 1097, 2981, 8104, 22027, 59875, 162755, 442414, 1202605, 3269018, 8886111,
    24154953, 65659970, 178482301, 485165196, 1318815735>>
Ln(scale) == Cardinality({k \in DOMAIN powers_of_e : powers_of_e[k] <= scale})
L_PKEY_MAX_tpch(scale) == base["part"] * scale
L_PKEY_MAX(scale) == base["part"] * (Ln(scale) + 1)
L_SKEY_MAX(scale) == base["supplier"] * scale
O_CKEY_MAX(scale) == base["customer"] * scale

(* Every third customer has no orders: a key of theirs is moved up and     *)
(* down until it is another's.  Two rounds of the loop are enough (see     *)
(* KeysJoin).                                                              *)
live_customer(drawn, max) ==
  LET round(key, delta) == IF key % CUST_MORTALITY # 0 THEN key
                           ELSE IF key + delta < max THEN key + delta ELSE max
  IN round(round(drawn, 1), -1)

rpb_routine(p) == 90000 + ((p \div 10) % 20001) + (p % 1000) * 100

(* strcpy writes past the end of a priority that is longer than its field, *)
(* and ship_priority, set to 0 right after it, cuts it off there.          *)
opriority(text) == IF Length[text] > MAXAGG_LEN + 1 THEN <<text, MAXAGG_LEN + 1>> ELSE <<text, Length[text]>>

extended_price(partkey, quantity) == rpb_routine(partkey) * quantity
revenue(price, discount) == (price * (100 - discount)) \div PENNIES
taxed(price, discount, tax) == (revenue(price, discount) * (100 + tax)) \div PENNIES

(* The draws of a line; tmp_date is the date of its order. *)
mk_line(scale, tmp_date) ==
  {[partkey |-> partkey, suppkey |-> suppkey, quantity |-> quantity, discount |-> discount, tax |-> tax,
    commit_date |-> asc_date(tmp_date + c_date - STARTDATE),
    extended_price |-> extended_price(partkey, quantity),
    revenue |-> revenue(extended_price(partkey, quantity), discount),
    supp_cost |-> (6 * rpb_routine(partkey)) \div 10,
    shipmode |-> shipmode] :
      partkey \in RANDOM(1, L_PKEY_MAX(scale), "L_PKEY"), suppkey \in RANDOM(1, L_SKEY_MAX(scale), "L_SKEY"),
      quantity \in RANDOM(1, 50, "L_QTY"), discount \in RANDOM(0, 10, "L_DCNT"), tax \in RANDOM(0, 8, "L_TAX"),
      c_date \in RANDOM(L_CDTE_MIN, L_CDTE_MAX, "L_CDTE"), shipmode \in pick_str(read_dist("smode"), "L_SMODE")}

total(lines) ==
  LET sum[n \in 0..Len(lines)] ==
        IF n = 0 THEN 0
        ELSE sum[n - 1] + taxed(lines[n].extended_price, lines[n].discount, lines[n].tax)
  IN sum[Len(lines)]

lines_of(scale, date) == UNION {[1..n -> mk_line(scale, date)] : n \in RANDOM(1, MaxLines, "O_LCNT")}

(* The static struct of gen_tbl: the lines after the order's own are those *)
(* of an order before.                                                     *)
order_of(okey, custkey, date, prio, own, old) ==
  [okey |-> okey, custkey |-> custkey, odate |-> asc_date(date - STARTDATE), opriority |-> opriority(prio),
   lines |-> Len(own), totalprice |-> total(own),
   lineorders |-> [n \in 1..MaxLines |->
      IF n <= Len(own) THEN [okey |-> okey, linenumber |-> n, line |-> own[n]] ELSE old.lineorders[n]]]

mk_order(index, old, scale) ==
  UNION {{order_of(mk_sparse(index, 0, scale), live_customer(drawn, O_CKEY_MAX(scale)), date, prio, own, old) :
            drawn \in RANDOM(1, O_CKEY_MAX(scale), "O_CKEY"),
            prio \in pick_str(read_dist("o_oprio"), "O_PRIO"),
            own \in lines_of(scale, date)} :
         date \in RANDOM(O_ODATE_MIN, O_ODATE_MAX, "O_ODATE")}
=============================================================================
